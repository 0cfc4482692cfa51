----------------------------- MODULE ReportText -----------------------------
(***************************************************************************)
(* apps/reports/modules: the readers of gift-card, bonus-club, segments,   *)
(* ranking and weekly-sales reports.                                       *)
(*                                                                         *)
(* A reader goes through the lines of a PDF's text and has to find the     *)
(* rows of a table whose cells may share a line or have one each, and      *)
(* which page breaks cut.  The document is printed here line by line, each *)
(* cell knowing its row and column, and each line is read as it comes: the *)
(* readers look ahead only to leave a line to the next row.                *)
(*                                                                         *)
(* Every page ends with a footer; column headers, which every reader skips, *)
(* are left out.                                                           *)
(***************************************************************************)
EXTENDS Integers, SequencesExt

CONSTANTS
  Formats,     \* of "gift_cards", "bonus_club", "segments", "ranking", "sales"
  Rows,        \* rows of a document, an associates' report's totals the last one
  Width,       \* columns: 4 of gift cards, 3 of bonus club, 10 of segments, 23 of rankings
  MaxBreaks,   \* bounds the page breaks
  ThreeDigits, \* columns of a ranking whose values may have three digits
  Nil

ASSUME SizeAssumption == Rows \in Nat \ {0} /\ Width \in Nat \ {0, 1} /\ MaxBreaks \in Nat
ASSUME FormatsAssumption == Formats \subseteq {"gift_cards", "bonus_club", "segments", "ranking", "sales"}
ASSUME NoRowAssumption == Nil \notin Nat

VARIABLES
  format,
  printed,  \* [row, cells]: the row being printed and how many of its cells are
  breaks,   \* page breaks so far
  firstOf,  \* for each row printed, the page it begins on
  torn,     \* rows with a page break, a blank cell or an odd line in them
  flat,     \* rows of an associates' report printed in one line
  blank,    \* for each row, how many of its cells are blank
  scan,     \* the reader
  period    \* the reader of the dates

Associates == {"gift_cards", "bonus_club"}

textVars == <<format, printed, breaks, firstOf, torn, flat, blank, scan, period>>

Cell(row, col) == [row |-> row, col |-> col]
Cells(row, from, to) == [i \in 1..(to - from + 1) |-> Cell(row, from + i - 1)]
\* What is read in the place of a cell and is none of the table's.
NoCell == Cell(0, 0)

\* A line: the start of a row (a name, a number or a label, with the cells that
\* share its line), cells, the store's number or another line of a footer.
TextLine(kind, row, cells) == [kind |-> kind, row |-> row, cells |-> cells]
Foot == TextLine("foot", Nil, <<>>)
StoreNumber == TextLine("number", Nil, <<>>)

\* A reader: the row it is in and that row's values, and the rows it has kept.
Start == [mode |-> "idle", row |-> Nil, cells |-> <<>>, kept |-> <<>>]
Keep(s, row, cells) == [Start EXCEPT !.kept = Append(s.kept, [row |-> row, cells |-> cells])]
Leave(s) == [Start EXCEPT !.kept = s.kept]
Enter(s, row, cells) == [s EXCEPT !.mode = "row", !.row = row, !.cells = cells]
Finish(s) == [s EXCEPT !.mode = "done"]

\* Mutant: a row waits for one more cell than it has.
Take_OneMore(s, cells) ==
  LET all == s.cells \o cells
  IN  IF Len(all) > Width THEN Keep(s, s.row, all) ELSE Enter(s, s.row, all)

\* Cells of the row; the last one completes it.
Take(s, cells) ==
  LET all == s.cells \o cells
  IN  IF Len(all) >= Width THEN Keep(s, s.row, all) ELSE Enter(s, s.row, all)

(***************************************************************************)
(* gift_cards.py and bonus_club.py                                         *)
(***************************************************************************)
\* A row in one line has all its cells; a row alone in its line has them after it.
BeginAssociate(s, line) ==
  IF line.cells = <<>> THEN Enter(Leave(s), line.row, <<>>) ELSE Keep(Leave(s), line.row, line.cells)

Bare(line) == line.kind = "start" /\ line.cells = <<>>
\* _is_numeric_line: a number first, or a percentage last.  In a row any such line is
\* one value: a cell, the store's number, and the whole line of another associate or
\* of the totals, which no conversion to a number accepts and which is left blank.
ValueOf(line) == IF line.kind = "cells" THEN line.cells ELSE <<NoCell>>

\* Mutant: an incomplete row is not given up at the next one.
ScanAssociates_GoesOn(s, line) ==
  CASE line.kind = "foot" -> Leave(s)
    [] line.kind = "start" /\ s.mode = "idle" -> BeginAssociate(s, line)
    [] line.kind # "foot" /\ s.mode = "row" /\ ~Bare(line) -> Take(s, ValueOf(line))
    [] OTHER -> s

\* A footer, the word Totals or a number alone in its line end an incomplete row,
\* which is dropped.  The totals come last; only a footer ends them.
ScanAssociates(s, line) ==
  CASE line.kind = "foot" -> Leave(s)
    [] line.kind = "start" /\ (s.mode = "idle" \/ Bare(line)) -> BeginAssociate(s, line)
    [] line.kind # "foot" /\ s.mode = "row" /\ ~Bare(line) -> Take(s, ValueOf(line))
    [] OTHER -> s

\* The bonus-club reader differs in the number of columns only.
ScanBonusClub(s, line) == ScanAssociates(s, line)

\* _extract_period: of the bare dates the first is the start and any later one
\* the end; a page has both of them.
ScanDates(p) ==
  IF p.start = Nil THEN [start |-> "from", end |-> "to"] ELSE [p EXCEPT !.end = "to"]

(***************************************************************************)
(* segments.py                                                             *)
(***************************************************************************)
\* A row that ends early is kept; _finalize_row fills it up with blanks.
Close(s) == IF s.mode = "row" THEN Keep(s, s.row, s.cells) ELSE Leave(s)

\* A line with a name and values is a row, however many values it has; any words
\* are values to a row that is not full.  Footers before the table's headers, which
\* come with its first row, do not count.
ScanSegments(s, line) ==
  CASE s.mode = "done" -> s
    [] s.mode # "done" /\ line.kind = "foot" -> IF s = Start THEN s ELSE Finish(Close(s))
    [] s.mode # "done" /\ line.kind = "start" /\ line.cells # <<>> -> Keep(Close(s), line.row, line.cells)
    [] s.mode = "idle" /\ line.kind = "start" /\ line.cells = <<>> -> Enter(s, line.row, <<>>)
    [] s.mode = "row" /\ line.kind = "start" /\ line.cells = <<>> -> Take(s, <<NoCell>>)
    [] s.mode = "row" /\ line.kind = "cells" -> Take(s, line.cells)
    [] OTHER -> s

\* The first range of dates.
ScanRange(p) == IF p.start = Nil THEN [start |-> "from", end |-> "to"] ELSE p

(***************************************************************************)
(* ranking.py                                                              *)
(***************************************************************************)
\* _STORE_ROW_RE: three digits, and more.
LooksLikeStore(line) ==
  \/ line.kind = "start"
  \/ line.kind = "cells" /\ Len(line.cells) > 1 /\ line.cells[1].col \in ThreeDigits
StoreOf(line) == IF line.kind = "start" THEN line.row ELSE Nil
ValuesOf(line) == IF line.kind = "start" THEN line.cells ELSE Tail(line.cells)

\* A row without any value is none.
CloseStore(s) == IF s.mode = "row" /\ s.cells # <<>> THEN Keep(s, s.row, s.cells) ELSE Leave(s)
Full(s) == IF s.mode = "row" THEN s ELSE [s EXCEPT !.mode = "full"]

\* A footer that follows a store's values ends the table.
ScanRanking(s, line) ==
  CASE s.mode = "done" -> s
    [] s.mode # "done" /\ line.kind = "foot" ->
         IF s.mode = "idle" \/ (s.mode = "row" /\ s.cells = <<>>) THEN Leave(s) ELSE Finish(CloseStore(s))
    [] s.mode # "done" /\ LooksLikeStore(line) ->
         Full(Take(Enter(CloseStore(s), StoreOf(line), <<>>), ValuesOf(line)))
    [] s.mode = "row" /\ line.kind = "cells" /\ ~LooksLikeStore(line) -> Full(Take(s, line.cells))
    [] OTHER -> Leave(s)

(***************************************************************************)
(* weekly_sales.py                                                         *)
(***************************************************************************)
\* The first run of lines that have a label and a value.
ScanSales(s, line) ==
  CASE s.mode # "done" /\ line.kind = "start" -> Keep(s, line.row, line.cells)
    [] OTHER -> IF s.kept = <<>> THEN s ELSE Finish(s)

(***************************************************************************)
(* Every format                                                            *)
(***************************************************************************)
Scan(s, line) ==
  CASE format = "gift_cards" -> ScanAssociates(s, line)
    [] format = "bonus_club" -> ScanBonusClub(s, line)
    [] format = "segments" -> ScanSegments(s, line)
    [] format = "ranking" -> ScanRanking(s, line)
    [] format = "sales" -> ScanSales(s, line)

ScanPeriod(p) == IF format \in Associates THEN ScanDates(p) ELSE ScanRange(p)

\* The rows at the end of the text.
AssociatesParsed(s) == s.kept
SegmentsParsed(s) == IF s.mode = "row" THEN Close(s).kept ELSE s.kept
RankingParsed(s) == IF s.mode = "row" THEN CloseStore(s).kept ELSE s.kept
SalesParsed(s) == s.kept
Parsed ==
  CASE format \in Associates -> AssociatesParsed(scan)
    [] format = "segments" -> SegmentsParsed(scan)
    [] format = "ranking" -> RankingParsed(scan)
    [] format = "sales" -> SalesParsed(scan)

(***************************************************************************)
(* The document                                                            *)
(***************************************************************************)
TextInit ==
  /\ format \in Formats
  /\ printed = [row |-> 0, cells |-> Width]
  /\ breaks = 0
  /\ firstOf = [r \in 1..Rows |-> Nil]
  /\ torn = {}
  /\ flat = {}
  /\ blank = [r \in 1..Rows |-> 0]
  /\ scan = Start
  /\ period = [start |-> Nil, end |-> Nil]

Complete == printed.cells = Width
Row == printed.row
Read(line) == scan' = Scan(scan, line)

\* A row begins with none of its cells, all of them, or some, where the format
\* lets them share lines.
Inline == CASE format \in Associates -> {0, Width}
            [] format = "sales" -> {Width}
            [] OTHER -> 0..Width
BeginRow(k) ==
  /\ Complete /\ Row < Rows
  /\ printed' = [row |-> Row + 1, cells |-> k]
  /\ firstOf' = [firstOf EXCEPT ![Row + 1] = breaks]
  /\ torn' = IF format = "segments" /\ k \in 1..(Width - 1) THEN torn \cup {Row + 1} ELSE torn
  /\ flat' = IF format \in Associates /\ k = Width THEN flat \cup {Row + 1} ELSE flat
  /\ Read(TextLine("start", Row + 1, Cells(Row + 1, 1, k)))
  /\ UNCHANGED <<format, breaks, blank, period>>

PrintCells(k) ==
  /\ printed.cells + k <= Width
  /\ format \in Associates => k = 1
  /\ LET line == TextLine("cells", Row, Cells(Row, printed.cells + 1, printed.cells + k)) IN
     /\ torn' = IF format = "ranking" /\ LooksLikeStore(line) THEN torn \cup {Row} ELSE torn
     /\ Read(line)
  /\ printed' = [printed EXCEPT !.cells = @ + k]
  /\ UNCHANGED <<format, breaks, firstOf, flat, blank, period>>

\* A cell that is blank leaves nothing in the text.
SkipCell ==
  /\ format \in Associates \cup {"ranking"} /\ ~Complete
  /\ printed' = [printed EXCEPT !.cells = @ + 1]
  /\ torn' = torn \cup {Row}
  /\ blank' = [blank EXCEPT ![Row] = @ + 1]
  /\ UNCHANGED <<format, breaks, firstOf, flat, scan, period>>

\* A page ends with its footer, which has the dates of the period; in associates'
\* reports it may begin with the store's number.
PageBreak(numbered) ==
  /\ breaks < MaxBreaks
  /\ numbered => format \in Associates
  /\ breaks' = breaks + 1
  /\ torn' = IF Complete THEN torn ELSE torn \cup {Row}
  /\ scan' = Scan(IF numbered THEN Scan(scan, StoreNumber) ELSE scan, Foot)
  /\ period' = ScanPeriod(period)
  /\ UNCHANGED <<format, printed, firstOf, flat, blank>>

TextNext ==
  \/ \E k \in Inline : BeginRow(k)
  \/ \E k \in 1..Width : PrintCells(k)
  \/ SkipCell
  \/ \E numbered \in BOOLEAN : PageBreak(numbered)

TextSpec == TextInit /\ [][TextNext]_textVars

(***************************************************************************)
(* Properties                                                              *)
(***************************************************************************)
\* The row being printed is not yet there as a whole.
Whole(r) == r \notin torn /\ (r < Row \/ (r = Row /\ Complete))
Own(kept) == \A i \in DOMAIN kept.cells : kept.cells[i] = Cell(kept.row, i)

\* Among a row's figures there is none of another row.
NoOthers(kept) == \A i \in DOMAIN kept.cells : kept.cells[i].row \in {kept.row, 0}

\* What may be wrong with a row that is torn: in rankings anything, in gift-card and
\* bonus-club reports the columns.
Excused(kept, lost) ==
  kept.row \in lost /\ (format = "ranking" \/ (format \in Associates /\ NoOthers(kept)))

\* Nobody gets another's figures, and every figure is in its column: always in
\* segments and sales reports; in the others in every row without a blank cell, a page
\* break or, in rankings, a line that looks like a store.  An associate's row with one
\* has no figure of another's either (_extract_rows, _parse_associate_row,
\* _extract_store_rows, _parse_block).
OwnFigures ==
  \A i \in DOMAIN Parsed : Parsed[i].row = Nil \/ Own(Parsed[i]) \/ Excused(Parsed[i], torn)

\* The columns of a bonus-club row are "Associate #", "Name", "Total Transactions",
\* "Transactions With Club #", "Bonus Club Capture Rate"
\* (tests/test_reports_contract.py:562), and every figure that is kept is in its own.
\* The code counts lines that look like numbers (bonus_club.py:188-193), the footer's
\* store number among them.
InColumns == \A i \in DOMAIN Parsed : Own(Parsed[i])

\* The rows that a reader gets to: all of them, or those before the first page
\* break once a row has been printed.
Reached(r) == format \in Associates \/ \A q \in 1..r : firstOf[q] = firstOf[1]

\* A row in one line that follows an associate's row with blank cells on the same
\* page: it is read in the place of one of them.
Swallowed(r) ==
  \E q \in 1..(r - 1) : r - q <= blank[q] /\ firstOf[q] = firstOf[r] /\ (q + 1)..r \subseteq flat

\* Every row printed whole, within reach, is read: once, in its place, with all
\* its cells.
RowsRead ==
  LET read == {i \in DOMAIN Parsed : Parsed[i].row # Nil} IN
  /\ \A r \in 1..Rows : Whole(r) /\ Reached(r) /\ ~Swallowed(r) =>
       \E i \in read : Parsed[i].row = r /\ Len(Parsed[i].cells) = Width
  /\ \A i, j \in read : i < j => Parsed[i].row < Parsed[j].row

\* The period is that of the report, however many pages repeat it
\* (_extract_period, _extract_period_bounds).
PeriodRead == breaks > 0 => period = [start |-> "from", end |-> "to"]

\* What a reader makes of a document is what was printed: its rows and its days.
TextRead == RowsRead /\ PeriodRead
=============================================================================
