-------------------------- MODULE ReportText_proofs --------------------------
(***************************************************************************)
(* What the readers of a report's text make of its lines: for any number   *)
(* of rows, columns and page breaks, wherever they come.                   *)
(***************************************************************************)
EXTENDS ReportText, SequenceTheorems, TLAPS

CellsPrinted == Seq([row : 0..Rows, col : 0..Width])
Entries == [row : 1..Rows \union {Nil}, cells : CellsPrinted]

Readers ==
  [mode : {"idle", "row", "full", "done"}, row : 1..Rows \union {Nil}, cells : CellsPrinted,
   kept : Seq(Entries)]

TextTypeOK ==
  /\ format \in Formats
  /\ printed \in [row : 0..Rows, cells : 0..Width]
  /\ breaks \in Nat
  /\ firstOf \in [1..Rows -> Nat \union {Nil}]
  /\ torn \in SUBSET (1..Rows)
  /\ flat \in SUBSET (1..Rows)
  /\ blank \in [1..Rows -> Nat]
  /\ scan \in Readers

\* Only rows that have begun have blank cells, and those are torn.
BlanksKnown == \A q \in 1..Rows : blank[q] # 0 => q <= Row /\ q \in torn

NothingYet ==
  /\ Row = 0 => Complete /\ scan = Start
  /\ format = "sales" => Complete

\* A table that has ended ended with a page, and after its first row.
PagesKnown ==
  /\ \A q \in 1..Row : firstOf[q] \in Nat /\ firstOf[q] <= breaks
  /\ scan.mode = "done" => Row > 0 /\ firstOf[1] < breaks /\ format \notin Associates
  /\ scan.mode = "full" => format = "ranking"
  /\ breaks = 0 => period.start = Nil

\* A reader in a row is in the row being printed, or, in a ranking, takes cells of
\* it for a store; it has all the cells that were printed, or the row is torn.
InTheRow ==
  scan.mode = "row" =>
    /\ Row > 0 /\ Len(scan.cells) < Width
    /\ format \notin Associates =>
         /\ Len(scan.cells) <= printed.cells
         /\ scan.row = Row \/ (scan.row = Nil /\ format = "ranking" /\ Row \in torn)
         /\ scan.row = Row =>
              \/ scan.cells = Cells(Row, 1, printed.cells)
              \/ Row \in torn /\ format = "ranking"

\* A reader in an associate's row may be in an earlier one, which has taken the rows
\* after it, each in one line, in the place of its blank cells.
OpenRow ==
  scan.mode = "row" /\ format \in Associates =>
    /\ scan.row \in 1..Row /\ firstOf[scan.row] = breaks
    /\ (scan.row + 1)..Row \subseteq flat
    /\ scan.row < Row => Complete
    /\ Len(scan.cells) + blank[scan.row] = printed.cells + (Row - scan.row)
    /\ scan.row \in torn \/ scan.cells = Cells(scan.row, 1, printed.cells)
    /\ NoOthers([row |-> scan.row, cells |-> scan.cells])

\* The rows kept are rows printed, in their order, with their own cells.
Fine(kept, last, lost) ==
  /\ \A i \in DOMAIN kept :
       \/ kept[i].row = Nil
       \/ kept[i].row \in 1..last /\ (Own(kept[i]) \/ Excused(kept[i], lost))
  /\ \A i, j \in DOMAIN kept :
       i < j /\ kept[i].row # Nil /\ kept[j].row # Nil => kept[i].row < kept[j].row

LastKept == IF scan.mode = "row" /\ scan.row # Nil THEN scan.row - 1 ELSE Row

\* A row that can still be read as a whole is being read.
NotMissed ==
  Row > 0 /\ ~Complete /\ Row \notin torn /\ Reached(Row) => scan.mode = "row" /\ scan.row = Row

Has(kept, r) == \E i \in DOMAIN kept : kept[i].row = r /\ Len(kept[i].cells) = Width

WholeKept == \A r \in 1..Rows : Whole(r) /\ Reached(r) /\ ~Swallowed(r) => Has(scan.kept, r)

TextInv ==
  /\ TextTypeOK
  /\ BlanksKnown
  /\ NothingYet
  /\ PagesKnown
  /\ InTheRow
  /\ OpenRow
  /\ Fine(scan.kept, LastKept, torn)
  /\ NotMissed
  /\ WholeKept
  /\ PeriodRead

(***************************************************************************)
(* Cells, and the rows kept                                                *)
(***************************************************************************)
LEMMA CellsTyped ==
  ASSUME NEW row \in 1..Rows, NEW from \in 1..(Width + 1), NEW to \in (from - 1)..Width
  PROVE  /\ Cells(row, from, to) \in CellsPrinted
         /\ Len(Cells(row, from, to)) = to - from + 1
         /\ \A i \in 1..(to - from + 1) : Cells(row, from, to)[i] = Cell(row, from + i - 1)
  <1> DEFINE n == to - from + 1
  <1>1. n \in Nat
    BY SizeAssumption
  <1>2. Cells(row, from, to) = [i \in 1..n |-> Cell(row, from + i - 1)]
    BY DEF Cells
  <1>3. ASSUME NEW i \in 1..n
        PROVE  Cell(row, from + i - 1) \in [row : 0..Rows, col : 0..Width]
    <2>1. from + i - 1 \in 0..Width /\ row \in 0..Rows
      BY SizeAssumption
    <2> QED
      BY <2>1 DEF Cell
  <1> HIDE DEF n
  <1>4. Cells(row, from, to) \in [1..n -> [row : 0..Rows, col : 0..Width]]
    BY <1>2, <1>3
  <1>5. Cells(row, from, to) \in CellsPrinted
    BY <1>1, <1>4, SeqDef DEF CellsPrinted
  <1>6. DOMAIN Cells(row, from, to) = 1..n
    BY <1>2
  <1>7. Len(Cells(row, from, to)) = n
    BY <1>1, <1>5, <1>6, LenProperties DEF CellsPrinted
  <1> QED
    BY <1>2, <1>5, <1>7 DEF n

LEMMA CellsJoined ==
  ASSUME NEW row \in 1..Rows, NEW n \in 0..Width, NEW k \in 0..Width, n + k <= Width
  PROVE  Cells(row, 1, n) \o Cells(row, n + 1, n + k) = Cells(row, 1, n + k)
  <1> DEFINE a == Cells(row, 1, n)
             b == Cells(row, n + 1, n + k)
             c == Cells(row, 1, n + k)
  <1>1. n \in Nat /\ k \in Nat /\ Width \in Nat
    BY SizeAssumption
  <1>2. a \in CellsPrinted /\ Len(a) = n /\ \A i \in 1..n : a[i] = Cell(row, i)
    <2>1. 1 \in 1..(Width + 1) /\ n \in (1 - 1)..Width /\ n - 1 + 1 = n
      BY <1>1
    <2>2. a \in CellsPrinted /\ Len(a) = n - 1 + 1 /\ \A i \in 1..(n - 1 + 1) : a[i] = Cell(row, 1 + i - 1)
      BY <2>1, CellsTyped
    <2>3. \A i \in 1..n : 1 + i - 1 = i
      BY <1>1
    <2> QED
      BY <2>1, <2>2, <2>3
  <1>3. b \in CellsPrinted /\ Len(b) = k /\ \A i \in 1..k : b[i] = Cell(row, n + i)
    <2>1. n + 1 \in 1..(Width + 1) /\ n + k \in (n + 1 - 1)..Width /\ (n + k) - (n + 1) + 1 = k
      BY <1>1
    <2>2. /\ b \in CellsPrinted
          /\ Len(b) = (n + k) - (n + 1) + 1
          /\ \A i \in 1..((n + k) - (n + 1) + 1) : b[i] = Cell(row, n + 1 + i - 1)
      BY <2>1, CellsTyped
    <2>3. \A i \in 1..k : n + 1 + i - 1 = n + i
      BY <1>1
    <2> QED
      BY <2>1, <2>2, <2>3
  <1>4. c \in CellsPrinted /\ Len(c) = n + k /\ \A i \in 1..(n + k) : c[i] = Cell(row, i)
    <2>1. 1 \in 1..(Width + 1) /\ n + k \in (1 - 1)..Width /\ n + k - 1 + 1 = n + k
      BY <1>1
    <2>2. c \in CellsPrinted /\ Len(c) = n + k - 1 + 1 /\ \A i \in 1..(n + k - 1 + 1) : c[i] = Cell(row, 1 + i - 1)
      BY <2>1, CellsTyped
    <2>3. \A i \in 1..(n + k) : 1 + i - 1 = i
      BY <1>1
    <2> QED
      BY <2>1, <2>2, <2>3
  <1> HIDE DEF a, b, c
  <1>5. /\ a \o b \in CellsPrinted
        /\ Len(a \o b) = n + k
        /\ \A i \in 1..(n + k) : (a \o b)[i] = IF i <= n THEN a[i] ELSE b[i - n]
    BY <1>2, <1>3, ConcatProperties DEF CellsPrinted
  <1>6. ASSUME NEW i \in 1..(n + k)
        PROVE  (a \o b)[i] = c[i]
    <2>1. CASE i <= n
      BY <1>1, <1>2, <1>4, <1>5, <2>1
    <2>2. CASE ~(i <= n)
      <3>1. i - n \in 1..k /\ n + (i - n) = i
        BY <1>1, <2>2
      <3> QED
        BY <1>3, <1>4, <1>5, <2>2, <3>1
    <2> QED
      BY <2>1, <2>2
  <1>7. a \o b = c
    BY <1>4, <1>5, <1>6, SeqEqual DEF CellsPrinted
  <1> QED
    BY <1>7 DEF a, b, c

\* The first cells of a row are its own.
LEMMA FirstCells ==
  ASSUME NEW row \in 1..Rows, NEW n \in 0..Width
  PROVE  /\ Cells(row, 1, n) \in CellsPrinted
         /\ Len(Cells(row, 1, n)) = n
         /\ [row |-> row, cells |-> Cells(row, 1, n)] \in Entries
         /\ Own([row |-> row, cells |-> Cells(row, 1, n)])
         /\ NoOthers([row |-> row, cells |-> Cells(row, 1, n)])
  <1>1. n \in Nat /\ 1 \in 1..(Width + 1) /\ n \in (1 - 1)..Width /\ n - 1 + 1 = n
    BY SizeAssumption
  <1>2. /\ Cells(row, 1, n) \in CellsPrinted
        /\ Len(Cells(row, 1, n)) = n - 1 + 1
        /\ \A i \in 1..(n - 1 + 1) : Cells(row, 1, n)[i] = Cell(row, 1 + i - 1)
    BY <1>1, CellsTyped
  <1>3. DOMAIN Cells(row, 1, n) = 1..n
    BY <1>1, <1>2, LenProperties DEF CellsPrinted
  <1>4. \A i \in 1..n : 1 + i - 1 = i
    BY <1>1
  <1>5. Own([row |-> row, cells |-> Cells(row, 1, n)])
    BY <1>1, <1>2, <1>3, <1>4 DEF Own
  <1>6. NoOthers([row |-> row, cells |-> Cells(row, 1, n)])
    BY <1>5 DEF Own, NoOthers, Cell
  <1> QED
    BY <1>1, <1>2, <1>5, <1>6 DEF Entries

\* What joins a row's figures is its own, or nobody's.
LEMMA OthersJoined ==
  ASSUME NEW row, NEW a \in CellsPrinted, NEW b \in CellsPrinted,
         \A i \in DOMAIN a : a[i].row \in {row, 0},
         \A i \in DOMAIN b : b[i].row \in {row, 0}
  PROVE  NoOthers([row |-> row, cells |-> a \o b])
  <1>1. /\ a \o b \in CellsPrinted
        /\ Len(a) \in Nat /\ Len(b) \in Nat
        /\ DOMAIN a = 1..Len(a) /\ DOMAIN b = 1..Len(b) /\ DOMAIN (a \o b) = 1..Len(a \o b)
        /\ Len(a \o b) = Len(a) + Len(b)
        /\ \A i \in 1..(Len(a) + Len(b)) : (a \o b)[i] = IF i <= Len(a) THEN a[i] ELSE b[i - Len(a)]
    BY ConcatProperties, LenProperties DEF CellsPrinted
  <1>2. ASSUME NEW i \in DOMAIN (a \o b)
        PROVE  (a \o b)[i].row \in {row, 0}
    <2>1. i \in 1..(Len(a) + Len(b))
      BY <1>1
    <2>2. CASE i <= Len(a)
      <3>1. i \in DOMAIN a
        BY <1>1, <2>1, <2>2
      <3> QED
        BY <1>1, <2>1, <2>2, <3>1
    <2>3. CASE ~(i <= Len(a))
      <3>1. i - Len(a) \in DOMAIN b
        BY <1>1, <2>1, <2>3
      <3> QED
        BY <1>1, <2>1, <2>3, <3>1
    <2> QED
      BY <2>2, <2>3
  <1> QED
    BY <1>2 DEF NoOthers

LEMMA FineStays ==
  ASSUME NEW kept \in Seq(Entries), NEW last \in Nat, NEW next \in Nat, last <= next,
         NEW lost, NEW more, lost \subseteq more, Fine(kept, last, lost)
  PROVE  Fine(kept, next, more)
  <1>1. 1..last \subseteq 1..next
    OBVIOUS
  <1> QED
    BY <1>1 DEF Fine, Excused

LEMMA Appended ==
  ASSUME NEW kept \in Seq(Entries), NEW entry \in Entries
  PROVE  /\ Append(kept, entry) \in Seq(Entries)
         /\ Len(kept) \in Nat
         /\ DOMAIN kept = 1..Len(kept)
         /\ DOMAIN Append(kept, entry) = 1..(Len(kept) + 1)
         /\ \A i \in 1..Len(kept) : Append(kept, entry)[i] = kept[i]
         /\ Append(kept, entry)[Len(kept) + 1] = entry
  <1>1. /\ Append(kept, entry) \in Seq(Entries)
        /\ Len(Append(kept, entry)) = Len(kept) + 1
        /\ \A i \in 1..Len(kept) : Append(kept, entry)[i] = kept[i]
        /\ Append(kept, entry)[Len(kept) + 1] = entry
    BY AppendProperties
  <1>2. Len(kept) \in Nat /\ DOMAIN kept = 1..Len(kept)
    BY LenProperties
  <1>3. DOMAIN Append(kept, entry) = 1..Len(Append(kept, entry))
    BY <1>1, LenProperties
  <1> QED
    BY <1>1, <1>2, <1>3

\* One more row, which comes after those kept or is nobody's.
LEMMA FineAppended ==
  ASSUME NEW kept \in Seq(Entries), NEW entry \in Entries, NEW last \in Nat, NEW next \in Nat,
         last <= next, NEW lost, Fine(kept, last, lost),
         \/ entry.row = Nil
         \/ /\ entry.row \in (last + 1)..next
            /\ Own(entry) \/ Excused(entry, lost)
  PROVE  Fine(Append(kept, entry), next, lost)
  <1> DEFINE more == Append(kept, entry)
             n == Len(kept)
  <1>1. /\ n \in Nat
        /\ DOMAIN kept = 1..n
        /\ DOMAIN more = 1..(n + 1)
        /\ \A i \in 1..n : more[i] = kept[i]
        /\ more[n + 1] = entry
    BY Appended
  <1> HIDE DEF more, n
  <1>2. \A i \in 1..(n + 1) : i \in 1..n \/ i = n + 1
    BY <1>1
  <1>3. Fine(kept, next, lost)
    BY FineStays
  <1>4. entry.row = Nil \/ (entry.row \in 1..next /\ (Own(entry) \/ Excused(entry, lost)))
    OBVIOUS
  <1>5. ASSUME NEW i \in DOMAIN more
        PROVE  more[i].row = Nil
                 \/ (more[i].row \in 1..next /\ (Own(more[i]) \/ Excused(more[i], lost)))
    BY <1>1, <1>2, <1>3, <1>4 DEF Fine
  <1>6. ASSUME NEW i \in DOMAIN more, NEW j \in DOMAIN more, i < j, more[i].row # Nil, more[j].row # Nil
        PROVE  more[i].row < more[j].row
    <2>1. i \in 1..n
      BY <1>1, <1>6
    <2>2. CASE j \in 1..n
      BY <1>1, <1>6, <2>1, <2>2 DEF Fine
    <2>3. CASE j = n + 1
      <3>1. kept[i].row \in 1..last
        BY <1>1, <1>6, <2>1 DEF Fine
      <3>2. entry.row \in (last + 1)..next
        BY <1>1, <1>6, <2>3
      <3> QED
        BY <1>1, <2>1, <2>3, <3>1, <3>2
    <2> QED
      BY <1>1, <1>2, <2>2, <2>3
  <1>7. Fine(more, next, lost)
    BY <1>5, <1>6 DEF Fine
  <1> QED
    BY <1>7 DEF more

LEMMA HasAppended ==
  ASSUME NEW kept \in Seq(Entries), NEW entry \in Entries, NEW r
  PROVE  /\ Has(kept, r) => Has(Append(kept, entry), r)
         /\ entry.row = r /\ Len(entry.cells) = Width => Has(Append(kept, entry), r)
  <1>1. /\ Len(kept) \in Nat
        /\ DOMAIN kept = 1..Len(kept)
        /\ DOMAIN Append(kept, entry) = 1..(Len(kept) + 1)
        /\ \A i \in 1..Len(kept) : Append(kept, entry)[i] = kept[i]
        /\ Append(kept, entry)[Len(kept) + 1] = entry
    BY Appended
  <1>2. Len(kept) + 1 \in 1..(Len(kept) + 1) /\ \A i \in 1..Len(kept) : i \in 1..(Len(kept) + 1)
    BY <1>1
  <1> QED
    BY <1>1, <1>2 DEF Has

(***************************************************************************)
(* The readers                                                             *)
(***************************************************************************)
Idle(kept) == [mode |-> "idle", row |-> Nil, cells |-> <<>>, kept |-> kept]
InRow(row, cells, kept) == [mode |-> "row", row |-> row, cells |-> cells, kept |-> kept]
ReadRow == [row |-> scan.row, cells |-> scan.cells]

LEMMA Reading ==
  ASSUME NEW s \in Readers, NEW row, NEW cells
  PROVE  /\ s = [mode |-> s.mode, row |-> s.row, cells |-> s.cells, kept |-> s.kept]
         /\ Leave(s) = Idle(s.kept)
         /\ Keep(s, row, cells) = Idle(Append(s.kept, [row |-> row, cells |-> cells]))
         /\ Enter(s, row, cells) = InRow(row, cells, s.kept)
         /\ Finish(s) = [mode |-> "done", row |-> s.row, cells |-> s.cells, kept |-> s.kept]
  <1>1. s = [mode |-> s.mode, row |-> s.row, cells |-> s.cells, kept |-> s.kept]
    BY DEF Readers
  <1>2. \A kept : [Start EXCEPT !.kept = kept] = Idle(kept)
    BY DEF Start, Idle
  <1>3. Leave(s) = Idle(s.kept)
    BY <1>2 DEF Leave
  <1>4. Keep(s, row, cells) = Idle(Append(s.kept, [row |-> row, cells |-> cells]))
    BY <1>2 DEF Keep
  <1>5. Enter(s, row, cells) = InRow(row, cells, s.kept)
    <2>1. DOMAIN s = {"mode", "row", "cells", "kept"} /\ s = [f \in DOMAIN s |-> s[f]]
      BY DEF Readers
    <2>2. Enter(s, row, cells) = [f \in DOMAIN s |->
            IF f = "cells" THEN cells ELSE IF f = "row" THEN row ELSE IF f = "mode" THEN "row" ELSE s[f]]
      BY <2>1 DEF Enter
    <2>3. InRow(row, cells, s.kept) = [f \in {"mode", "row", "cells", "kept"} |->
            IF f = "cells" THEN cells ELSE IF f = "row" THEN row ELSE IF f = "mode" THEN "row" ELSE s.kept]
      BY DEF InRow
    <2>4. \A f \in {"mode", "row", "cells", "kept"} : f \notin {"mode", "row", "cells"} => s[f] = s.kept
      OBVIOUS
    <2> QED
      BY <2>1, <2>2, <2>3, <2>4
  <1>6. Finish(s) = [mode |-> "done", row |-> s.row, cells |-> s.cells, kept |-> s.kept]
    BY DEF Finish, Readers
  <1> QED
    BY <1>1, <1>3, <1>4, <1>5, <1>6

LEMMA ReadersTyped ==
  ASSUME NEW kept \in Seq(Entries), NEW row \in 1..Rows \union {Nil}, NEW cells \in CellsPrinted
  PROVE  /\ Idle(kept) \in Readers
         /\ InRow(row, cells, kept) \in Readers
         /\ [row |-> row, cells |-> cells] \in Entries
  <1>1. <<>> \in CellsPrinted
    BY EmptySeq DEF CellsPrinted
  <1> QED
    BY <1>1 DEF Idle, InRow, Readers, Entries

LEMMA FormatsApart == "ranking" \notin Associates /\ "segments" \notin Associates
  BY DEF Associates

LEMMA StateTyped ==
  ASSUME TextInv
  PROVE  /\ scan \in Readers
         /\ scan.kept \in Seq(Entries)
         /\ scan.cells \in CellsPrinted
         /\ ReadRow \in Entries
         /\ Row \in Nat /\ Row \in 0..Rows
         /\ printed.cells \in Nat /\ printed.cells \in 0..Width
         /\ breaks \in Nat
         /\ Rows \in Nat /\ Width \in Nat /\ Width > 1
         /\ format \in Formats
         /\ format \in {"gift_cards", "bonus_club", "segments", "ranking", "sales"}
         /\ LastKept \in Nat /\ LastKept <= Row
         /\ printed = [row |-> Row, cells |-> printed.cells]
         /\ blank \in [1..Rows -> Nat] /\ torn \in SUBSET (1..Rows) /\ flat \in SUBSET (1..Rows)
         /\ firstOf \in [1..Rows -> Nat \union {Nil}]
  <1>1. TextTypeOK
    BY DEF TextInv
  <1>2. Rows \in Nat /\ Width \in Nat /\ Width > 1
    BY SizeAssumption
  <1>3. Row \in 0..Rows /\ printed.cells \in 0..Width /\ printed = [row |-> Row, cells |-> printed.cells]
    BY <1>1 DEF TextTypeOK, Row
  <1>4. scan \in Readers /\ scan.kept \in Seq(Entries) /\ scan.cells \in CellsPrinted /\ ReadRow \in Entries
    BY <1>1 DEF TextTypeOK, Readers, Entries, ReadRow
  <1>5. LastKept \in Nat /\ LastKept <= Row
    <2>1. scan.mode = "row" => scan.row = Nil \/ scan.row \in 1..Row
      <3>1. InTheRow /\ OpenRow
        BY DEF TextInv
      <3> QED
        BY <1>3, <3>1 DEF InTheRow, OpenRow
    <2> QED
      BY <1>2, <1>3, <2>1 DEF LastKept
  <1> QED
    BY <1>1, <1>2, <1>3, <1>4, <1>5, FormatsAssumption DEF TextTypeOK

\* The rows kept, with the one being read where a reader keeps what it has of it.
Closed(base) ==
  \/ base = scan.kept
  \/ scan.mode = "row" /\ format \in {"segments", "ranking"} /\ base = Append(scan.kept, ReadRow)

LEMMA ClosedFine ==
  ASSUME TextInv, NEW base, Closed(base)
  PROVE  /\ base \in Seq(Entries)
         /\ Fine(base, Row, torn)
         /\ \A r : Has(scan.kept, r) => Has(base, r)
  <1>1. CASE base = scan.kept
    BY <1>1, StateTyped, FineStays DEF TextInv
  <1>2. CASE scan.mode = "row" /\ format \in {"segments", "ranking"} /\ base = Append(scan.kept, ReadRow)
    <2>1. /\ Row > 0
          /\ scan.row = Row \/ scan.row = Nil
          /\ scan.row = Row =>
               \/ scan.cells = Cells(Row, 1, printed.cells)
               \/ format = "ranking" /\ Row \in torn
      <3>1. InTheRow
        BY DEF TextInv
      <3> QED
        BY <1>2, <3>1 DEF InTheRow, Associates
    <2>2. Row \in 1..Rows
      BY <2>1, StateTyped
    <2>3. scan.row = Row => Own(ReadRow) \/ Excused(ReadRow, torn)
      BY <2>1, <2>2, StateTyped, FirstCells DEF ReadRow, Excused
    <2>4. ReadRow.row = Nil \/ (ReadRow.row \in (LastKept + 1)..Row /\ (Own(ReadRow) \/ Excused(ReadRow, torn)))
      <3>1. CASE scan.row = Row
        <4>1. LastKept + 1 = Row /\ ReadRow.row = Row
          BY <1>2, <2>2, <3>1, NoRowAssumption, StateTyped DEF LastKept, ReadRow
        <4>2. Row \in (LastKept + 1)..Row
          BY <4>1, StateTyped
        <4> QED
          BY <2>3, <3>1, <4>1, <4>2
      <3>2. CASE scan.row = Nil
        BY <3>2 DEF ReadRow
      <3> QED
        BY <2>1, <3>1, <3>2
    <2>5. Fine(base, Row, torn)
      <3>1. Fine(scan.kept, LastKept, torn)
        BY DEF TextInv
      <3> QED
        BY <1>2, <2>4, <3>1, StateTyped, FineAppended
    <2> QED
      BY <1>2, <2>5, StateTyped, Appended, HasAppended
  <1> QED
    BY <1>1, <1>2 DEF Closed

\* What each reader closes a row with.
LEMMA Closing ==
  ASSUME TextInv
  PROVE  /\ format = "segments" => Close(scan) = Idle(Close(scan).kept) /\ Closed(Close(scan).kept)
         /\ format = "ranking" => CloseStore(scan) = Idle(CloseStore(scan).kept) /\ Closed(CloseStore(scan).kept)
         /\ Leave(scan) = Idle(scan.kept)
  <1>1. scan \in Readers
    BY StateTyped
  <1>2. /\ Leave(scan) = Idle(scan.kept)
        /\ Keep(scan, scan.row, scan.cells) = Idle(Append(scan.kept, ReadRow))
    BY <1>1, Reading DEF ReadRow
  <1>3. \A kept : Idle(kept).kept = kept
    BY DEF Idle
  <1>4. Close(scan) = IF scan.mode = "row" THEN Idle(Append(scan.kept, ReadRow)) ELSE Idle(scan.kept)
    BY <1>2 DEF Close
  <1>5. CloseStore(scan) = IF scan.mode = "row" /\ scan.cells # <<>> THEN Idle(Append(scan.kept, ReadRow)) ELSE Idle(scan.kept)
    BY <1>2 DEF CloseStore
  <1> QED
    BY <1>2, <1>3, <1>4, <1>5 DEF Closed

\* A row with more cells: full, or still being read.
LEMMA Taken ==
  ASSUME NEW s \in Readers, NEW cells \in CellsPrinted
  PROVE  Take(s, cells) =
           IF Len(s.cells \o cells) >= Width
           THEN Idle(Append(s.kept, [row |-> s.row, cells |-> s.cells \o cells]))
           ELSE InRow(s.row, s.cells \o cells, s.kept)
  <1> DEFINE all == s.cells \o cells
  <1>1. Take(s, cells) = IF Len(all) >= Width THEN Keep(s, s.row, all) ELSE Enter(s, s.row, all)
    BY DEF Take
  <1> HIDE DEF all
  <1>2. Keep(s, s.row, all) = Idle(Append(s.kept, [row |-> s.row, cells |-> all]))
    BY Reading
  <1>3. Enter(s, s.row, all) = InRow(s.row, all, s.kept)
    BY Reading
  <1>4. Take(s, cells) = IF Len(all) >= Width THEN Idle(Append(s.kept, [row |-> s.row, cells |-> all]))
                         ELSE InRow(s.row, all, s.kept)
    BY <1>1, <1>2, <1>3
  <1> QED
    BY <1>4 DEF all

\* An associate's row with a value that is not the table's.
Spoilt == [row |-> scan.row, cells |-> scan.cells \o <<NoCell>>]

LEMMA ValueTaken ==
  ASSUME TextInv, scan.mode = "row", format \in Associates
  PROVE  /\ Spoilt \in Entries /\ Spoilt.row = scan.row /\ NoOthers(Spoilt)
         /\ Spoilt.cells \in CellsPrinted /\ Len(Spoilt.cells) = Len(scan.cells) + 1
         /\ Take(scan, <<NoCell>>) =
              IF Len(Spoilt.cells) >= Width
              THEN Idle(Append(scan.kept, Spoilt))
              ELSE InRow(scan.row, Spoilt.cells, scan.kept)
         /\ Take(scan, <<NoCell>>) \in Readers
  <1>1. NoCell \in [row : 0..Rows, col : 0..Width] /\ NoCell.row = 0
    BY SizeAssumption DEF NoCell, Cell
  <1>2. <<NoCell>> \in CellsPrinted /\ Len(<<NoCell>>) = 1 /\ DOMAIN <<NoCell>> = 1..1 /\ <<NoCell>>[1] = NoCell
    BY <1>1 DEF CellsPrinted
  <1>3. scan \in Readers /\ scan.cells \in CellsPrinted /\ scan.kept \in Seq(Entries)
    BY StateTyped
  <1> DEFINE all == scan.cells \o <<NoCell>>
  <1>4. all \in CellsPrinted /\ Len(all) = Len(scan.cells) + 1
    BY <1>2, <1>3, ConcatProperties DEF CellsPrinted
  <1>5. NoOthers([row |-> scan.row, cells |-> all])
    <2>1. \A i \in DOMAIN scan.cells : scan.cells[i].row \in {scan.row, 0}
      BY DEF TextInv, OpenRow, NoOthers
    <2>2. \A i \in DOMAIN <<NoCell>> : <<NoCell>>[i].row \in {scan.row, 0}
      BY <1>1, <1>2
    <2> QED
      BY <1>2, <1>3, <2>1, <2>2, OthersJoined
  <1>6. Take(scan, <<NoCell>>) =
          IF Len(all) >= Width
          THEN Idle(Append(scan.kept, [row |-> scan.row, cells |-> all]))
          ELSE InRow(scan.row, all, scan.kept)
    BY <1>2, <1>3, Taken
  <1>7. Spoilt = [row |-> scan.row, cells |-> all] /\ Spoilt.row = scan.row /\ Spoilt.cells = all
    BY DEF Spoilt
  <1> HIDE DEF all
  <1>8. scan.row \in 1..Rows \union {Nil}
    BY <1>3 DEF Readers
  <1>9. Spoilt \in Entries /\ InRow(scan.row, all, scan.kept) \in Readers
    BY <1>3, <1>4, <1>7, <1>8, ReadersTyped
  <1>10. Idle(Append(scan.kept, Spoilt)) \in Readers
    <2>1. Append(scan.kept, Spoilt) \in Seq(Entries) /\ Nil \in 1..Rows \union {Nil} /\ <<>> \in CellsPrinted
      BY <1>3, <1>9, Appended, EmptySeq DEF CellsPrinted
    <2> QED
      BY <2>1, ReadersTyped
  <1> QED
    BY <1>4, <1>5, <1>6, <1>7, <1>9, <1>10

\* What an open row is: its place, and that a row with a value too many is torn.
LEMMA RowOpen ==
  ASSUME TextInv, scan.mode = "row", format \in Associates
  PROVE  /\ scan.row \in 1..Row /\ scan.row \in 1..Rows /\ LastKept = scan.row - 1
         /\ Len(scan.cells) \in Nat /\ Len(scan.cells) < Width /\ blank[scan.row] \in Nat
         /\ Complete => blank[scan.row] >= Row + 1 - scan.row /\ scan.row \in torn
  <1>1. /\ scan.row \in 1..Row
        /\ Len(scan.cells) + blank[scan.row] = printed.cells + (Row - scan.row)
    BY DEF TextInv, OpenRow
  <1>2. scan.row \in 1..Rows /\ scan.row \in Nat /\ Row \in Nat /\ Width \in Nat
    BY <1>1, StateTyped
  <1>3. Len(scan.cells) \in Nat /\ blank[scan.row] \in Nat
    BY <1>2, StateTyped, LenProperties DEF CellsPrinted
  <1>4. Len(scan.cells) < Width
    BY DEF TextInv, InTheRow
  <1>5. LastKept = scan.row - 1
    BY <1>2, NoRowAssumption DEF LastKept
  <1>6. ASSUME Complete
        PROVE  blank[scan.row] >= Row + 1 - scan.row /\ scan.row \in torn
    <2>1. blank[scan.row] >= Row + 1 - scan.row
      BY <1>1, <1>2, <1>3, <1>4, <1>6 DEF Complete
    <2>2. blank[scan.row] # 0
      BY <1>1, <1>2, <1>3, <2>1
    <2> QED
      BY <1>2, <2>1, <2>2 DEF TextInv, BlanksKnown
  <1> QED
    BY <1>1, <1>2, <1>3, <1>4, <1>5, <1>6

(***************************************************************************)
(* A row begins                                                            *)
(***************************************************************************)
\* The row is in one line and another row takes it for a value.
Taking(k) == scan.mode = "row" /\ format \in Associates /\ k = Width

LEMMA StartRead ==
  ASSUME TextInv, NEW k \in Inline, BeginRow(k), ~Taking(k)
  PROVE  \E base :
           /\ Closed(base)
           /\ \/ scan.mode = "done" /\ scan' = scan
              \/ /\ scan.mode # "done"
                 /\ \/ /\ k = Width \/ Row + 1 \in torn'
                       /\ scan' = Idle(Append(base, [row |-> Row + 1, cells |-> Cells(Row + 1, 1, k)]))
                    \/ /\ k = Width /\ format = "ranking"
                       /\ scan' = [Idle(Append(base, [row |-> Row + 1, cells |-> Cells(Row + 1, 1, k)]))
                                     EXCEPT !.mode = "full"]
                    \/ k < Width /\ scan' = InRow(Row + 1, Cells(Row + 1, 1, k), base)
  <1> DEFINE r == Row + 1
             cells == Cells(r, 1, k)
             line == TextLine("start", r, cells)
             entry == [row |-> r, cells |-> cells]
  <1>1. /\ Complete
        /\ Row < Rows
        /\ torn' = IF format = "segments" /\ k \in 1..(Width - 1) THEN torn \cup {r} ELSE torn
        /\ scan' = Scan(scan, line)
    BY DEF BeginRow, Read
  <1>2. k \in 0..Width /\ (format \in Associates => k \in {0, Width}) /\ (format = "sales" => k = Width)
    BY StateTyped DEF Inline, Associates
  <1>3. r \in 1..Rows /\ k \in Nat /\ Width \in Nat /\ Width > 1 /\ 0 \in 0..Width
    BY <1>1, <1>2, StateTyped
  <1>4. cells \in CellsPrinted /\ Len(cells) = k /\ (k = 0 <=> cells = <<>>)
    <2>1. cells \in CellsPrinted /\ Len(cells) = k
      BY <1>2, <1>3, FirstCells
    <2> QED
      BY <2>1, <1>3, EmptySeq DEF CellsPrinted
  <1>5. line.kind = "start" /\ line.row = r /\ line.cells = cells
    BY DEF TextLine
  <1> HIDE DEF r, cells, line
  <1>6. scan \in Readers /\ Closed(scan.kept)
    BY StateTyped DEF Closed
  <1>7. ~(scan.mode = "row" /\ format = "segments")
    <2>1. InTheRow
      BY DEF TextInv
    <2>2. ASSUME scan.mode = "row", format = "segments"
          PROVE  FALSE
      <3>1. Row > 0 /\ Len(scan.cells) < Width /\ scan.cells = Cells(Row, 1, printed.cells)
        BY <2>1, <2>2 DEF InTheRow, Associates
      <3>2. Row \in 1..Rows /\ printed.cells = Width
        BY <1>1, <3>1, StateTyped DEF Complete
      <3>3. Len(scan.cells) = Width
        BY <3>1, <3>2, StateTyped, FirstCells
      <3> QED
        BY <1>3, <3>1, <3>3
    <2> QED
      BY <2>2
  <1>8. CASE format \in Associates
    <2>1. scan.mode # "done"
      BY <1>8 DEF TextInv, PagesKnown
    <2>2. scan' = BeginAssociate(scan, line)
      <3>1. scan.mode \in {"idle", "row", "full", "done"} /\ scan.mode # "full"
        BY <1>6, <1>8 DEF TextInv, PagesKnown, Associates, Readers
      <3>2. scan.mode = "idle" \/ k = 0
        BY <1>2, <1>8, <2>1, <3>1 DEF Taking
      <3> QED
        BY <1>1, <1>4, <1>5, <1>8, <3>2 DEF Scan, ScanBonusClub, ScanAssociates, Bare, Associates
    <2>3. Leave(scan) = Idle(scan.kept) /\ Idle(scan.kept) \in Readers /\ Idle(scan.kept).kept = scan.kept
      BY <1>6, StateTyped, Reading, ReadersTyped, <1>4 DEF Idle
    <2>4. CASE k = 0
      <3>1. scan' = Enter(Idle(scan.kept), r, <<>>)
        BY <1>4, <1>5, <2>2, <2>3, <2>4 DEF BeginAssociate
      <3>2. scan' = InRow(r, <<>>, scan.kept)
        BY <3>1 DEF Enter, Idle, InRow
      <3> QED
        BY <1>3, <1>4, <1>6, <2>1, <2>4, <3>2 DEF r, cells
    <2>5. CASE k = Width
      <3>1. scan' = Idle(Append(scan.kept, entry))
        BY <1>3, <1>4, <1>5, <2>2, <2>3, <2>5, Reading DEF BeginAssociate
      <3> QED
        BY <1>6, <2>1, <2>5, <3>1 DEF r, cells
    <2> QED
      BY <1>2, <1>8, <2>4, <2>5
  <1>9. CASE format = "segments"
    <2>1. scan' = ScanSegments(scan, line)
      BY <1>1, <1>9 DEF Scan
    <2>2. CASE scan.mode = "done"
      <3>1. scan' = scan
        BY <2>1, <2>2 DEF ScanSegments
      <3> QED
        BY <1>6, <2>2, <3>1
    <2>3. CASE scan.mode # "done" /\ k # 0
      <3>1. scan' = Keep(Close(scan), r, cells)
        BY <1>4, <1>5, <2>1, <2>3 DEF ScanSegments
      <3>2. Close(scan) = Idle(scan.kept)
        BY <1>7, <1>9, Closing DEF Close
      <3>3. Idle(scan.kept) \in Readers /\ Idle(scan.kept).kept = scan.kept
        BY <1>3, <1>4, StateTyped, ReadersTyped DEF Idle
      <3>4. scan' = Idle(Append(scan.kept, entry))
        BY <3>1, <3>2, <3>3, Reading
      <3>5. k = Width \/ r \in torn'
        <4>1. k # Width => k \in 1..(Width - 1)
          BY <1>2, <1>3, <2>3
        <4> QED
          BY <1>1, <1>9, <4>1
      <3> QED
        BY <1>6, <2>3, <3>4, <3>5 DEF r, cells
    <2>4. CASE scan.mode # "done" /\ k = 0
      <3>1. scan.mode = "idle"
        <4>1. scan.mode # "full"
          BY <1>9 DEF TextInv, PagesKnown
        <4> QED
          BY <1>6, <1>7, <1>9, <2>4, <4>1 DEF Readers
      <3>2. scan' = Enter(scan, r, <<>>)
        BY <1>4, <1>5, <2>1, <2>4, <3>1 DEF ScanSegments
      <3>3. scan' = InRow(r, cells, scan.kept)
        BY <1>4, <1>6, <2>4, <3>2, Reading
      <3> QED
        BY <1>3, <1>6, <2>4, <3>3 DEF r, cells
    <2> QED
      BY <2>2, <2>3, <2>4
  <1>10. CASE format = "ranking"
    <2>1. scan' = ScanRanking(scan, line)
      BY <1>1, <1>10 DEF Scan
    <2>2. CASE scan.mode = "done"
      <3>1. scan' = scan
        BY <2>1, <2>2 DEF ScanRanking
      <3> QED
        BY <1>6, <2>2, <3>1
    <2>3. CASE scan.mode # "done"
      <3> DEFINE base == CloseStore(scan).kept
                 entered == InRow(r, <<>>, base)
      <3>1. LooksLikeStore(line) /\ StoreOf(line) = r /\ ValuesOf(line) = cells
        BY <1>5 DEF LooksLikeStore, StoreOf, ValuesOf
      <3>2. scan' = Full(Take(Enter(CloseStore(scan), r, <<>>), cells))
        BY <1>5, <2>1, <2>3, <3>1 DEF ScanRanking
      <3>3. Closed(base) /\ CloseStore(scan) = Idle(base)
        BY <1>10, Closing
      <3> HIDE DEF base
      <3>4. base \in Seq(Entries) /\ <<>> \in CellsPrinted
        BY <3>3, ClosedFine, EmptySeq DEF CellsPrinted
      <3>5. Idle(base) \in Readers /\ Idle(base).kept = base /\ entered \in Readers
        BY <1>3, <3>4, ReadersTyped DEF Idle
      <3>6. Enter(CloseStore(scan), r, <<>>) = entered
        BY <3>3, <3>5, Reading
      <3>7. entered.row = r /\ entered.cells = <<>> /\ entered.kept = base
        BY DEF InRow
      <3>8. <<>> \o cells = cells
        BY <1>4, ConcatEmptySeq DEF CellsPrinted
      <3> HIDE DEF entered
      <3>9. Take(entered, cells) = IF k >= Width THEN Keep(entered, r, cells) ELSE Enter(entered, r, cells)
        BY <1>4, <3>7, <3>8 DEF Take
      <3>10. CASE k = Width
        <4>1. Take(entered, cells) = Idle(Append(base, entry))
          BY <1>3, <3>5, <3>7, <3>9, <3>10, Reading
        <4>2. scan' = [Idle(Append(base, entry)) EXCEPT !.mode = "full"]
          BY <3>2, <3>6, <4>1 DEF Full, Idle
        <4> QED
          BY <1>10, <2>3, <3>3, <3>10, <4>2 DEF r, cells
      <3>11. CASE k < Width
        <4>1. Take(entered, cells) = Enter(entered, r, cells)
          BY <1>3, <3>9, <3>11
        <4>2. Take(entered, cells) = InRow(r, cells, base)
          BY <3>5, <3>7, <4>1, Reading
        <4>3. scan' = InRow(r, cells, base)
          BY <3>2, <3>6, <4>2 DEF Full, InRow
        <4> QED
          BY <2>3, <3>3, <3>11, <4>3 DEF r, cells
      <3> QED
        BY <1>2, <1>3, <3>10, <3>11
    <2> QED
      BY <2>2, <2>3
  <1>11. CASE format = "sales"
    <2>1. scan' = ScanSales(scan, line)
      BY <1>1, <1>11 DEF Scan
    <2>2. CASE scan.mode = "done"
      <3>1. scan' = IF scan.kept = <<>> THEN scan ELSE Finish(scan)
        BY <2>1, <2>2 DEF ScanSales
      <3>2. scan' = scan
        BY <1>6, <2>2, <3>1, Reading
      <3> QED
        BY <1>6, <2>2, <3>2
    <2>3. CASE scan.mode # "done"
      <3>1. scan' = Keep(scan, r, cells)
        BY <1>5, <2>1, <2>3 DEF ScanSales
      <3>2. scan' = Idle(Append(scan.kept, entry))
        BY <1>6, <3>1, Reading
      <3> QED
        BY <1>2, <1>6, <1>11, <2>3, <3>2 DEF r, cells
    <2> QED
      BY <2>2, <2>3
  <1> QED
    BY <1>8, <1>9, <1>10, <1>11, StateTyped DEF Associates

\* What a row that begins changes, whatever the reader makes of its line.
LEMMA RowBegun ==
  ASSUME TextInv, NEW k \in Inline, BeginRow(k), NEW r, r = Row + 1
  PROVE  /\ Complete /\ Row < Rows
         /\ printed' = [row |-> r, cells |-> k]
         /\ firstOf' = [firstOf EXCEPT ![r] = breaks]
         /\ torn' = IF format = "segments" /\ k \in 1..(Width - 1) THEN torn \cup {r} ELSE torn
         /\ flat' = IF format \in Associates /\ k = Width THEN flat \cup {r} ELSE flat
         /\ format' = format /\ breaks' = breaks /\ blank' = blank /\ period' = period
         /\ k \in 0..Width /\ (format = "sales" => k = Width)
         /\ r \in 1..Rows /\ k \in Nat /\ Width \in Nat /\ Row \in Nat /\ r \in Nat
         /\ Row' = r /\ printed'.cells = k /\ (Complete' <=> k = Width)
         /\ torn \subseteq torn' /\ torn' \in SUBSET (1..Rows) /\ torn' \subseteq torn \cup {r}
         /\ firstOf'[r] = breaks
         /\ \A q \in 1..Row : q \in 1..Rows /\ firstOf'[q] = firstOf[q]
         /\ \A q \in 1..Rows : Whole(q)' /\ Reached(q)' /\ ~Swallowed(q)' /\ q # r => Has(scan.kept, q)
         /\ Whole(r)' => k = Width /\ r \notin torn'
         /\ Fine(scan.kept, LastKept, torn)' <=> Fine(scan'.kept, LastKept', torn')
         /\ (TextTypeOK' <=> scan' \in Readers) /\ BlanksKnown' /\ NothingYet' /\ PeriodRead'
         /\ (\A q \in 1..Row : firstOf[q] \in Nat /\ firstOf[q] <= breaks)'
         /\ breaks' = 0 => period'.start = Nil
  <1>1. /\ Complete /\ Row < Rows
        /\ printed' = [row |-> r, cells |-> k]
        /\ firstOf' = [firstOf EXCEPT ![r] = breaks]
        /\ torn' = IF format = "segments" /\ k \in 1..(Width - 1) THEN torn \cup {r} ELSE torn
        /\ flat' = IF format \in Associates /\ k = Width THEN flat \cup {r} ELSE flat
        /\ format' = format /\ breaks' = breaks /\ blank' = blank /\ period' = period
    BY DEF BeginRow
  <1>2. k \in 0..Width /\ (format = "sales" => k = Width)
    BY StateTyped DEF Inline, Associates
  <1>3. r \in 1..Rows /\ k \in Nat /\ Width \in Nat /\ Row \in Nat /\ r = Row + 1 /\ r \in Nat
    BY <1>1, <1>2, StateTyped
  <1>4. Row' = r /\ printed'.cells = k /\ (Complete' <=> k = Width)
    BY <1>1 DEF Row, Complete
  <1>5. torn \subseteq torn' /\ torn' \in SUBSET (1..Rows) /\ torn' \subseteq torn \cup {r}
    BY <1>1, <1>3 DEF TextInv, TextTypeOK
  <1>6. /\ firstOf' \in [1..Rows -> Nat \union {Nil}]
        /\ firstOf'[r] = breaks
        /\ \A q \in 1..Row : q \in 1..Rows /\ firstOf'[q] = firstOf[q]
    <2>1. firstOf \in [1..Rows -> Nat \union {Nil}] /\ breaks \in Nat
      BY DEF TextInv, TextTypeOK
    <2>2. \A q \in 1..Row : q \in 1..Rows /\ q # r
      BY <1>1, <1>3, StateTyped
    <2> QED
      BY <1>1, <1>3, <2>1, <2>2
  <1>7. ASSUME NEW q \in 1..Rows, Whole(q)', Reached(q)', ~Swallowed(q)', q # r
         PROVE  Has(scan.kept, q)
    <2>1. q \notin torn /\ q <= Row /\ q \in 1..Row
      BY <1>3, <1>4, <1>5, <1>7 DEF Whole
    <2>2. Whole(q)
      BY <1>1, <1>3, <2>1 DEF Whole
    <2>3. \A p \in 1..q : p \in 1..Row
      BY <1>3, <2>1
    <2>4. 1 \in 1..Row
      BY <1>3, <2>1
    <2>5. Reached(q)
      BY <1>1, <1>6, <1>7, <2>3, <2>4 DEF Reached
    <2>6. ~Swallowed(q)
      <3>1. ASSUME NEW p \in 1..(q - 1), q - p <= blank[p], firstOf[p] = firstOf[q], (p + 1)..q \subseteq flat
            PROVE  FALSE
        <4>1. p \in 1..Row
          BY <1>3, <2>1
        <4>2. blank'[p] = blank[p] /\ firstOf'[p] = firstOf'[q] /\ flat \subseteq flat'
          BY <1>1, <1>6, <2>1, <3>1, <4>1
        <4> QED
          BY <1>7, <3>1, <4>2 DEF Swallowed
      <3> QED
        BY <3>1 DEF Swallowed
    <2> QED
      BY <2>2, <2>5, <2>6 DEF TextInv, WholeKept
  <1>8. Whole(r)' => k = Width /\ r \notin torn'
    BY <1>3, <1>4 DEF Whole
  <1>9. Fine(scan.kept, LastKept, torn)' <=> Fine(scan'.kept, LastKept', torn')
    BY <1>1 DEF Fine, Own, Excused, NoOthers
  <1>10. /\ TextTypeOK' <=> scan' \in Readers
         /\ BlanksKnown'
         /\ NothingYet'
         /\ PeriodRead'
    <2>1. BlanksKnown'
      <3>1. ASSUME NEW q \in 1..Rows, blank[q] # 0
            PROVE  q <= r /\ q \in torn'
        <4>1. q <= Row /\ q \in torn
          BY <3>1 DEF TextInv, BlanksKnown
        <4> QED
          BY <1>3, <1>5, <4>1
      <3> QED
        BY <1>1, <1>4, <3>1 DEF BlanksKnown
    <2>2. printed' \in [row : 0..Rows, cells : 0..Width] /\ flat' \in SUBSET (1..Rows)
      BY <1>1, <1>2, <1>3, StateTyped
    <2>3. TextTypeOK' <=> scan' \in Readers
      BY <1>1, <1>5, <1>6, <2>2 DEF TextInv, TextTypeOK
    <2>4. NothingYet'
      BY <1>1, <1>2, <1>3, <1>4 DEF NothingYet
    <2>5. PeriodRead'
      BY <1>1 DEF TextInv, PeriodRead
    <2> QED
      BY <2>1, <2>3, <2>4, <2>5
  <1>11. (\A q \in 1..Row : firstOf[q] \in Nat /\ firstOf[q] <= breaks)'
    <2>1. \A q \in 1..r : q \in 1..Row \/ q = r
      BY <1>3
    <2>2. \A q \in 1..Row : firstOf[q] \in Nat /\ firstOf[q] <= breaks
      BY DEF TextInv, PagesKnown
    <2>3. breaks \in Nat /\ breaks <= breaks
      BY StateTyped
    <2>4. \A q \in 1..r : firstOf'[q] \in Nat /\ firstOf'[q] <= breaks
      BY <1>6, <2>1, <2>2, <2>3
    <2> QED
      BY <1>1, <1>4, <2>4
  <1>12. breaks' = 0 => period'.start = Nil
    BY <1>1 DEF TextInv, PagesKnown
  <1> QED
    BY <1>1, <1>2, <1>3, <1>4, <1>5, <1>6, <1>7, <1>8, <1>9, <1>10, <1>11, <1>12

LEMMA BeginRowKeeps ==
  ASSUME TextInv, NEW k \in Inline, BeginRow(k), ~Taking(k)
  PROVE  TextInv'
  <1>1. PICK r : r = Row + 1
    OBVIOUS
  <1> DEFINE cells == Cells(r, 1, k)
             entry == [row |-> r, cells |-> cells]
  <1>2. /\ Complete /\ Row < Rows
        /\ printed' = [row |-> r, cells |-> k]
        /\ firstOf' = [firstOf EXCEPT ![r] = breaks]
        /\ torn' = IF format = "segments" /\ k \in 1..(Width - 1) THEN torn \cup {r} ELSE torn
        /\ flat' = IF format \in Associates /\ k = Width THEN flat \cup {r} ELSE flat
        /\ format' = format /\ breaks' = breaks /\ blank' = blank /\ period' = period
    BY <1>1, RowBegun
  <1>3. k \in 0..Width /\ (format = "sales" => k = Width)
    BY <1>1, RowBegun
  <1>4. r \in 1..Rows /\ k \in Nat /\ Width \in Nat /\ Row \in Nat /\ r = Row + 1 /\ r \in Nat
    BY <1>1, RowBegun
  <1>5. Row' = r /\ printed'.cells = k /\ (Complete' <=> k = Width)
    BY <1>1, RowBegun
  <1>6. cells \in CellsPrinted /\ Len(cells) = k /\ entry \in Entries /\ Own(entry)
    BY <1>3, <1>4, FirstCells
  <1>7. torn \subseteq torn' /\ torn' \in SUBSET (1..Rows) /\ torn' \subseteq torn \cup {r}
    BY <1>1, RowBegun
  <1>8. /\ firstOf'[r] = breaks
        /\ \A q \in 1..Row : q \in 1..Rows /\ firstOf'[q] = firstOf[q]
    BY <1>1, RowBegun
  <1>9. PICK base :
          /\ Closed(base)
          /\ \/ scan.mode = "done" /\ scan' = scan
             \/ /\ scan.mode # "done"
                /\ \/ /\ k = Width \/ r \in torn'
                      /\ scan' = Idle(Append(base, entry))
                   \/ /\ k = Width /\ format = "ranking"
                      /\ scan' = [Idle(Append(base, entry)) EXCEPT !.mode = "full"]
                   \/ k < Width /\ scan' = InRow(r, cells, base)
    BY <1>1, StartRead
  <1> HIDE DEF cells, entry
  <1>10. base \in Seq(Entries) /\ Fine(base, Row, torn') /\ \A q : Has(scan.kept, q) => Has(base, q)
    BY <1>4, <1>7, <1>9, ClosedFine, FineStays
  <1>11. Fine(base, r, torn')
    BY <1>4, <1>7, <1>10, FineStays
  <1>12. entry.row = r /\ entry.cells = cells
    BY DEF entry
  <1>13. Append(base, entry) \in Seq(Entries) /\ Fine(Append(base, entry), r, torn')
    <2>1. r \in (Row + 1)..r /\ Row <= r
      BY <1>4
    <2> QED
      BY <1>4, <1>6, <1>10, <1>12, <2>1, Appended, FineAppended
  <1>14. \A q \in 1..Rows : Whole(q)' /\ Reached(q)' /\ ~Swallowed(q)' /\ q # r => Has(scan.kept, q)
    BY <1>1, RowBegun
  <1>15. Whole(r)' => k = Width /\ r \notin torn'
    BY <1>1, RowBegun
  <1>16. Fine(scan.kept, LastKept, torn)' <=> Fine(scan'.kept, LastKept', torn')
    BY <1>1, RowBegun
  <1>17. /\ TextTypeOK' <=> scan' \in Readers
         /\ BlanksKnown'
         /\ NothingYet'
         /\ PeriodRead'
    BY <1>1, RowBegun
  <1>18. (\A q \in 1..Row : firstOf[q] \in Nat /\ firstOf[q] <= breaks)'
    BY <1>1, RowBegun
  <1>19. breaks' = 0 => period'.start = Nil
    BY <1>1, RowBegun
  <1>20. CASE scan.mode = "done" /\ scan' = scan
    <2>1. Row > 0 /\ firstOf[1] < breaks /\ format \notin Associates
      BY <1>20 DEF TextInv, PagesKnown
    <2>2. 1 \in 1..Row /\ firstOf'[1] = firstOf[1]
      BY <1>4, <1>8, <2>1
    <2>3. PagesKnown'
      BY <1>2, <1>4, <1>5, <1>18, <1>19, <1>20, <2>1, <2>2 DEF PagesKnown
    <2>4. ~Reached(r)'
      <3>1. r \in 1..r /\ firstOf'[1] # breaks
        BY <1>4, <1>8, <2>1, <2>2, StateTyped DEF TextInv, PagesKnown
      <3> QED
        BY <1>2, <1>8, <2>1, <3>1 DEF Reached
    <2>5. InTheRow'
      BY <1>20 DEF InTheRow
    <2>6. OpenRow'
      BY <1>20 DEF OpenRow
    <2>7. NotMissed'
      BY <1>5, <2>4 DEF NotMissed
    <2>8. WholeKept'
      BY <1>14, <1>20, <2>4 DEF WholeKept
    <2>9. Fine(scan.kept, LastKept, torn)'
      <3>1. LastKept = Row /\ LastKept' = r
        BY <1>5, <1>20 DEF LastKept
      <3>2. Fine(scan.kept, Row, torn) /\ Row <= r
        BY <1>4, <3>1 DEF TextInv
      <3>3. Fine(scan.kept, r, torn')
        BY <1>4, <1>7, <3>2, FineStays, StateTyped
      <3> QED
        BY <1>16, <1>20, <3>1, <3>3
    <2>10. TextTypeOK'
      BY <1>17, <1>20, StateTyped
    <2> QED
      BY <1>17, <2>3, <2>5, <2>7, <2>8, <2>9, <2>10, <2>6 DEF TextInv
  <1>21. CASE /\ k = Width \/ r \in torn'
              /\ scan'.kept = Append(base, entry)
              /\ scan' \in Readers
              /\ scan'.mode \in {"idle", "full"}
              /\ scan'.mode = "full" => format = "ranking"
    <2>1. scan'.mode # "row" /\ scan'.mode # "done"
      BY <1>21
    <2>2. PagesKnown'
      BY <1>2, <1>18, <1>19, <1>21, <2>1 DEF PagesKnown
    <2>3. InTheRow' /\ OpenRow'
      BY <2>1 DEF InTheRow, OpenRow
    <2>4. NotMissed'
      BY <1>5, <1>21 DEF NotMissed
    <2>5. WholeKept'
      <3>1. ASSUME NEW q \in 1..Rows, Whole(q)', Reached(q)', ~Swallowed(q)'
            PROVE  Has(scan'.kept, q)
        <4>1. CASE q = r
          BY <1>6, <1>10, <1>12, <1>15, <1>21, <3>1, <4>1, HasAppended
        <4>2. CASE q # r
          BY <1>6, <1>10, <1>14, <1>21, <3>1, <4>2, HasAppended
        <4> QED
          BY <4>1, <4>2
      <3>2. \A q : Has(scan.kept, q)' <=> Has(scan'.kept, q)
        BY DEF Has
      <3> QED
        BY <3>1, <3>2 DEF WholeKept
    <2>6. Fine(scan.kept, LastKept, torn)'
      <3>1. LastKept' = r
        BY <1>5, <2>1 DEF LastKept
      <3> QED
        BY <1>13, <1>16, <1>21, <3>1
    <2> QED
      BY <1>17, <1>21, <2>2, <2>3, <2>4, <2>5, <2>6 DEF TextInv
  <1>22. CASE k < Width /\ scan' = InRow(r, cells, base)
    <2>1. scan'.mode = "row" /\ scan'.row = r /\ scan'.cells = cells /\ scan'.kept = base /\ scan' \in Readers
      BY <1>4, <1>6, <1>10, <1>22, ReadersTyped DEF InRow
    <2>2. PagesKnown'
      BY <1>2, <1>18, <1>19, <2>1 DEF PagesKnown
    <2>3. InTheRow'
      <3>1. Len(cells) <= k /\ Len(cells) < Width /\ r > 0
        BY <1>4, <1>6, <1>22
      <3>2. scan'.cells = Cells(r, 1, k)
        BY <2>1 DEF cells
      <3>3. Cells(Row, 1, printed.cells)' = Cells(r, 1, k)
        BY <1>5 DEF Cells, Cell
      <3> QED
        BY <1>2, <1>5, <2>1, <3>1, <3>2, <3>3 DEF InTheRow
    <2>4. OpenRow'
      <3>1. ASSUME format \in Associates
            PROVE  /\ r \in 1..r /\ firstOf'[r] = breaks /\ (r + 1)..r = {} /\ ~(r < r)
                   /\ Len(cells) + blank[r] = k + (r - r)
                   /\ NoOthers([row |-> r, cells |-> cells])
        <4>1. blank[r] = 0
          BY <1>4, StateTyped DEF TextInv, BlanksKnown
        <4>2. NoOthers([row |-> r, cells |-> cells])
          BY <1>3, <1>4, FirstCells DEF cells
        <4> QED
          BY <1>4, <1>6, <1>8, <4>1, <4>2
      <3>2. scan'.cells = Cells(r, 1, k) /\ Cells(r, 1, printed'.cells) = Cells(r, 1, k)
        BY <1>5, <2>1 DEF cells
      <3>3. NoOthers([row |-> r, cells |-> cells]) => NoOthers([row |-> scan.row, cells |-> scan.cells])'
        BY <2>1 DEF NoOthers
      <3>4. Cells(scan.row, 1, printed.cells)' = Cells(r, 1, k)
        BY <1>5, <2>1 DEF Cells, Cell
      <3> QED
        BY <1>2, <1>5, <2>1, <3>1, <3>2, <3>3, <3>4 DEF OpenRow
    <2>5. NotMissed'
      BY <1>5, <2>1 DEF NotMissed
    <2>6. WholeKept'
      <3>1. ASSUME NEW q \in 1..Rows, Whole(q)', Reached(q)', ~Swallowed(q)'
            PROVE  Has(scan'.kept, q)
        <4>1. q # r
          BY <1>4, <1>15, <1>22, <3>1
        <4> QED
          BY <1>10, <1>14, <2>1, <3>1, <4>1
      <3>2. \A q : Has(scan.kept, q)' <=> Has(scan'.kept, q)
        BY DEF Has
      <3> QED
        BY <3>1, <3>2 DEF WholeKept
    <2>7. Fine(scan.kept, LastKept, torn)'
      <3>1. LastKept' = Row
        BY <1>4, <1>5, <2>1, NoRowAssumption DEF LastKept
      <3> QED
        BY <1>10, <1>16, <2>1, <3>1
    <2> QED
      BY <1>17, <2>1, <2>2, <2>3, <2>5, <2>6, <2>7, <2>4 DEF TextInv
  <1>23. CASE (k = Width \/ r \in torn') /\ scan' = Idle(Append(base, entry))
    BY <1>13, <1>21, <1>23, ReadersTyped, EmptySeq DEF Idle, CellsPrinted, Readers
  <1>24. CASE k = Width /\ format = "ranking" /\ scan' = [Idle(Append(base, entry)) EXCEPT !.mode = "full"]
    <2>1. Idle(Append(base, entry)) \in Readers /\ Idle(Append(base, entry)).kept = Append(base, entry)
      BY <1>13, EmptySeq DEF Idle, CellsPrinted, Readers
    <2>2. scan' \in Readers /\ scan'.kept = Append(base, entry) /\ scan'.mode = "full"
      BY <1>24, <2>1 DEF Readers
    <2> QED
      BY <1>21, <1>24, <2>2
  <1> QED
    BY <1>9, <1>20, <1>22, <1>23, <1>24

\* A row in one line that another row takes for a value.
LEMMA SwallowKeeps ==
  ASSUME TextInv, NEW k \in Inline, BeginRow(k), Taking(k)
  PROVE  TextInv'
  <1>1. PICK r, q : r = Row + 1 /\ q = scan.row
    OBVIOUS
  <1>2. scan.mode = "row" /\ format \in Associates /\ k = Width
    BY DEF Taking
  <1>3. /\ printed' = [row |-> r, cells |-> k]
        /\ torn' = IF format = "segments" /\ k \in 1..(Width - 1) THEN torn \cup {r} ELSE torn
        /\ flat' = IF format \in Associates /\ k = Width THEN flat \cup {r} ELSE flat
        /\ format' = format /\ breaks' = breaks /\ blank' = blank
    BY <1>1, RowBegun
  <1>4. Complete /\ r \in 1..Rows /\ Width \in Nat /\ Width > 1 /\ Row \in Nat /\ r = Row + 1 /\ r \in Nat
    BY <1>1, RowBegun, StateTyped
  <1>5. Row' = r /\ printed'.cells = Width /\ Complete'
    BY <1>1, <1>2, RowBegun
  <1>6. torn' = torn /\ flat' = flat \cup {r} /\ torn \in SUBSET (1..Rows)
    BY <1>2, <1>3, StateTyped DEF Associates
  <1>7. firstOf'[r] = breaks /\ \A p \in 1..Row : p \in 1..Rows /\ firstOf'[p] = firstOf[p]
    BY <1>1, RowBegun
  <1>8. /\ q \in 1..Row /\ q \in 1..Rows /\ q \in Nat /\ LastKept = q - 1
        /\ blank[q] \in Nat /\ blank[q] >= r - q /\ q \in torn
    BY <1>1, <1>2, <1>4, RowOpen
  <1>9. /\ firstOf[q] = breaks /\ (q + 1)..Row \subseteq flat
        /\ Len(scan.cells) + blank[q] = Width + (Row - q)
    BY <1>1, <1>2, <1>4 DEF TextInv, OpenRow, Complete
  <1>10. (q + 1)..r \subseteq flat'
    <2>1. \A p \in (q + 1)..r : p \in (q + 1)..Row \/ p = r
      BY <1>4, <1>8
    <2> QED
      BY <1>6, <1>9, <2>1
  <1>11. Swallowed(r)'
    <2>1. q \in 1..(r - 1) /\ r - q <= blank[q] /\ firstOf'[q] = firstOf'[r]
      BY <1>4, <1>7, <1>8, <1>9
    <2> QED
      BY <1>3, <1>10, <2>1 DEF Swallowed
  <1>12. scan' = Take(scan, <<NoCell>>)
    <2>1. PICK line : line = TextLine("start", r, Cells(r, 1, k))
      OBVIOUS
    <2>2. scan' = Scan(scan, line)
      BY <1>1, <2>1 DEF BeginRow, Read
    <2>3. line.kind = "start" /\ line.cells # <<>>
      <3>1. Len(Cells(r, 1, k)) = k
        BY <1>1, <1>2, RowBegun, FirstCells
      <3>2. Cells(r, 1, k) # <<>>
        BY <1>2, <1>4, <3>1, EmptySeq
      <3> QED
        BY <2>1, <3>2 DEF TextLine
    <2> QED
      BY <1>2, <2>2, <2>3 DEF Scan, ScanBonusClub, ScanAssociates, Bare, ValueOf, Associates
  <1>13. /\ Spoilt \in Entries /\ Spoilt.row = q /\ NoOthers(Spoilt)
         /\ Spoilt.cells \in CellsPrinted /\ Len(Spoilt.cells) = Len(scan.cells) + 1
         /\ scan' \in Readers
         /\ scan' = IF Len(Spoilt.cells) >= Width
                    THEN Idle(Append(scan.kept, Spoilt))
                    ELSE InRow(q, Spoilt.cells, scan.kept)
    BY <1>1, <1>2, <1>12, ValueTaken
  <1>14. TextTypeOK' /\ BlanksKnown' /\ NothingYet' /\ PeriodRead'
    BY <1>1, <1>13, RowBegun
  <1>15. scan'.mode \in {"idle", "row"}
    BY <1>13 DEF Idle, InRow
  <1>16. PagesKnown'
    <2>1. breaks' = 0 => period'.start = Nil
      BY <1>1, RowBegun
    <2>2. (\A p \in 1..Row : firstOf[p] \in Nat /\ firstOf[p] <= breaks)'
      BY <1>1, RowBegun
    <2> QED
      BY <1>15, <2>1, <2>2 DEF PagesKnown
  <1>17. NotMissed'
    BY <1>5 DEF NotMissed
  <1>18. ASSUME \A p : Has(scan.kept, p) => Has(scan'.kept, p)
         PROVE  WholeKept'
    <2>1. \A p : Has(scan.kept, p)' <=> Has(scan'.kept, p)
      BY DEF Has
    <2>2. \A p \in 1..Rows : Whole(p)' /\ Reached(p)' /\ ~Swallowed(p)' /\ p # r => Has(scan.kept, p)
      BY <1>1, RowBegun
    <2> QED
      BY <1>11, <1>18, <2>1, <2>2 DEF WholeKept
  <1>19. Fine(scan.kept, LastKept, torn)' <=> Fine(scan'.kept, LastKept', torn')
    BY <1>1, RowBegun
  <1>20. scan.kept \in Seq(Entries) /\ Fine(scan.kept, q - 1, torn)
    BY <1>8, StateTyped DEF TextInv
  <1>21. CASE Len(Spoilt.cells) >= Width
    <2>1. scan'.mode = "idle" /\ scan'.kept = Append(scan.kept, Spoilt)
      BY <1>13, <1>21 DEF Idle
    <2>2. InTheRow' /\ OpenRow'
      BY <2>1 DEF InTheRow, OpenRow
    <2>3. LastKept' = r
      BY <1>5, <2>1 DEF LastKept
    <2>4. Fine(Append(scan.kept, Spoilt), r, torn)
      <3>1. Excused(Spoilt, torn)
        BY <1>2, <1>8, <1>13 DEF Excused
      <3>2. q - 1 \in Nat /\ q - 1 <= r /\ q \in (q - 1 + 1)..r
        BY <1>4, <1>8
      <3> QED
        BY <1>4, <1>13, <1>20, <3>1, <3>2, FineAppended
    <2>5. WholeKept'
      <3>1. \A p : Has(scan.kept, p) => Has(Append(scan.kept, Spoilt), p)
        BY <1>13, <1>20, HasAppended
      <3> QED
        BY <1>18, <2>1, <3>1
    <2> QED
      BY <1>6, <1>14, <1>16, <1>17, <1>19, <2>1, <2>2, <2>3, <2>4, <2>5 DEF TextInv
  <1>22. CASE ~(Len(Spoilt.cells) >= Width)
    <2>1. scan'.mode = "row" /\ scan'.row = q /\ scan'.cells = Spoilt.cells /\ scan'.kept = scan.kept
      BY <1>13, <1>22 DEF InRow
    <2>2. Len(scan.cells) \in Nat /\ Len(Spoilt.cells) < Width
      BY <1>1, <1>2, <1>4, <1>13, <1>22, RowOpen
    <2>3. InTheRow'
      BY <1>2, <1>3, <1>4, <1>5, <2>1, <2>2 DEF InTheRow
    <2>4. OpenRow'
      <3>1. q \in 1..r /\ Len(Spoilt.cells) + blank[q] = Width + (r - q)
        <4>1. PICK a, b : a = Len(scan.cells) /\ b = blank[q]
          OBVIOUS
        <4>2. a \in Nat /\ b \in Nat /\ a + b = Width + (Row - q) /\ Len(Spoilt.cells) = a + 1
          BY <1>8, <1>9, <1>13, <2>2, <4>1
        <4>3. a + 1 + b = Width + (r - q)
          BY <1>4, <1>8, <4>2
        <4> QED
          BY <1>4, <1>8, <4>1, <4>2, <4>3
      <3>2. firstOf'[q] = breaks
        BY <1>7, <1>8, <1>9
      <3>3. NoOthers([row |-> scan.row, cells |-> scan.cells])'
        BY <1>13, <2>1 DEF NoOthers
      <3> QED
        BY <1>3, <1>5, <1>6, <1>8, <1>10, <2>1, <3>1, <3>3, <3>2 DEF OpenRow
    <2>5. LastKept' = q - 1
      BY <1>8, <2>1, NoRowAssumption DEF LastKept
    <2>6. WholeKept'
      BY <1>18, <2>1
    <2> QED
      BY <1>6, <1>14, <1>16, <1>17, <1>19, <1>20, <2>1, <2>3, <2>4, <2>5, <2>6 DEF TextInv
  <1> QED
    BY <1>21, <1>22

(***************************************************************************)
(* Cells are printed                                                       *)
(***************************************************************************)
LEMMA CellsRead ==
  ASSUME TextInv, NEW k \in 1..Width, PrintCells(k), NEW new,
         new = Cells(Row, printed.cells + 1, printed.cells + k)
  PROVE  /\ torn' = torn \/ torn' = torn \cup {Row}
         /\ \/ scan.mode # "row" /\ (scan' = scan \/ scan' = Idle(scan.kept))
            \/ /\ scan.mode = "row" /\ Len(scan.cells \o new) >= Width
               /\ \/ scan' = Idle(Append(scan.kept, [row |-> scan.row, cells |-> scan.cells \o new]))
                  \/ /\ format = "ranking"
                     /\ scan' = [Idle(Append(scan.kept, [row |-> scan.row, cells |-> scan.cells \o new]))
                                   EXCEPT !.mode = "full"]
            \/ /\ scan.mode = "row" /\ Len(scan.cells \o new) < Width
               /\ scan' = InRow(scan.row, scan.cells \o new, scan.kept)
            \/ /\ format = "ranking" /\ torn' = torn \cup {Row}
               /\ \E base : Closed(base) /\ scan' = InRow(Nil, Tail(new), base)
  <1> DEFINE line == TextLine("cells", Row, new)
  <1>1. /\ printed.cells + k <= Width
        /\ torn' = IF format = "ranking" /\ LooksLikeStore(line) THEN torn \cup {Row} ELSE torn
        /\ scan' = Scan(scan, line)
    BY DEF PrintCells, Read
  <1>2. line.kind = "cells" /\ line.cells = new /\ line.row = Row
    BY DEF TextLine
  <1> HIDE DEF line
  <1>3. /\ scan \in Readers /\ Row > 0 /\ Row \in 1..Rows
        /\ k \in Nat /\ Width \in Nat /\ printed.cells \in Nat /\ Width > 1
    <2>1. Row = 0 => printed.cells = Width
      BY DEF TextInv, NothingYet, Complete
    <2> QED
      BY <1>1, <2>1, StateTyped
  <1>4. new \in CellsPrinted /\ Len(new) = k
    <2>1. printed.cells + 1 \in 1..(Width + 1) /\ printed.cells + k \in (printed.cells + 1 - 1)..Width
      BY <1>1, <1>3
    <2>2. PICK from, to : from = printed.cells + 1 /\ to = printed.cells + k
      OBVIOUS
    <2>3. Cells(Row, from, to) \in CellsPrinted /\ Len(Cells(Row, from, to)) = to - from + 1
      <3>1. from \in 1..(Width + 1) /\ to \in (from - 1)..Width
        BY <1>1, <1>3, <2>2
      <3>2. Row \in 1..Rows
        BY <1>3
      <3> QED
        BY <3>1, <3>2, CellsTyped
    <2>4. to - from + 1 = k
      BY <1>3, <2>2
    <2> QED
      BY <2>2, <2>3, <2>4
  <1>5. scan.cells \in CellsPrinted /\ scan.cells \o new \in CellsPrinted /\ Len(scan.cells \o new) \in Nat
    BY <1>4, StateTyped, ConcatProperties, LenProperties DEF CellsPrinted
  <1> DEFINE all == scan.cells \o new
  <1> HIDE DEF all
  <1>6. torn' = torn \/ torn' = torn \cup {Row}
    BY <1>1
  <1>7. Take(scan, new) =
          IF Len(all) >= Width
          THEN Idle(Append(scan.kept, [row |-> scan.row, cells |-> all]))
          ELSE InRow(scan.row, all, scan.kept)
    BY <1>3, <1>4, Taken DEF all
  <1>8. Len(all) \in Nat /\ (Len(all) >= Width <=> ~(Len(all) < Width))
    <2>1. Len(all) \in Nat
      BY <1>5 DEF all
    <2> QED
      BY <1>3, <2>1
  <1>9. CASE format \in Associates
    <2>1. scan' = ScanAssociates(scan, line)
      BY <1>1, <1>9 DEF Scan, ScanBonusClub, Associates
    <2>2. scan' = IF scan.mode = "row" THEN Take(scan, new) ELSE scan
      BY <1>2, <2>1 DEF ScanAssociates, Bare, ValueOf
    <2> QED
      BY <1>6, <1>7, <1>8, <2>2 DEF all
  <1>10. CASE format = "segments"
    <2>1. scan' = ScanSegments(scan, line)
      BY <1>1, <1>10 DEF Scan
    <2>2. scan' = IF scan.mode = "row" THEN Take(scan, new) ELSE scan
      BY <1>2, <2>1 DEF ScanSegments
    <2> QED
      BY <1>6, <1>7, <1>8, <2>2 DEF all
  <1>11. CASE format = "ranking"
    <2>1. scan' = ScanRanking(scan, line)
      BY <1>1, <1>11 DEF Scan
    <2>2. CASE scan.mode = "done"
      <3>1. scan' = scan
        BY <2>1, <2>2 DEF ScanRanking
      <3> QED
        BY <1>6, <2>2, <3>1
    <2>3. CASE scan.mode # "done" /\ ~LooksLikeStore(line)
      <3>1. scan' = IF scan.mode = "row" THEN Full(Take(scan, new)) ELSE Leave(scan)
        BY <1>2, <2>1, <2>3 DEF ScanRanking
      <3>2. Leave(scan) = Idle(scan.kept)
        BY <1>3, Reading
      <3>3. CASE scan.mode = "row" /\ Len(all) >= Width
        <4>1. scan' = [Idle(Append(scan.kept, [row |-> scan.row, cells |-> all])) EXCEPT !.mode = "full"]
          BY <1>7, <3>1, <3>3 DEF Full, Idle
        <4> QED
          BY <1>6, <1>11, <3>3, <4>1 DEF all
      <3>4. CASE scan.mode = "row" /\ Len(all) < Width
        <4>1. Take(scan, new) = InRow(scan.row, all, scan.kept)
          BY <1>7, <1>8, <3>4
        <4>2. scan' = InRow(scan.row, all, scan.kept)
          BY <3>1, <3>4, <4>1 DEF Full, InRow
        <4> QED
          BY <1>6, <3>4, <4>2 DEF all
      <3>5. CASE scan.mode # "row"
        BY <1>6, <3>1, <3>2, <3>5
      <3> QED
        BY <1>8, <3>3, <3>4, <3>5
    <2>4. CASE scan.mode # "done" /\ LooksLikeStore(line)
      <3> DEFINE base == CloseStore(scan).kept
                 tail == Tail(new)
                 entered == InRow(Nil, <<>>, base)
      <3>1. scan' = Full(Take(Enter(CloseStore(scan), Nil, <<>>), tail))
        BY <1>2, <2>1, <2>4 DEF ScanRanking, StoreOf, ValuesOf
      <3>2. Closed(base) /\ CloseStore(scan) = Idle(base)
        BY <1>11, Closing
      <3> HIDE DEF base
      <3>3. base \in Seq(Entries) /\ <<>> \in CellsPrinted
        BY <3>2, ClosedFine, EmptySeq DEF CellsPrinted
      <3>4. Idle(base) \in Readers /\ Idle(base).kept = base /\ entered \in Readers
        BY <3>3, ReadersTyped DEF Idle, Readers
      <3>5. Enter(CloseStore(scan), Nil, <<>>) = entered
        BY <3>2, <3>4, Reading
      <3>6. entered.row = Nil /\ entered.cells = <<>> /\ entered.kept = base
        BY DEF InRow
      <3>7. tail \in CellsPrinted /\ Len(tail) = k - 1
        <4>1. new # <<>>
          BY <1>3, <1>4, EmptySeq
        <4> QED
          BY <1>4, <4>1, HeadTailProperties DEF CellsPrinted
      <3> HIDE DEF tail
      <3>8. <<>> \o tail = tail
        BY <3>7, ConcatEmptySeq DEF CellsPrinted
      <3> HIDE DEF entered
      <3>9. ~(Len(tail) >= Width)
        BY <1>1, <1>3, <3>7
      <3>10. Take(entered, tail) = InRow(Nil, tail, base)
        BY <3>4, <3>6, <3>7, <3>8, <3>9, Taken
      <3>11. scan' = InRow(Nil, tail, base)
        BY <3>1, <3>5, <3>10 DEF Full, InRow
      <3>12. torn' = torn \cup {Row}
        BY <1>1, <1>11, <2>4
      <3> QED
        BY <1>11, <3>2, <3>11, <3>12 DEF tail
    <2> QED
      BY <2>2, <2>3, <2>4
  <1>12. CASE format = "sales"
    <2>1. Complete
      BY <1>12 DEF TextInv, NothingYet
    <2> QED
      BY <1>1, <1>3, <2>1 DEF Complete
  <1> QED
    BY <1>9, <1>10, <1>11, <1>12, StateTyped DEF Associates

LEMMA PrintCellsKeeps ==
  ASSUME TextInv, NEW k \in 1..Width, PrintCells(k)
  PROVE  TextInv'
  <1>1. PICK r, n, new : r = Row /\ n = printed.cells /\ new = Cells(r, n + 1, n + k)
    OBVIOUS
  <1>2. /\ n + k <= Width
        /\ printed' = [row |-> r, cells |-> n + k]
        /\ format' = format /\ breaks' = breaks /\ firstOf' = firstOf /\ period' = period
        /\ flat' = flat /\ blank' = blank
    BY <1>1, StateTyped DEF PrintCells
  <1>3. r > 0 /\ r \in 1..Rows /\ r \in Nat /\ n \in Nat /\ k \in Nat /\ k > 0 /\ n < Width /\ Width \in Nat
    <2>1. r = 0 => n = Width
      BY <1>1 DEF TextInv, NothingYet, Complete
    <2> QED
      BY <1>1, <1>2, <2>1, StateTyped
  <1>4. Row' = r /\ printed'.cells = n + k /\ (Complete' <=> n + k = Width) /\ ~Complete
    BY <1>1, <1>2, <1>3 DEF Row, Complete
  <1>5. new \in CellsPrinted /\ Len(new) = k /\ \A i \in DOMAIN new : new[i].row \in {r, 0}
    <2>1. PICK from, to : from = n + 1 /\ to = n + k
      OBVIOUS
    <2>2. from \in 1..(Width + 1) /\ to \in (from - 1)..Width /\ to - from + 1 = k
      BY <1>2, <1>3, <2>1
    <2>3. /\ Cells(r, from, to) \in CellsPrinted /\ Len(Cells(r, from, to)) = to - from + 1
          /\ \A i \in 1..(to - from + 1) : Cells(r, from, to)[i] = Cell(r, from + i - 1)
      BY <1>3, <2>2, CellsTyped
    <2>4. new \in CellsPrinted /\ Len(new) = k /\ \A i \in 1..k : new[i] = Cell(r, from + i - 1)
      BY <1>1, <2>1, <2>2, <2>3
    <2>5. DOMAIN new = 1..k
      BY <2>4, LenProperties DEF CellsPrinted
    <2> QED
      BY <2>4, <2>5 DEF Cell
  <1> DEFINE all == scan.cells \o new
  <1>6. /\ torn' = torn \/ torn' = torn \cup {r}
        /\ \/ scan.mode # "row" /\ (scan' = scan \/ scan' = Idle(scan.kept))
           \/ /\ scan.mode = "row" /\ Len(all) >= Width
              /\ \/ scan' = Idle(Append(scan.kept, [row |-> scan.row, cells |-> all]))
                 \/ /\ format = "ranking"
                    /\ scan' = [Idle(Append(scan.kept, [row |-> scan.row, cells |-> all])) EXCEPT !.mode = "full"]
           \/ scan.mode = "row" /\ Len(all) < Width /\ scan' = InRow(scan.row, all, scan.kept)
           \/ /\ format = "ranking" /\ torn' = torn \cup {r}
              /\ \E base : Closed(base) /\ scan' = InRow(Nil, Tail(new), base)
    BY <1>1, CellsRead
  <1>7. torn \subseteq torn' /\ torn' \in SUBSET (1..Rows) /\ torn' \subseteq torn \cup {r}
    BY <1>3, <1>6 DEF TextInv, TextTypeOK
  <1>8. all \in CellsPrinted /\ Len(all) = Len(scan.cells) + k /\ Len(scan.cells) \in Nat
    BY <1>5, StateTyped, ConcatProperties, LenProperties DEF CellsPrinted
  <1>9. scan.mode = "row" =>
          /\ Len(scan.cells) <= n
          /\ scan.row = r \/ (scan.row = Nil /\ format = "ranking" /\ r \in torn)
          /\ scan.row = r =>
               \/ all = Cells(r, 1, n + k) /\ Len(all) = n + k
               \/ /\ r \in torn /\ format \in Associates
                  /\ NoOthers([row |-> r, cells |-> all])
               \/ r \in torn /\ format = "ranking"
          /\ format \in Associates => Len(all) + blank[r] = n + k /\ blank[r] \in Nat
    <2>1. InTheRow /\ OpenRow
      BY DEF TextInv
    <2>2. scan.cells = Cells(r, 1, n) => all = Cells(r, 1, n + k) /\ Len(all) = n + k
      <3>1. n \in 0..Width /\ k \in 0..Width /\ n + k \in 0..Width
        BY <1>2, <1>3
      <3> QED
        <4>1. Cells(r, 1, n) \o new = Cells(r, 1, n + k)
          BY <1>1, <1>2, <1>3, <3>1, CellsJoined
        <4>2. Len(Cells(r, 1, n + k)) = n + k
          BY <1>3, <3>1, FirstCells
        <4> QED
          BY <4>1, <4>2
    <2>3. ASSUME scan.mode = "row", format \in Associates
          PROVE  /\ scan.row = r /\ Len(scan.cells) <= n /\ Len(all) + blank[r] = n + k /\ blank[r] \in Nat
                 /\ scan.cells = Cells(r, 1, n) \/ (r \in torn /\ NoOthers([row |-> r, cells |-> all]))
      <3>1. scan.row \in 1..Row /\ ~(scan.row < Row)
        BY <1>4, <2>1, <2>3 DEF OpenRow
      <3>2. scan.row = r
        BY <1>1, <1>3, <3>1
      <3>3. Len(scan.cells) + blank[r] = n + (r - r) /\ blank[r] \in Nat
        BY <1>1, <1>3, <2>1, <2>3, <3>2, StateTyped DEF OpenRow
      <3>4. r \in torn \/ scan.cells = Cells(r, 1, n)
        BY <1>1, <2>1, <2>3, <3>2 DEF OpenRow
      <3>5. NoOthers([row |-> r, cells |-> all])
        <4>1. \A i \in DOMAIN scan.cells : scan.cells[i].row \in {r, 0}
          BY <2>1, <2>3, <3>2 DEF OpenRow, NoOthers
        <4>2. scan.cells \in CellsPrinted
          BY StateTyped
        <4> QED
          BY <1>5, <4>1, <4>2, OthersJoined
      <3>6. Len(scan.cells) <= n /\ Len(all) + blank[r] = n + k
        <4>1. PICK a, b : a = Len(scan.cells) /\ b = blank[r]
          OBVIOUS
        <4>2. a \in Nat /\ b \in Nat /\ a + b = n + (r - r) /\ Len(all) = a + k
          BY <1>8, <3>3, <4>1
        <4>3. a <= n /\ a + k + b = n + k
          BY <1>3, <4>2
        <4> QED
          BY <4>1, <4>2, <4>3
      <3> QED
        BY <3>2, <3>3, <3>4, <3>5, <3>6
    <2>4. CASE format \in Associates
      BY <2>2, <2>3, <2>4
    <2>5. CASE format \notin Associates
      BY <1>1, <2>1, <2>2, <2>5 DEF InTheRow
    <2> QED
      BY <2>4, <2>5
  <1> HIDE DEF all
  <1>10. Len(all) \in Nat
    BY <1>3, <1>8
  <1>11. \A q : Reached(q)' <=> Reached(q)
    BY <1>2 DEF Reached
  <1>12. \A q \in 1..Rows : Whole(q)' => (q # r /\ Whole(q)) \/ (q = r /\ n + k = Width /\ r \notin torn')
    <2>1. ASSUME NEW q \in 1..Rows, Whole(q)'
          PROVE  (q # r /\ Whole(q)) \/ (q = r /\ n + k = Width /\ r \notin torn')
      <3>1. q \notin torn' /\ q \notin torn
        BY <1>7, <2>1 DEF Whole
      <3>2. q < r \/ (q = r /\ n + k = Width)
        BY <1>4, <2>1 DEF Whole
      <3>3. CASE q < r
        <4>1. Whole(q)
          <5>1. q \notin torn /\ q < Row
            BY <1>1, <3>1, <3>3
          <5> QED
            BY <5>1 DEF Whole
        <4>2. q # r
          BY <1>3, <3>3, StateTyped
        <4> QED
          BY <4>1, <4>2
      <3>4. CASE q = r /\ n + k = Width
        BY <3>1, <3>4
      <3> QED
        BY <3>2, <3>3, <3>4
    <2> QED
      BY <2>1
  <1>13. r \notin torn' /\ Reached(r) => scan.mode = "row" /\ scan.row = r
    BY <1>1, <1>3, <1>4, <1>7 DEF TextInv, NotMissed
  <1>14. ASSUME \A q : Has(scan.kept, q) => Has(scan'.kept, q),
                n + k = Width /\ r \notin torn' /\ Reached(r) => Has(scan'.kept, r)
         PROVE  WholeKept'
    <2>1. \A q : Has(scan.kept, q)' <=> Has(scan'.kept, q)
      BY DEF Has
    <2>2. ASSUME NEW q \in 1..Rows, Whole(q)', Reached(q)', ~Swallowed(q)'
          PROVE  Has(scan'.kept, q)
      <3>1. CASE q # r
        <4>1. Whole(q) /\ Reached(q) /\ ~Swallowed(q)
          BY <1>2, <1>11, <1>12, <2>2, <3>1 DEF Swallowed
        <4> QED
          BY <1>14, <4>1 DEF TextInv, WholeKept
      <3>2. CASE q = r
        BY <1>11, <1>12, <1>14, <2>2, <3>2
      <3> QED
        BY <3>1, <3>2
    <2> QED
      BY <2>1, <2>2 DEF WholeKept
  <1>15. Fine(scan.kept, LastKept, torn)' <=> Fine(scan'.kept, LastKept', torn')
    BY <1>2 DEF Fine, Own, Excused, NoOthers
  <1>16. /\ TextTypeOK' <=> scan' \in Readers
         /\ BlanksKnown'
         /\ NothingYet'
         /\ PeriodRead'
    <2>1. BlanksKnown'
      BY <1>1, <1>2, <1>4, <1>7 DEF TextInv, BlanksKnown
    <2>2. printed' \in [row : 0..Rows, cells : 0..Width]
      BY <1>2, <1>3
    <2>3. TextTypeOK' <=> scan' \in Readers
      BY <1>2, <1>7, <2>2 DEF TextInv, TextTypeOK
    <2>4. NothingYet'
      BY <1>2, <1>3, <1>4 DEF TextInv, NothingYet
    <2>5. PeriodRead'
      BY <1>2 DEF TextInv, PeriodRead
    <2> QED
      BY <2>1, <2>3, <2>4, <2>5
  <1>17. scan'.mode \in {scan.mode, "idle", "row"} \/ (scan'.mode = "full" /\ format = "ranking") => PagesKnown'
    <2>1. PagesKnown
      BY DEF TextInv
    <2> QED
      BY <1>1, <1>2, <1>4, <2>1 DEF PagesKnown
  <1>18. /\ Fine(scan.kept, LastKept, torn')
         /\ LastKept \in Nat /\ LastKept <= r
         /\ Fine(scan.kept, r, torn')
    <2>1. Fine(scan.kept, LastKept, torn) /\ LastKept \in Nat /\ LastKept <= r /\ scan.kept \in Seq(Entries)
      BY <1>1, StateTyped DEF TextInv
    <2>2. LastKept <= LastKept
      BY <2>1
    <2> QED
      BY <1>3, <1>7, <2>1, <2>2, FineStays
  <1>19. CASE scan.mode # "row" /\ (scan' = scan \/ scan' = Idle(scan.kept))
    <2>1. scan'.kept = scan.kept /\ scan'.mode \in {scan.mode, "idle"} /\ scan'.mode # "row"
      BY <1>19 DEF Idle
    <2>2. scan' \in Readers
      <3>1. <<>> \in CellsPrinted
        BY EmptySeq DEF CellsPrinted
      <3>2. Idle(scan.kept) \in Readers
        BY <3>1, StateTyped DEF Idle, Readers
      <3> QED
        BY <1>19, <3>2, StateTyped
    <2>3. InTheRow' /\ OpenRow'
      BY <2>1 DEF InTheRow, OpenRow
    <2>4. NotMissed'
      BY <1>4, <1>11, <1>13, <1>19 DEF NotMissed
    <2>5. WholeKept'
      BY <1>13, <1>14, <1>19, <2>1
    <2>6. Fine(scan.kept, LastKept, torn)'
      <3>1. LastKept' = r
        BY <1>4, <2>1 DEF LastKept
      <3> QED
        BY <1>15, <1>18, <2>1, <3>1
    <2> QED
      BY <1>16, <1>17, <2>1, <2>2, <2>3, <2>4, <2>5, <2>6 DEF TextInv
  <1>20. CASE /\ scan.mode = "row" /\ Len(all) >= Width
              /\ scan' \in Readers
              /\ scan'.kept = Append(scan.kept, [row |-> scan.row, cells |-> all])
              /\ scan'.mode = "idle" \/ (scan'.mode = "full" /\ format = "ranking")
    <2> DEFINE entry == [row |-> scan.row, cells |-> all]
    <2>1. entry \in Entries /\ entry.row = scan.row /\ entry.cells = all
      BY <1>8, StateTyped DEF Entries, Readers
    <2>2. scan.row = r =>
            \/ all = Cells(r, 1, n + k) /\ Len(all) = Width /\ n + k = Width
            \/ /\ r \in torn
               /\ format = "ranking" \/ (format \in Associates /\ NoOthers([row |-> r, cells |-> all]))
      BY <1>2, <1>3, <1>9, <1>10, <1>20
    <2>3. scan.row = r => Own(entry) \/ Excused(entry, torn')
      <3>1. Own([row |-> r, cells |-> Cells(r, 1, n + k)])
        BY <1>2, <1>3, FirstCells
      <3> QED
        BY <1>7, <2>2, <3>1 DEF Excused
    <2>4. scan'.mode # "row" /\ LastKept' = r
      BY <1>4, <1>20 DEF LastKept
    <2> HIDE DEF entry
    <2>5. Fine(Append(scan.kept, entry), r, torn')
      <3>1. CASE scan.row = r
        <4>1. LastKept + 1 = r /\ r \in (LastKept + 1)..r
          BY <1>1, <1>3, <1>20, <3>1, NoRowAssumption DEF LastKept
        <4> QED
          BY <1>3, <1>18, <2>1, <2>3, <3>1, <4>1, StateTyped, FineAppended
      <3>2. CASE scan.row = Nil
        BY <1>3, <1>18, <2>1, <3>2, StateTyped, FineAppended
      <3> QED
        BY <1>9, <1>20, <3>1, <3>2
    <2>6. Fine(scan.kept, LastKept, torn)'
      BY <1>15, <1>20, <2>4, <2>5 DEF entry
    <2>7. InTheRow' /\ OpenRow'
      BY <2>4 DEF InTheRow, OpenRow
    <2>8. NotMissed'
      BY <1>4, <1>7, <1>11, <1>13, <2>2 DEF NotMissed
    <2>9. WholeKept'
      <3>1. scan'.kept = Append(scan.kept, entry)
        BY <1>20 DEF entry
      <3>2. \A q : Has(scan.kept, q) => Has(scan'.kept, q)
        BY <2>1, <3>1, StateTyped, HasAppended
      <3>3. r \notin torn' /\ Reached(r) => entry.row = r /\ Len(entry.cells) = Width
        BY <1>7, <1>13, <2>1, <2>2
      <3>4. r \notin torn' /\ Reached(r) => Has(scan'.kept, r)
        BY <2>1, <3>1, <3>3, StateTyped, HasAppended
      <3> QED
        BY <1>14, <3>2, <3>4
    <2>10. PagesKnown'
      BY <1>17, <1>20
    <2> QED
      BY <1>16, <1>20, <2>6, <2>7, <2>8, <2>9, <2>10 DEF TextInv
  <1>21. CASE scan.mode = "row" /\ Len(all) < Width /\ scan' = InRow(scan.row, all, scan.kept)
    <2>1. scan'.mode = "row" /\ scan'.row = scan.row /\ scan'.cells = all /\ scan'.kept = scan.kept
      BY <1>21 DEF InRow
    <2>2. scan' \in Readers
      BY <1>8, <1>21, StateTyped DEF InRow, Readers
    <2>3. InTheRow'
      <3>1. Len(all) <= n + k
        BY <1>3, <1>8, <1>9, <1>21
      <3>2. Cells(Row, 1, printed.cells)' = Cells(r, 1, n + k)
        BY <1>4 DEF Cells, Cell
      <3>3. r \in torn => r \in torn'
        BY <1>7
      <3> QED
        BY <1>2, <1>3, <1>4, <1>9, <1>21, <2>1, <3>1, <3>2, <3>3 DEF InTheRow
    <2>4. OpenRow'
      <3>1. ASSUME format \in Associates
            PROVE  /\ scan.row = r /\ r \in 1..r /\ firstOf[r] = breaks /\ (r + 1)..r = {} /\ ~(r < r)
                   /\ Len(all) + blank[r] = n + k + (r - r)
                   /\ r \in torn' \/ all = Cells(r, 1, n + k)
                   /\ NoOthers([row |-> r, cells |-> all])
        <4>1. OpenRow /\ scan.row = r
          BY <1>9, <1>21, <3>1, FormatsApart DEF TextInv
        <4>2. firstOf[r] = breaks
          BY <1>21, <3>1, <4>1 DEF OpenRow
        <4>3. NoOthers([row |-> r, cells |-> all])
          <5>1. n + k \in 0..Width
            BY <1>2, <1>3
          <5> QED
            BY <1>3, <1>9, <1>21, <3>1, <4>1, <5>1, FirstCells, FormatsApart
        <4>4. Len(all) + blank[r] = n + k + (r - r)
          BY <1>3, <1>9, <1>10, <1>21, <3>1
        <4> QED
          BY <1>3, <1>7, <1>9, <1>21, <3>1, <4>1, <4>2, <4>3, <4>4, FormatsApart
      <3>2. Cells(scan.row, 1, printed.cells)' = Cells(scan.row, 1, n + k)
        BY <1>4, <2>1 DEF Cells, Cell
      <3>3. NoOthers([row |-> scan.row, cells |-> scan.cells])' <=> NoOthers([row |-> scan.row, cells |-> all])
        BY <2>1 DEF NoOthers
      <3> QED
        BY <1>2, <1>4, <2>1, <3>1, <3>2, <3>3 DEF OpenRow
    <2>5. NotMissed'
      BY <1>4, <1>11, <1>13, <2>1 DEF NotMissed
    <2>6. WholeKept'
      <3>1. ~(n + k = Width /\ r \notin torn' /\ Reached(r))
        BY <1>3, <1>7, <1>9, <1>10, <1>13, <1>21
      <3> QED
        BY <1>14, <2>1, <3>1
    <2>7. Fine(scan.kept, LastKept, torn)'
      <3>1. LastKept' = LastKept
        BY <1>1, <1>4, <1>21, <2>1 DEF LastKept
      <3> QED
        BY <1>15, <1>18, <2>1, <3>1
    <2> QED
      BY <1>16, <1>17, <2>1, <2>2, <2>3, <2>5, <2>6, <2>7, <2>4 DEF TextInv
  <1>22. ASSUME format = "ranking", torn' = torn \cup {r}, NEW base, Closed(base), scan' = InRow(Nil, Tail(new), base)
         PROVE  TextInv'
    <2>1. base \in Seq(Entries) /\ Fine(base, r, torn') /\ \A q : Has(scan.kept, q) => Has(base, q)
      <3>1. base \in Seq(Entries) /\ Fine(base, r, torn) /\ \A q : Has(scan.kept, q) => Has(base, q)
        BY <1>1, <1>22, ClosedFine
      <3>2. r <= r
        BY <1>3
      <3>3. Fine(base, r, torn')
        BY <1>3, <1>7, <3>1, <3>2, FineStays
      <3> QED
        BY <3>1, <3>3
    <2>2. Tail(new) \in CellsPrinted /\ Len(Tail(new)) = k - 1
      <3>1. new # <<>>
        BY <1>3, <1>5, EmptySeq
      <3> QED
        BY <1>5, <3>1, HeadTailProperties DEF CellsPrinted
    <2>3. scan' \in Readers /\ scan'.mode = "row" /\ scan'.row = Nil /\ scan'.cells = Tail(new) /\ scan'.kept = base
      BY <1>22, <2>1, <2>2 DEF InRow, Readers
    <2>4. Nil # r
      BY <1>3, NoRowAssumption
    <2>5. r \in torn'
      BY <1>22
    <2>6. OpenRow'
      BY <1>2, <1>22 DEF OpenRow, Associates
    <2>7. InTheRow'
      <3>1. Len(Tail(new)) <= n + k /\ Len(Tail(new)) < Width
        BY <1>2, <1>3, <2>2
      <3> QED
        BY <1>2, <1>3, <1>4, <1>22, <2>3, <2>4, <2>5, <3>1 DEF InTheRow
    <2>8. NotMissed'
      BY <1>4, <2>5 DEF NotMissed
    <2>9. WholeKept'
      BY <1>14, <2>1, <2>3, <2>5
    <2>10. Fine(scan.kept, LastKept, torn)'
      <3>1. LastKept' = r
        BY <1>4, <2>3, <2>4 DEF LastKept
      <3> QED
        BY <1>15, <2>1, <2>3, <3>1
    <2> QED
      BY <1>16, <1>17, <2>3, <2>7, <2>8, <2>9, <2>10, <2>6 DEF TextInv
  <1>23. CASE scan.mode = "row" /\ Len(all) >= Width
              /\ \/ scan' = Idle(Append(scan.kept, [row |-> scan.row, cells |-> all]))
                 \/ /\ format = "ranking"
                    /\ scan' = [Idle(Append(scan.kept, [row |-> scan.row, cells |-> all])) EXCEPT !.mode = "full"]
    <2> DEFINE kept == Append(scan.kept, [row |-> scan.row, cells |-> all])
    <2>1. kept \in Seq(Entries)
      <3>1. [row |-> scan.row, cells |-> all] \in Entries
        BY <1>8, StateTyped DEF Entries, Readers
      <3> QED
        BY <3>1, StateTyped, Appended
    <2> HIDE DEF kept
    <2>2. Idle(kept) \in Readers /\ Idle(kept).kept = kept /\ Idle(kept).mode = "idle"
      BY <2>1, EmptySeq DEF Idle, Readers, CellsPrinted
    <2>3. CASE scan' = Idle(kept)
      BY <1>20, <1>23, <2>2, <2>3 DEF kept
    <2>4. CASE format = "ranking" /\ scan' = [Idle(kept) EXCEPT !.mode = "full"]
      <3>1. scan' \in Readers /\ scan'.kept = kept /\ scan'.mode = "full"
        BY <2>2, <2>4 DEF Readers
      <3> QED
        BY <1>20, <1>23, <2>4, <3>1 DEF kept
    <2> QED
      BY <1>23, <2>3, <2>4 DEF kept
  <1> QED
    BY <1>6, <1>19, <1>21, <1>22, <1>23

\* A blank cell tears its row.
LEMMA SkipCellKeeps ==
  ASSUME TextInv, SkipCell
  PROVE  TextInv'
  <1>1. PICK r, n : r = Row /\ n = printed.cells
    OBVIOUS
  <1>2. /\ format \in Associates \cup {"ranking"} /\ ~Complete
        /\ printed' = [row |-> r, cells |-> n + 1]
        /\ torn' = torn \cup {r}
        /\ blank' = [blank EXCEPT ![r] = @ + 1] /\ flat' = flat
        /\ format' = format /\ breaks' = breaks /\ firstOf' = firstOf /\ period' = period /\ scan' = scan
    BY <1>1, StateTyped DEF SkipCell
  <1>3. r > 0 /\ r \in 1..Rows /\ n \in Nat /\ n < Width /\ Width \in Nat
    <2>1. r = 0 => Complete
      BY <1>1 DEF TextInv, NothingYet
    <2>2. n # Width
      BY <1>1, <1>2 DEF Complete
    <2> QED
      BY <1>1, <1>2, <2>1, <2>2, StateTyped
  <1>4. Row' = r /\ printed'.cells = n + 1 /\ r \in torn'
    BY <1>2 DEF Row
  <1>5. torn \subseteq torn' /\ torn' \in SUBSET (1..Rows)
    BY <1>2, <1>3 DEF TextInv, TextTypeOK
  <1>6. /\ blank' \in [1..Rows -> Nat] /\ blank[r] \in Nat /\ blank'[r] = blank[r] + 1
         /\ \A q \in 1..Rows : q # r => blank'[q] = blank[q]
    BY <1>2, <1>3, StateTyped
  <1>7. TextTypeOK' /\ BlanksKnown'
    <2>1. printed' \in [row : 0..Rows, cells : 0..Width]
      BY <1>2, <1>3
    <2>2. TextTypeOK'
      BY <1>2, <1>5, <1>6, <2>1 DEF TextInv, TextTypeOK
    <2>3. ASSUME NEW q \in 1..Rows, blank'[q] # 0
          PROVE  q <= r /\ q \in torn'
      BY <1>1, <1>3, <1>4, <1>5, <1>6, <2>3 DEF TextInv, BlanksKnown
    <2> QED
      BY <1>4, <2>2, <2>3 DEF BlanksKnown
  <1>8. NothingYet'
    BY <1>2, <1>3, <1>4 DEF TextInv, NothingYet
  <1>9. PagesKnown'
    BY <1>1, <1>2, <1>4 DEF TextInv, PagesKnown
  <1>10. InTheRow'
    <2>1. InTheRow
      BY DEF TextInv
    <2>2. ASSUME scan.mode = "row", format \notin Associates
          PROVE  Len(scan.cells) <= n + 1
      <3>1. Len(scan.cells) \in Nat
        BY StateTyped, LenProperties DEF CellsPrinted
      <3> QED
        BY <1>1, <1>3, <2>1, <2>2, <3>1 DEF InTheRow
    <2> QED
      BY <1>1, <1>2, <1>4, <1>5, <2>1, <2>2 DEF InTheRow
  <1>11. OpenRow'
    <2>1. ASSUME scan.mode = "row", format \in Associates
          PROVE  /\ scan.row = r /\ r \in 1..r /\ firstOf[r] = breaks /\ (r + 1)..r = {} /\ ~(r < r)
                 /\ Len(scan.cells) + blank'[r] = n + 1 + (r - r)
                 /\ NoOthers([row |-> scan.row, cells |-> scan.cells])
      <3>1. OpenRow
        BY DEF TextInv
      <3>2. scan.row \in 1..Row /\ ~(scan.row < Row)
        BY <1>2, <2>1, <3>1 DEF OpenRow
      <3>3. scan.row = r
        BY <1>1, <1>3, <3>2
      <3>4. PICK a, b : a = Len(scan.cells) /\ b = blank[r]
        OBVIOUS
      <3>5. a \in Nat /\ b \in Nat
        BY <1>6, <3>4, StateTyped, LenProperties DEF CellsPrinted
      <3>6. a + b = n + (r - r)
        BY <1>1, <2>1, <3>1, <3>3, <3>4 DEF OpenRow
      <3>7. a + (b + 1) = n + 1 + (r - r)
        BY <1>3, <3>5, <3>6
      <3> QED
        BY <1>3, <1>6, <2>1, <3>1, <3>3, <3>4, <3>7 DEF OpenRow
    <2>2. NoOthers([row |-> scan.row, cells |-> scan.cells])' <=> NoOthers([row |-> scan.row, cells |-> scan.cells])
      BY <1>2 DEF NoOthers
    <2> QED
      BY <1>2, <1>4, <2>1, <2>2 DEF OpenRow
  <1>12. Fine(scan.kept, LastKept, torn)'
    <2>1. LastKept' = LastKept
      BY <1>1, <1>2, <1>4 DEF LastKept
    <2>2. Fine(scan.kept, LastKept, torn')
      BY <1>5, StateTyped, FineStays DEF TextInv
    <2>3. Fine(scan.kept, LastKept, torn)' <=> Fine(scan'.kept, LastKept', torn')
      BY <1>2 DEF Fine, Own, Excused, NoOthers
    <2> QED
      BY <1>2, <2>1, <2>2, <2>3
  <1>13. NotMissed'
    BY <1>4 DEF NotMissed
  <1>14. WholeKept'
    <2>1. ASSUME NEW q \in 1..Rows, Whole(q)', Reached(q)', ~Swallowed(q)'
          PROVE  Has(scan.kept, q)
      <3>1. Whole(q)
        BY <1>1, <1>2, <1>4, <1>5, <2>1 DEF Whole
      <3>2. Reached(q)
        BY <1>2, <2>1 DEF Reached
      <3>3. ~Swallowed(q)
        <4>1. ASSUME NEW p \in 1..(q - 1), q - p <= blank[p], firstOf[p] = firstOf[q], (p + 1)..q \subseteq flat
              PROVE  FALSE
          <5>1. p \in 1..Rows
            BY StateTyped
          <5>2. blank'[p] \in Nat /\ blank[p] \in Nat /\ blank[p] <= blank'[p]
            <6>1. blank[p] \in Nat /\ (blank'[p] = blank[p] \/ blank'[p] = blank[p] + 1)
              BY <1>6, <5>1, StateTyped
            <6> QED
              BY <6>1
          <5>3. q - p <= blank'[p]
            BY <4>1, <5>1, <5>2
          <5> QED
            BY <1>2, <2>1, <4>1, <5>3 DEF Swallowed
        <4> QED
          BY <4>1 DEF Swallowed
      <3> QED
        BY <3>1, <3>2, <3>3 DEF TextInv, WholeKept
    <2> QED
      BY <1>2, <2>1 DEF WholeKept, Has
  <1>15. PeriodRead'
    BY <1>2 DEF TextInv, PeriodRead
  <1> QED
    BY <1>7, <1>8, <1>9, <1>10, <1>12, <1>13, <1>14, <1>15, <1>11 DEF TextInv

(***************************************************************************)
(* A page ends                                                             *)
(***************************************************************************)
LEMMA FootRead ==
  ASSUME TextInv, NEW numbered \in BOOLEAN, PageBreak(numbered)
  PROVE  /\ scan' \in Readers /\ Fine(scan'.kept, Row, torn') /\ \A q : Has(scan.kept, q) => Has(scan'.kept, q)
         /\ scan'.mode \in {"idle", "done"}
         /\ scan'.mode = "done" => Row > 0 /\ format \notin Associates
  <1> DEFINE line == Foot
  <1>1. format \notin Associates => scan' = Scan(scan, line)
    BY DEF PageBreak
  <1>2. line.kind = "foot"
    BY DEF TextLine, Foot
  <1> HIDE DEF line
  <1>3. torn' = IF Complete THEN torn ELSE torn \cup {Row}
    BY DEF PageBreak
  <1>4. ASSUME NEW base, Closed(base)
         PROVE  Fine(base, Row, torn') /\ \A q : Has(scan.kept, q) => Has(base, q)
    <2>1. base \in Seq(Entries) /\ Fine(base, Row, torn) /\ \A q : Has(scan.kept, q) => Has(base, q)
      BY <1>4, ClosedFine
    <2>2. Row \in Nat /\ Row <= Row /\ torn \subseteq torn'
      BY <1>3, StateTyped
    <2> QED
      BY <2>1, <2>2, FineStays
  <1>5. scan \in Readers /\ Closed(scan.kept)
    BY StateTyped DEF Closed
  <1>6. /\ scan.mode = "done" => Row > 0 /\ format \notin Associates
        /\ scan.mode = "full" => format = "ranking"
        /\ Row > 0 \/ scan = Start
    BY StateTyped DEF TextInv, PagesKnown, NothingYet
  <1>7. \A base : Closed(base) => base \in Seq(Entries) /\ Idle(base) \in Readers /\ Idle(base).kept = base
                                 /\ Idle(base).mode = "idle"
    <2>1. ASSUME NEW base, Closed(base)
          PROVE  base \in Seq(Entries)
      BY <2>1, ClosedFine
    <2>2. <<>> \in CellsPrinted
      BY EmptySeq DEF CellsPrinted
    <2> QED
      BY <2>1, <2>2 DEF Idle, Readers
  <1>8. ASSUME NEW s \in Readers
        PROVE  Finish(s) \in Readers /\ Finish(s).kept = s.kept /\ Finish(s).mode = "done"
    <2>1. Finish(s) = [mode |-> "done", row |-> s.row, cells |-> s.cells, kept |-> s.kept]
      BY Reading
    <2> QED
      BY <2>1 DEF Readers
  <1>9. Leave(scan) = Idle(scan.kept)
    BY <1>5, Reading
  <1>10. CASE format \in Associates
    <2>1. PICK s : s = IF numbered THEN Scan(scan, StoreNumber) ELSE scan
      OBVIOUS
    <2>2. scan' = Scan(s, Foot)
      BY <2>1 DEF PageBreak
    <2>3. scan' = Leave(s)
      BY <1>10, <2>2 DEF Scan, ScanBonusClub, ScanAssociates, Associates, Foot, TextLine
    <2>4. Leave(s) = Idle(s.kept)
      BY DEF Leave, Start, Idle
    <2>5. s = scan \/ (scan.mode = "row" /\ s = Take(scan, <<NoCell>>))
      BY <1>10, <2>1 DEF Scan, ScanBonusClub, ScanAssociates, Associates, StoreNumber, TextLine, Bare, ValueOf
    <2>6. CASE s = scan
      BY <1>5, <1>7, <1>4, <2>3, <2>4, <2>6
    <2>7. CASE scan.mode = "row" /\ s = Take(scan, <<NoCell>>)
      <3>1. /\ Spoilt \in Entries /\ Spoilt.row = scan.row /\ NoOthers(Spoilt)
            /\ s.kept = Append(scan.kept, Spoilt) \/ s.kept = scan.kept
            /\ s \in Readers
        BY <1>10, <2>7, ValueTaken DEF Idle, InRow
      <3>2. CASE s.kept = scan.kept
        BY <1>5, <1>7, <1>4, <2>3, <2>4, <3>2
      <3>3. CASE s.kept = Append(scan.kept, Spoilt)
        <4>1. /\ scan.row \in 1..Row /\ scan.row \in 1..Rows /\ LastKept = scan.row - 1
              /\ Complete => scan.row \in torn
          BY <1>10, <2>7, RowOpen
        <4>2. scan.row \in torn'
          <5>1. ~Complete => ~(scan.row < Row)
            BY <1>10, <2>7 DEF TextInv, OpenRow
          <5>2. ~Complete => scan.row = Row
            BY <4>1, <5>1, StateTyped
          <5> QED
            BY <1>3, <4>1, <5>2
        <4>3. Excused(Spoilt, torn')
          BY <1>10, <3>1, <4>2 DEF Excused
        <4>4. /\ scan.kept \in Seq(Entries) /\ Row \in Nat /\ LastKept \in Nat /\ LastKept <= Row
              /\ Fine(scan.kept, LastKept, torn)
          BY StateTyped DEF TextInv
        <4>5. Fine(scan.kept, LastKept, torn')
          <5>1. torn \subseteq torn' /\ LastKept <= LastKept
            BY <1>3, <4>4
          <5> QED
            BY <4>4, <5>1, FineStays
        <4>6. Spoilt.row \in (LastKept + 1)..Row
          BY <3>1, <4>1, <4>4
        <4>7. Fine(Append(scan.kept, Spoilt), Row, torn')
          BY <3>1, <4>3, <4>4, <4>5, <4>6, FineAppended
        <4>8. Append(scan.kept, Spoilt) \in Seq(Entries) /\ \A q : Has(scan.kept, q) => Has(Append(scan.kept, Spoilt), q)
          BY <3>1, <4>4, Appended, HasAppended
        <4>9. Idle(s.kept) \in Readers /\ Idle(s.kept).kept = s.kept /\ Idle(s.kept).mode = "idle"
          BY <3>3, <4>8, EmptySeq DEF Idle, Readers, CellsPrinted
        <4> QED
          BY <2>3, <2>4, <3>3, <4>7, <4>8, <4>9
      <3> QED
        BY <3>1, <3>2, <3>3
    <2> QED
      BY <2>5, <2>6, <2>7
  <1>11. CASE format = "segments"
    <2>1. scan' = ScanSegments(scan, line)
      BY <1>1, <1>11 DEF Scan, Associates
    <2>2. CASE scan.mode = "done"
      BY <1>4, <1>5, <1>6, <2>1, <2>2 DEF ScanSegments
    <2>3. CASE scan.mode # "done" /\ scan = Start
      <3>1. scan' = scan /\ scan.mode = "idle"
        BY <1>2, <2>1, <2>3 DEF ScanSegments, Start
      <3> QED
        BY <1>4, <1>5, <3>1
    <2>4. CASE scan.mode # "done" /\ scan # Start
      <3>1. scan' = Finish(Close(scan))
        BY <1>2, <2>1, <2>4 DEF ScanSegments
      <3>2. PICK base : base = Close(scan).kept
        OBVIOUS
      <3>3. Close(scan) = Idle(base) /\ Closed(base)
        BY <1>11, <3>2, Closing
      <3>4. Idle(base) \in Readers /\ Idle(base).kept = base
        BY <1>7, <3>3
      <3>5. scan' \in Readers /\ scan'.kept = base /\ scan'.mode = "done"
        BY <1>8, <3>1, <3>3, <3>4
      <3> QED
        BY <1>4, <1>6, <1>11, <2>4, <3>3, <3>5 DEF Associates
    <2> QED
      BY <2>2, <2>3, <2>4
  <1>12. CASE format = "ranking"
    <2>1. scan' = ScanRanking(scan, line)
      BY <1>1, <1>12 DEF Scan, Associates
    <2>2. CASE scan.mode = "done"
      BY <1>4, <1>5, <1>6, <2>1, <2>2 DEF ScanRanking
    <2>3. CASE scan.mode # "done" /\ (scan.mode = "idle" \/ (scan.mode = "row" /\ scan.cells = <<>>))
      <3>1. scan' = Leave(scan)
        BY <1>2, <2>1, <2>3 DEF ScanRanking, LooksLikeStore
      <3> QED
        BY <1>4, <1>5, <1>7, <1>9, <3>1
    <2>4. CASE scan.mode # "done" /\ ~(scan.mode = "idle" \/ (scan.mode = "row" /\ scan.cells = <<>>))
      <3>1. scan' = Finish(CloseStore(scan))
        BY <1>2, <2>1, <2>4 DEF ScanRanking, LooksLikeStore
      <3>2. PICK base : base = CloseStore(scan).kept
        OBVIOUS
      <3>3. CloseStore(scan) = Idle(base) /\ Closed(base)
        BY <1>12, <3>2, Closing
      <3>4. Idle(base) \in Readers /\ Idle(base).kept = base
        BY <1>7, <3>3
      <3>5. scan' \in Readers /\ scan'.kept = base /\ scan'.mode = "done"
        BY <1>8, <3>1, <3>3, <3>4
      <3>6. scan # Start
        BY <2>4 DEF Start
      <3> QED
        BY <1>4, <1>6, <1>12, <3>3, <3>5, <3>6 DEF Associates
    <2> QED
      BY <2>2, <2>3, <2>4
  <1>13. CASE format = "sales"
    <2>1. scan' = IF scan.kept = <<>> THEN scan ELSE Finish(scan)
      <3>1. scan' = ScanSales(scan, line)
        BY <1>1, <1>13 DEF Scan, Associates
      <3> QED
        BY <1>2, <3>1 DEF ScanSales
    <2>2. scan.mode # "row"
      <3>1. ASSUME scan.mode = "row"
            PROVE  FALSE
        <4>1. Complete /\ InTheRow
          BY <1>13 DEF TextInv, NothingYet
        <4>2. Row > 0 /\ Len(scan.cells) < Width /\ scan.cells = Cells(Row, 1, printed.cells)
          BY <1>13, <3>1, <4>1 DEF InTheRow, Associates
        <4>3. Row \in 1..Rows /\ printed.cells = Width
          BY <4>1, <4>2, StateTyped DEF Complete
        <4>4. Len(scan.cells) = Width
          BY <4>2, <4>3, StateTyped, FirstCells
        <4> QED
          BY <4>2, <4>4, StateTyped
      <3> QED
        BY <3>1
    <2>3. CASE scan.kept = <<>>
      <3>1. scan.mode \in {"idle", "done"}
        BY <1>5, <1>6, <1>13, <2>2 DEF Readers
      <3> QED
        BY <1>4, <1>5, <1>6, <2>1, <2>3, <3>1
    <2>4. CASE scan.kept # <<>>
      <3>1. Row > 0
        BY <1>6, <2>4 DEF Start
      <3>2. scan' \in Readers /\ scan'.kept = scan.kept /\ scan'.mode = "done"
        BY <1>5, <1>8, <2>1, <2>4
      <3> QED
        BY <1>4, <1>5, <1>13, <3>1, <3>2 DEF Associates
    <2> QED
      BY <2>3, <2>4
  <1> QED
    BY <1>10, <1>11, <1>12, <1>13, StateTyped DEF Associates

\* Every page has the same dates.
LEMMA DatesRead ==
  ASSUME TextInv, NEW numbered \in BOOLEAN, PageBreak(numbered)
  PROVE  period' = [start |-> "from", end |-> "to"]
  <1>1. period' = ScanPeriod(period)
    BY DEF PageBreak
  <1>2. CASE period.start = Nil
    BY <1>1, <1>2 DEF ScanPeriod, ScanDates, ScanRange
  <1>3. CASE period.start # Nil
    <2>1. breaks > 0
      BY <1>3, StateTyped DEF TextInv, PagesKnown
    <2>2. period = [start |-> "from", end |-> "to"]
      BY <2>1 DEF TextInv, PeriodRead
    <2> QED
      BY <1>1, <1>3, <2>2 DEF ScanPeriod, ScanDates, ScanRange
  <1> QED
    BY <1>2, <1>3

LEMMA PageBreakKeeps ==
  ASSUME TextInv, NEW numbered \in BOOLEAN, PageBreak(numbered)
  PROVE  TextInv'
  <1>1. PICK r : r = Row
    OBVIOUS
  <1>2. /\ breaks' = breaks + 1
        /\ torn' = IF Complete THEN torn ELSE torn \cup {r}
        /\ format' = format /\ printed' = printed /\ firstOf' = firstOf
        /\ flat' = flat /\ blank' = blank
    BY <1>1 DEF PageBreak
  <1>3. r \in Nat /\ r \in 0..Rows /\ breaks \in Nat /\ breaks' \in Nat /\ breaks' > breaks
    BY <1>1, <1>2, StateTyped
  <1>4. Row' = r /\ (Complete' <=> Complete)
    BY <1>1, <1>2 DEF Row, Complete
  <1>5. ~Complete => r > 0 /\ r \in torn'
    BY <1>1, <1>2, <1>3 DEF TextInv, NothingYet
  <1>6. torn \subseteq torn' /\ torn' \in SUBSET (1..Rows)
    BY <1>2, <1>3, <1>5 DEF TextInv, TextTypeOK
  <1>7. /\ scan' \in Readers /\ Fine(scan'.kept, r, torn')
        /\ scan'.mode \in {"idle", "done"}
        /\ scan'.mode = "done" => r > 0 /\ format \notin Associates
    BY <1>1, FootRead
  <1>8. \A q : Has(scan.kept, q) => Has(scan'.kept, q)
    BY FootRead
  <1>9. TextTypeOK' /\ BlanksKnown'
    <2>1. TextTypeOK'
      BY <1>2, <1>3, <1>6, <1>7 DEF TextInv, TextTypeOK
    <2>2. BlanksKnown'
      BY <1>1, <1>2, <1>4, <1>6 DEF TextInv, BlanksKnown
    <2> QED
      BY <2>1, <2>2
  <1>10. NothingYet'
    <2>1. r = 0 => scan' = Start
      <3>1. ASSUME r = 0
            PROVE  scan' = Start
        <4>1. scan = Start /\ scan' = Scan(IF numbered THEN Scan(scan, StoreNumber) ELSE scan, Foot)
          BY <1>1, <3>1 DEF TextInv, NothingYet, PageBreak
        <4>2. numbered => format \in Associates /\ Scan(Start, StoreNumber) = Start
          BY DEF PageBreak, Scan, ScanBonusClub, ScanAssociates, Associates, StoreNumber, TextLine, Start
        <4>3. scan' = Scan(Start, Foot)
          BY <4>1, <4>2
        <4>4. Foot.kind = "foot"
          BY DEF Foot, TextLine
        <4>5. Leave(Start) = Start
          BY DEF Leave, Start
        <4>6. Start.mode = "idle" /\ Start.kept = <<>>
          BY DEF Start
        <4>7. CASE format \in Associates
          BY <4>3, <4>4, <4>5, <4>7 DEF Scan, ScanBonusClub, ScanAssociates, Associates
        <4>8. CASE format = "segments"
          BY <4>3, <4>4, <4>6, <4>8 DEF Scan, ScanSegments
        <4>9. CASE format = "ranking"
          BY <4>3, <4>4, <4>5, <4>6, <4>9 DEF Scan, ScanRanking, LooksLikeStore
        <4>10. CASE format = "sales"
          BY <4>3, <4>4, <4>6, <4>10 DEF Scan, ScanSales
        <4> QED
          BY <4>7, <4>8, <4>9, <4>10, StateTyped DEF Associates
      <3> QED
        BY <3>1
    <2> QED
      BY <1>1, <1>2, <1>4, <2>1 DEF TextInv, NothingYet
  <1>11. PagesKnown'
    <2>1. \A q \in 1..r : firstOf[q] \in Nat /\ firstOf[q] <= breaks
      BY <1>1 DEF TextInv, PagesKnown
    <2>2. \A q \in 1..r : firstOf'[q] \in Nat /\ firstOf'[q] <= breaks'
      <3>1. ASSUME NEW q \in 1..r
            PROVE  firstOf'[q] \in Nat /\ firstOf'[q] <= breaks'
        BY <1>2, <1>3, <2>1
      <3> QED
        BY <3>1
    <2>3. r > 0 => firstOf'[1] < breaks'
      <3>1. r > 0 => 1 \in 1..r
        BY <1>3
      <3> QED
        BY <1>2, <1>3, <2>1, <3>1
    <2>4. breaks' # 0
      BY <1>3
    <2> QED
      BY <1>2, <1>4, <1>7, <2>2, <2>3, <2>4 DEF PagesKnown
  <1>12. InTheRow' /\ OpenRow'
    BY <1>7 DEF InTheRow, OpenRow
  <1>13. Fine(scan.kept, LastKept, torn)'
    <2>1. LastKept' = r
      BY <1>4, <1>7 DEF LastKept
    <2>2. Fine(scan.kept, LastKept, torn)' <=> Fine(scan'.kept, LastKept', torn')
      BY <1>2 DEF Fine, Own, Excused, NoOthers
    <2> QED
      BY <1>7, <2>1, <2>2
  <1>14. NotMissed'
    BY <1>4, <1>5 DEF NotMissed
  <1>15. WholeKept'
    <2>1. ASSUME NEW q \in 1..Rows, Whole(q)', Reached(q)', ~Swallowed(q)'
          PROVE  Has(scan'.kept, q)
      <3>1. Whole(q)
        BY <1>1, <1>4, <1>6, <2>1 DEF Whole
      <3>2. Reached(q) /\ ~Swallowed(q)
        BY <1>2, <2>1 DEF Reached, Swallowed
      <3> QED
        BY <1>8, <3>1, <3>2 DEF TextInv, WholeKept
    <2>2. \A q : Has(scan.kept, q)' <=> Has(scan'.kept, q)
      BY DEF Has
    <2> QED
      BY <2>1, <2>2 DEF WholeKept
  <1>16. PeriodRead'
    BY DatesRead DEF PeriodRead
  <1> QED
    BY <1>9, <1>10, <1>11, <1>12, <1>13, <1>14, <1>15, <1>16 DEF TextInv

(***************************************************************************)
(* Every document                                                          *)
(***************************************************************************)
LEMMA TextInitially == TextInit => TextInv
  <1> SUFFICES ASSUME TextInit
               PROVE  TextInv
    OBVIOUS
  <1>1. Row = 0 /\ Complete /\ scan = Start /\ torn = {} /\ breaks = 0 /\ flat = {} /\ blank = [r \in 1..Rows |-> 0]
    BY DEF TextInit, Row, Complete
  <1>2. Start.mode = "idle" /\ Start.kept = <<>>
    BY DEF Start
  <1>3. TextTypeOK
    <2>1. <<>> \in CellsPrinted /\ <<>> \in Seq(Entries)
      BY EmptySeq DEF CellsPrinted
    <2>2. Start \in Readers
      BY <2>1 DEF Start, Readers
    <2>3. [row |-> 0, cells |-> Width] \in [row : 0..Rows, cells : 0..Width]
      BY SizeAssumption
    <2>4. [r \in 1..Rows |-> Nil] \in [1..Rows -> Nat \union {Nil}]
      OBVIOUS
    <2>5. blank \in [1..Rows -> Nat]
      BY <1>1
    <2> QED
      BY <1>1, <2>2, <2>3, <2>4, <2>5 DEF TextInit, TextTypeOK
  <1>4. BlanksKnown /\ NothingYet /\ PagesKnown /\ InTheRow /\ OpenRow /\ NotMissed /\ PeriodRead
    BY <1>1, <1>2 DEF TextInit, BlanksKnown, NothingYet, PagesKnown, InTheRow, OpenRow, NotMissed, PeriodRead
  <1>5. Fine(scan.kept, LastKept, torn)
    BY <1>1, <1>2 DEF Fine
  <1>6. WholeKept
    <2>1. \A r \in 1..Rows : ~(r < 0 \/ r = 0)
      BY SizeAssumption
    <2> QED
      BY <1>1, <2>1 DEF WholeKept, Whole
  <1> QED
    BY <1>3, <1>4, <1>5, <1>6 DEF TextInv

LEMMA TextPreserved == TextInv /\ [TextNext]_textVars => TextInv'
  <1>1. ASSUME TextInv, NEW k \in Inline, BeginRow(k)
        PROVE  TextInv'
    BY <1>1, BeginRowKeeps, SwallowKeeps
  <1>2. ASSUME TextInv, NEW k \in 1..Width, PrintCells(k)
        PROVE  TextInv'
    BY <1>2, PrintCellsKeeps
  <1>3. ASSUME TextInv, SkipCell
        PROVE  TextInv'
    BY <1>3, SkipCellKeeps
  <1>4. ASSUME TextInv, NEW numbered \in BOOLEAN, PageBreak(numbered)
        PROVE  TextInv'
    BY <1>4, PageBreakKeeps
  <1>5. ASSUME TextInv, UNCHANGED textVars
        PROVE  TextInv'
    BY <1>5 DEF textVars, TextInv, TextTypeOK, BlanksKnown, NothingYet, PagesKnown, InTheRow, OpenRow, NotMissed,
                WholeKept, PeriodRead, Fine, LastKept, Has, Whole, Reached, Swallowed, Row, Complete, Own,
                Excused, NoOthers
  <1> QED
    BY <1>1, <1>2, <1>3, <1>4, <1>5 DEF TextNext

\* The rows at the end of the text are those kept, the last one as far as it goes.
LEMMA ParsedIsClosed ==
  ASSUME TextInv
  PROVE  Closed(Parsed)
  <1>1. CASE format \in Associates \/ format = "sales"
    BY <1>1 DEF Parsed, AssociatesParsed, SalesParsed, Closed, Associates
  <1>2. CASE format = "segments"
    <2>1. Closed(Close(scan).kept)
      BY <1>2, Closing
    <2> QED
      BY <1>2, <2>1 DEF Parsed, SegmentsParsed, Closed, Associates
  <1>3. CASE format = "ranking"
    <2>1. Closed(CloseStore(scan).kept)
      BY <1>3, Closing
    <2> QED
      BY <1>3, <2>1 DEF Parsed, RankingParsed, Closed, Associates
  <1> QED
    BY <1>1, <1>2, <1>3, StateTyped DEF Associates

LEMMA ReadRight ==
  ASSUME TextInv
  PROVE  OwnFigures /\ TextRead
  <1>1. /\ Fine(Parsed, Row, torn)
        /\ \A r : Has(scan.kept, r) => Has(Parsed, r)
    BY ParsedIsClosed, ClosedFine
  <1>2. OwnFigures
    BY <1>1 DEF Fine, OwnFigures
  <1>3. RowsRead
    <2>1. ASSUME NEW r \in 1..Rows, Whole(r), Reached(r), ~Swallowed(r)
          PROVE  \E i \in {i \in DOMAIN Parsed : Parsed[i].row # Nil} :
                   Parsed[i].row = r /\ Len(Parsed[i].cells) = Width
      <3>1. Has(Parsed, r)
        BY <1>1, <2>1 DEF TextInv, WholeKept
      <3>2. r # Nil
        BY NoRowAssumption
      <3> QED
        BY <3>1, <3>2 DEF Has
    <2>2. ASSUME NEW i \in DOMAIN Parsed, NEW j \in DOMAIN Parsed, i < j,
                 Parsed[i].row # Nil, Parsed[j].row # Nil
          PROVE  Parsed[i].row < Parsed[j].row
      BY <1>1, <2>2 DEF Fine
    <2> QED
      BY <2>1, <2>2 DEF RowsRead
  <1> QED
    BY <1>2, <1>3 DEF TextInv, TextRead

\* Nobody gets another's figures, in any report that may be printed but a ranking's
\* torn rows: not by sharing a line, not by a page that ends in a row, not by a cell
\* left blank or another's line read in its place.  In a row that is not torn every
\* figure is in its column; a torn row of an associates' report promises no columns.
THEOREM FiguresAreTheirOwn == TextSpec => []OwnFigures
  <1>1. TextInv => OwnFigures
    BY ReadRight
  <1> QED
    BY <1>1, TextInitially, TextPreserved, PTL DEF TextSpec

\* Every row printed whole and within the reader's reach, and that no incomplete row
\* before it takes for a value, is read, once, in its place and with all its cells; and
\* the dates read are those of the report.
THEOREM RowsAreRead == TextSpec => []TextRead
  <1>1. TextInv => TextRead
    BY ReadRight
  <1> QED
    BY <1>1, TextInitially, TextPreserved, PTL DEF TextSpec
=============================================================================
