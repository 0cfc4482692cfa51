---------------------------- MODULE ReportPages ----------------------------
(***************************************************************************)
(* apps/reports/views.py: the dashboard, the weekly review, the report     *)
(* pages and the associates' performance page, made from the summaries of  *)
(* uploaded reports, which the pages themselves bring up to date.          *)
(*                                                                         *)
(* A summary's figures are one number: Figure(r), a power of two, so that  *)
(* a total tells which reports it is made of.  Weeks are numbered through; *)
(* each has its calendar month (numbered through, twelve a year) and its   *)
(* fiscal year.                                                            *)
(***************************************************************************)
EXTENDS Integers, SequencesExt

CONSTANTS
  Weeks,           \* 1..n
  MonthOf,         \* the month a week ends in
  FiscalYearOf,    \* and the fiscal year it belongs to
  Lists,           \* the sets of people a report may list
  Viewers,         \* pages open at a time
  Watched,         \* the kinds of reports they are of
  DashboardLimit,  \* 6: weeks of the dashboard
  MaxChanges,      \* bounds uploads, deletions and releases
  None

ASSUME WeeksAssumption == IsFiniteSet(Weeks) /\ Weeks = 1..Cardinality(Weeks)
\* Fiscal years follow each other.
ASSUME YearsAssumption ==
  /\ FiscalYearOf \in [Weeks -> Int]
  /\ \A v, w \in Weeks : v <= w => FiscalYearOf[v] <= FiscalYearOf[w]
\* And so do months.
ASSUME MonthsAssumption ==
  /\ MonthOf \in [Weeks -> Int]
  /\ \A v, w \in Weeks : v <= w => MonthOf[v] <= MonthOf[w]
ASSUME WatchedAssumption == Watched \subseteq {"sales", "ranking", "segments", "gift", "bonus"}
ASSUME LimitAssumption == DashboardLimit \in Nat \ {0} /\ MaxChanges \in Nat
ASSUME NoneAssumption == None \notin Nat /\ None \notin {"sales", "ranking", "segments", "gift", "bonus"}

VARIABLES
  reports,   \* the summaries: [id, kind, week, listed, dpt, old]
  changes,   \* uploads, deletions and releases so far
  pages      \* for each viewer the page being made: [kind, shown, seen, todo, dpt]

pagesVars == <<reports, changes, pages>>

Kinds == {"sales", "ranking", "segments", "gift", "bonus"}
Of(rs, kind) == {r \in rs : r.kind = kind}
Figure(r) == 2 ^ r.id
Sum(rs) == MapThenSumSet(Figure, rs)

Quarter(month) == month \div 3
Year(month) == month \div 12
FiscalWeekOf(w) == Cardinality({v \in 1..w : FiscalYearOf[v] = FiscalYearOf[w]})

\* order_by("fiscal_year", "fiscal_week", "id")
Precedes(r, s) == r.week < s.week \/ (r.week = s.week /\ r.id < s.id)
Position(rs, r) == Cardinality({s \in rs : Precedes(s, r)}) + 1
Sorted(rs) == [i \in 1..Cardinality(rs) |-> CHOOSE r \in rs : Position(rs, r) = i]
LastOf(seq, n) == SubSeq(seq, IF Len(seq) > n THEN Len(seq) - n + 1 ELSE 1, Len(seq))

(***************************************************************************)
(* The dashboard and the review of a week                                  *)
(***************************************************************************)
\* Mutant: the number of the week is compared, whatever its year.
Through_WeekOnly(w, target) == FiscalWeekOf(w) <= FiscalWeekOf(target)

Through(w, target) ==
  \/ FiscalYearOf[w] < FiscalYearOf[target]
  \/ FiscalYearOf[w] = FiscalYearOf[target] /\ FiscalWeekOf(w) <= FiscalWeekOf(target)

\* Nothing unless the week itself is there.
WeeklySales(rs, target) ==
  LET through == {r \in Of(rs, "sales") : Through(r.week, target)}
  IN  IF \E r \in through : r.week = target THEN LastOf(Sorted(through), DashboardLimit) ELSE <<>>

Ranking(rs, target) ==
  LastOf(Sorted({r \in Of(rs, "ranking") : Through(r.week, target)}), DashboardLimit)

\* The latest summary of the week, or none.
LatestOf(rs, kind, target) == LastOf(Sorted({r \in Of(rs, kind) : r.week = target}), 1)

Latest(rs, kind) == LastOf(Sorted(Of(rs, kind)), 1)

\* From the first week shown to the last.
Trend(sales) == IF Len(sales) < 2 THEN <<>> ELSE <<sales[1], sales[Len(sales)]>>

Dashboard(rs, target) ==
  LET weekly == WeeklySales(rs, target) IN
  [weekly |-> weekly, trend |-> Trend(weekly), ranking |-> Ranking(rs, target),
   segments |-> LatestOf(rs, "segments", target), bonus |-> LatestOf(rs, "bonus", target),
   gift |-> LatestOf(rs, "gift", target)]

\* The table of people is of the latest reports of all, whatever the week.
BonusGiftTable(rs) == <<Latest(rs, "gift"), Latest(rs, "bonus")>>

\* The review of a week, with the tables of that week or none of them.
Review(rs, target) ==
  LET page == Dashboard(rs, target) IN
  [page |-> page, table |-> IF page.weekly = <<>> THEN <<>> ELSE BonusGiftTable(rs)]

(***************************************************************************)
(* Sales by month, quarter and year                                        *)
(***************************************************************************)
\* Mutant: what has been gathered is not let go of.
FlushIf_Keeps(due, acc, part) ==
  IF ~due \/ acc[part] = <<>> THEN acc
  ELSE [acc EXCEPT !.rows = Append(@, [part |-> part, of |-> acc[part]])]

\* A summary row of what has been gathered for it.
FlushIf(due, acc, part) ==
  IF ~due \/ acc[part] = <<>> THEN acc
  ELSE [acc EXCEPT !.rows = Append(@, [part |-> part, of |-> acc[part]]), ![part] = <<>>]

\* The weeks of one calendar year, the latest.
LatestYear(sales) == {r \in sales : \A s \in sales : Year(MonthOf[s.week]) <= Year(MonthOf[r.week])}
YearEntries(sales) == Sorted(LatestYear(sales))

\* After each week's row, the month's and the quarter's when the next week is of
\* another one.
AddWeek(entries, acc, i) ==
  LET month(j) == MonthOf[entries[j].week]
      gathered == [rows |-> Append(acc.rows, [part |-> "week", of |-> <<entries[i]>>]),
                   month |-> Append(acc.month, entries[i]), quarter |-> Append(acc.quarter, entries[i])]
      last == i = Len(entries)
      months == FlushIf(last \/ month(i + 1) # month(i), gathered, "month")
  IN  FlushIf(last \/ Quarter(month(i + 1)) # Quarter(month(i)), months, "quarter")

\* And at the end the year's.
PeriodRows(sales) ==
  LET entries == YearEntries(sales)
      acc[i \in 0..Len(entries)] ==
        IF i = 0 THEN [rows |-> <<>>, month |-> <<>>, quarter |-> <<>>] ELSE AddWeek(entries, acc[i - 1], i)
  IN  IF entries = <<>> THEN <<>> ELSE Append(acc[Len(entries)].rows, [part |-> "year", of |-> entries])

InRange(rs, kind, from, to) == {r \in Of(rs, kind) : from <= r.week /\ r.week <= to}

\* date_filter: what a report page shows.  A week, a month and a quarter are
\* today's or the chosen one; the year is the latest summary's fiscal year.
Selected(rs, kind, filter, from, to) ==
  LET of == Of(rs, kind)
      latest == ToSet(Latest(rs, kind))
  IN  CASE filter = "last_week" -> latest
        [] filter = "month" -> {r \in of : MonthOf[r.week] = MonthOf[to]}
        [] filter = "quarter" -> {r \in of : Quarter(MonthOf[r.week]) = Quarter(MonthOf[to])}
        [] filter = "year" -> {r \in of : \A s \in latest : FiscalYearOf[r.week] = FiscalYearOf[s.week]}
        [] filter = "range" -> InRange(rs, kind, from, to)

YearReport(rs) == PeriodRows(Selected(rs, "sales", "year", None, None))

InPeriod(rs, kind, from, to) == {r \in Of(rs, kind) : from <= r.week /\ r.week <= to}

\* The report pages add up each person's rows: gift cards and bonus club, and
\* segments.
AssociateTotals(rs) ==
  [p \in UNION {r.listed : r \in rs} |-> Sum({r \in rs : p \in r.listed})]
SegmentTotals(rs) ==
  [p \in UNION {r.listed : r \in rs} |-> Sum({r \in rs : p \in r.listed})]

\* _find_associate_row: somebody else's row, the first, when the person has none.
FindRow(r, p) == IF p \in r.listed THEN {p} ELSE r.listed

\* The performance page takes one report for each week, the last one.
PerformanceRows(rs, p) ==
  LET found == {r \in rs : FindRow(r, p) # {}}
  IN  {r \in found : \A s \in found : s.week = r.week => s.id <= r.id}
PerformanceTotal(rs, p) == Sum(PerformanceRows(rs, p))

SegmentRangeTotal(rs, p) == Sum({r \in rs : FindRow(r, p) # {}})

\* Mutant: segments of somebody else when a report does not list the person.
PerformanceSegments_All(rs, p) == SegmentRangeTotal(rs, p)

\* Segments only of the reports that list the person.
PerformanceSegments(rs, p) == SegmentRangeTotal({r \in rs : p \in r.listed}, p)

Options(rs) == UNION {r.listed : r \in Of(rs, "gift") \cup Of(rs, "bonus")}

(***************************************************************************)
(* Uploads, and the pages that refresh what they show                      *)
(***************************************************************************)
NoPage == [kind |-> None, shown |-> {}, seen |-> {}, todo |-> <<>>, dpt |-> None]
Ids(rs) == {r.id : r \in rs}

PagesInit ==
  /\ reports = {}
  /\ changes = 0
  /\ pages = [v \in Viewers |-> NoPage]

Change ==
  /\ changes < MaxChanges
  /\ changes' = changes + 1

\* Sales and rankings list nobody.
Upload(kind, week, listed) ==
  /\ kind \in {"sales", "ranking"} => listed = {}
  /\ reports' = reports \cup {[id |-> changes, kind |-> kind, week |-> week, listed |-> listed,
                               dpt |-> None, old |-> FALSE]}
  /\ Change /\ UNCHANGED pages

Delete(r) ==
  /\ reports' = reports \ {r}
  /\ Change /\ UNCHANGED pages

\* A release with new readers: parse_version of what is stored is out of date.
\* The server starts again.
Upgrade ==
  /\ reports' = {[r EXCEPT !.old = TRUE] : r \in reports}
  /\ pages' = [v \in Viewers |-> NoPage]
  /\ Change

\* What is read again when a page shows it: the readings of an earlier release,
\* those that found nobody, and gift cards without the week's sales.
StaleSales(r) == r.old
StaleRanking(r) == r.old
StaleBonus(r) == r.old \/ r.listed = {}
StaleSegments(r) == r.old \/ r.listed = {}

\* Mutant: gift cards do not wait for the sales.
StaleGift_Never(r) == r.old \/ r.listed = {}

StaleGift(r) == r.old \/ r.listed = {} \/ r.dpt = None
Stale(r) ==
  CASE r.kind = "sales" -> StaleSales(r)
    [] r.kind = "ranking" -> StaleRanking(r)
    [] r.kind = "bonus" -> StaleBonus(r)
    [] r.kind = "segments" -> StaleSegments(r)
    [] r.kind = "gift" -> StaleGift(r)

\* A page of reports, in their order.  seen: of what has been uploaded, what
\* every page open by now has come after.
Filters == {"last_week", "month", "quarter"}
Detail(kind) == {{r} : r \in Of(reports, kind)}
Selections(kind) ==
  Detail(kind) \cup {Selected(reports, kind, "range", from, to) : from, to \in Weeks}
    \cup {Selected(reports, kind, filter, None, today) : filter \in Filters, today \in Weeks}
    \cup IF kind \in {"sales", "ranking"} THEN {Selected(reports, kind, "year", None, None)} ELSE {}

Open(v, kind) ==
  /\ pages[v] = NoPage
  /\ \E shown \in Selections(kind) \ {{}} :
     LET others == {pages[u].seen : u \in {u \in Viewers : pages[u].kind # None}} IN
     pages' = [pages EXCEPT ![v] =
       [kind |-> kind, shown |-> Ids(shown), seen |-> {i \in Ids(reports) : \A o \in others : i \in o},
        todo |-> Sorted(shown), dpt |-> None]]
  /\ UNCHANGED <<reports, changes>>

\* _gift_cards_weekly_sales_dpt: the sales of the same week, the latest upload.
SalesOf(r) == LatestOf(reports, "sales", r.week)
NextReport(v) == [pages EXCEPT ![v].todo = Tail(@), ![v].dpt = None]
Due(v) == pages[v].todo # <<>>
Current(v) == Head(pages[v].todo)

Skip(v) ==
  /\ Due(v) /\ ~Stale(Current(v))
  /\ pages' = NextReport(v)
  /\ UNCHANGED <<reports, changes>>

ReadSales(v) ==
  /\ Due(v) /\ Stale(Current(v)) /\ Current(v).kind = "gift" /\ pages[v].dpt = None
  /\ LET sales == SalesOf(Current(v)) IN
     pages' = [pages EXCEPT ![v].dpt = <<IF sales = <<>> THEN None ELSE sales[1].id>>]
  /\ UNCHANGED <<reports, changes>>

\* update_or_create; without its upload the summary cannot be created, and the
\* request ends with an error.
Store(v) ==
  /\ Due(v) /\ Stale(Current(v))
  /\ Current(v).kind = "gift" => pages[v].dpt # None
  /\ IF Current(v).id \in Ids(reports)
     THEN /\ reports' = {IF s.id # Current(v).id THEN s
                         ELSE [s EXCEPT !.old = FALSE, !.dpt = IF s.kind = "gift" THEN pages[v].dpt[1] ELSE @]
                         : s \in reports}
          /\ pages' = NextReport(v)
     ELSE /\ pages' = [pages EXCEPT ![v] = NoPage]
          /\ UNCHANGED reports
  /\ UNCHANGED changes

Close(v) ==
  /\ pages[v].kind # None /\ ~Due(v)
  /\ pages' = [pages EXCEPT ![v] = NoPage]
  /\ UNCHANGED <<reports, changes>>

PagesNext ==
  \/ \E kind \in Kinds, week \in Weeks, listed \in Lists : Upload(kind, week, listed)
  \/ \E r \in reports : Delete(r)
  \/ Upgrade
  \/ \E v \in Viewers :
       \/ \E kind \in Watched : Open(v, kind)
       \/ Skip(v) \/ ReadSales(v) \/ Store(v) \/ Close(v)

PagesSpec == PagesInit /\ [][PagesNext]_pagesVars

(***************************************************************************)
(* Properties                                                              *)
(***************************************************************************)
\* Whatever has been uploaded meanwhile, and across the end of a fiscal year,
\* the dashboard and a week's review end with the week they are for: the latest
\* weeks up to it and none after it, and the week's own figures
\* (_dashboard_weekly_sales_summaries, _dashboard_ranking_summaries).
UpTo(shown, all, target) ==
  /\ \A i \in DOMAIN shown : shown[i].week <= target /\ (i > 1 => Precedes(shown[i - 1], shown[i]))
  /\ \A r \in all \ ToSet(shown) : r.week > target \/ (shown # <<>> /\ Precedes(r, shown[1]))

DashboardWeek ==
  \A target \in Weeks :
    LET page == Dashboard(reports, target)
        sales == Of(reports, "sales")
        missing == \A r \in sales : r.week # target
    IN  /\ IF missing THEN page.weekly = <<>> ELSE UpTo(page.weekly, sales, target)
        /\ page.trend # <<>> => page.trend[2].week = target
        /\ UpTo(page.ranking, Of(reports, "ranking"), target)

\* The reports of the latest fiscal year are cut to its latest calendar year
\* (YearIsFiscal says what is lost).  Every report that remains counts once in each
\* part of the year's page: in one week's row, in one month's, in one quarter's and
\* in the year's, and the rows of a part go through the weeks in their order; a
\* month and a quarter have one row, and nothing of an earlier calendar year or
\* another fiscal year is in any (_weekly_period_report_rows).
OfLatestFiscalYear ==
  {r \in Of(reports, "sales") : \A s \in Of(reports, "sales") : FiscalYearOf[s.week] <= FiscalYearOf[r.week]}

RowsInOrder(rows, part) ==
  \A i, j \in DOMAIN rows :
    rows[i].part = part /\ rows[j].part = part =>
      \A k \in DOMAIN rows[i].of, l \in DOMAIN rows[j].of :
        i < j \/ (i = j /\ k < l) => Precedes(rows[i].of[k], rows[j].of[l])

YearAddsUp ==
  LET rows == YearReport(reports)
      entries == LatestYear(OfLatestFiscalYear)
  IN  /\ \A part \in {"week", "month", "quarter", "year"} :
           /\ UNION {ToSet(rows[i].of) : i \in {i \in DOMAIN rows : rows[i].part = part}} = entries
           /\ RowsInOrder(rows, part)
      /\ \A i, j \in DOMAIN rows : rows[i].part = rows[j].part =>
           \A r \in ToSet(rows[i].of), s \in ToSet(rows[j].of) :
             /\ rows[i].part = "month" => (i = j <=> MonthOf[r.week] = MonthOf[s.week])
             /\ rows[i].part = "quarter" => (i = j <=> Quarter(MonthOf[r.week]) = Quarter(MonthOf[s.week]))

\* The year's page gives the totals "for the selected fiscal year", as the note
\* above its table says (views.py:2155): each report of that year is in the year's
\* row.  The code leaves out those of its earlier calendar year (views.py:2720-2721).
YearIsFiscal ==
  LET rows == YearReport(reports) IN
  \A r \in OfLatestFiscalYear :
    \E i \in DOMAIN rows : rows[i].part = "year" /\ r \in ToSet(rows[i].of)

\* A person who is in every week's report has the same totals on the performance
\* page as in the reports of the same range, segments even with weeks that do not
\* list the person; gift cards and bonus club then show somebody else's row, which
\* PerformanceIsOwn is about (_performance_rows, _aggregate_associate_report_rows,
\* _segments_range_report_rows, _segments_aggregate_report_rows).
PagesAgree ==
  \A from, to \in Weeks, p \in Options(reports) :
    LET listed(rs) == \A r \in rs : p \in r.listed /\ \A s \in rs : s.week = r.week => s = r
        segments == InRange(reports, "segments", from, to)
    IN  /\ \A kind \in {"gift", "bonus"} :
             LET rs == InRange(reports, kind, from, to) IN
             rs # {} /\ listed(rs) =>
               PerformanceTotal(InPeriod(reports, kind, from, to), p) = AssociateTotals(rs)[p]
        /\ p \in DOMAIN SegmentTotals(segments) =>
             PerformanceSegments(InPeriod(reports, "segments", from, to), p) = SegmentTotals(segments)[p]

\* The performance page's table is headed with the name of the selected person
\* (templates/performance/associates.html:54): its figures are that person's.  The
\* code takes the first row of a report that does not list the person
\* (_find_associate_row, views.py:1790-1792).
PerformanceIsOwn ==
  \A from, to \in Weeks, p \in Options(reports), kind \in {"gift", "bonus"} :
    \A r \in PerformanceRows(InPeriod(reports, kind, from, to), p) : p \in r.listed

\* A page that shows a gift-card report whose week's sales are there leaves its
\* missed opportunities known, however the two were uploaded and whoever else
\* looks, unless a page opened before the sales came is still being made
\* (_refresh_gift_cards_summary_if_needed).
ViewFillsFigures ==
  \A v \in Viewers, g \in Of(reports, "gift"), s \in Of(reports, "sales") :
    /\ ~Due(v) /\ g.id \in pages[v].shown
    /\ s.week = g.week /\ s.id \in pages[v].seen
    => g.dpt # None
=============================================================================
