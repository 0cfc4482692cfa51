---------------------------- MODULE MCReportPages ----------------------------
(***************************************************************************)
(* Instances for TLC of FiscalCalendar and of ReportPages, whose reports   *)
(* are of its weeks.  They have no state in common, so each behaviour is   *)
(* one of one of them, and a run says which; pages are made either from    *)
(* what is stored, or while they refresh it.                               *)
(***************************************************************************)
EXTENDS FiscalCalendar, ReportPages

CONSTANTS
  Parts,  \* of {"calendar", "totals", "views"}
  p1, p2, v1, v2

VARIABLE part

(***************************************************************************)
(* FiscalCalendar                                                          *)
(***************************************************************************)
\* The start dates where something happens: none, both ends of the calendar year,
\* and the end of February.
OnThe(m, d) == [month |-> m, day |-> d]
EdgeStarts == {NoStart, OnThe(1, 1), OnThe(2, 1), OnThe(2, 28), OnThe(2, 29), OnThe(3, 1), OnThe(12, 31)}

\* The defaults of the model fields.
DefaultBoundary == [month |-> 1, weekday |-> Saturday, rule |-> "nearest"]

(***************************************************************************)
(* ReportPages                                                             *)
(***************************************************************************)
\* Four weeks, each standing for the weeks of its month, November, December, January
\* and April.  The second fiscal year has weeks of two calendar years, and those of
\* the later one lie in two months and two quarters.
FourWeeks == 1..4
MonthOfWeek == <<24 + 10, 24 + 11, 36, 36 + 3>>
FiscalYearOfWeek == <<2, 3, 3, 3>>
\* A report that lists nobody, one person, or both.
SomeLists == {{}, {p1}, {p1, p2}}

TwoViewers == {v1, v2}
Symmetry == Permutations(TwoViewers)
\* All but gift cards are refreshed alike.
GiftAndRanking == {"gift", "ranking"}
\* For pages that refresh reports three weeks are enough, and a gift-card report that
\* lists nobody in one of them.
Refreshable(r) ==
  /\ r.week < 4
  /\ \/ r.kind \in {"sales", "ranking"}
     \/ r.kind = "gift" /\ r.listed = {p1}
     \/ r.kind = "gift" /\ r.listed = {} /\ r.week = 1

Init ==
  /\ part \in Parts
  /\ CalendarInit /\ (part = "calendar" \/ start = NoStart)
  /\ PagesInit

Next ==
  /\ UNCHANGED part
  /\ \/ part = "calendar" /\ CalendarNext /\ UNCHANGED pagesVars
     \/ part = "totals" /\ PagesNext /\ UNCHANGED <<pages, calendarVars>>
     \/ part = "views" /\ PagesNext /\ (\A r \in reports' : Refreshable(r)) /\ UNCHANGED calendarVars

Spec == Init /\ [][Next]_<<part, calendarVars, pagesVars>>
=============================================================================
