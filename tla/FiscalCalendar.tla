---------------------------- MODULE FiscalCalendar ----------------------------
(***************************************************************************)
(* The fiscal calendar: core/fiscal.py, FiscalYearSettings of              *)
(* core/models.py, reports/fiscal.py, and the calendars payroll and the    *)
(* dashboard derive from them.                                             *)
(*                                                                         *)
(* The calendar is a function of a day and of the one setting a user has,  *)
(* the start date of the fiscal year; only the month and day of it matter. *)
(* While no start date is set, the fiscal year ends on the boundary of     *)
(* core/fiscal.py, and the parsers use the calendar of reports/fiscal.py.  *)
(*                                                                         *)
(* A date is a year and the days gone by in it; its ordinal is Python's    *)
(* date.toordinal().                                                       *)
(***************************************************************************)
EXTENDS Integers

CONSTANTS
  FirstYear, LastYear,  \* bounds the calendar
  Starts,               \* start dates that may be set, and NoStart
  Boundary,             \* month, weekday and rule of the settings, unused once a date is set
  NoStart               \* no start date

VARIABLES
  today,  \* timezone.localdate()
  start   \* FiscalYearSettings.fiscal_year_start_date
calendarVars == <<today, start>>

(***************************************************************************)
(* The Gregorian calendar                                                  *)
(***************************************************************************)
Leap(y) == y % 4 = 0 /\ (y % 100 # 0 \/ y % 400 = 0)
LeapDay(y) == IF Leap(y) THEN 1 ELSE 0
YearLength(y) == 365 + LeapDay(y)
NewYear(y) == (365 * (y - 1)) + ((y - 1) \div 4) - ((y - 1) \div 100) + ((y - 1) \div 400) + 1

\* Days before each month, and after the last, of a common year.
Before == <<0, 31, 59, 90, 120, 151, 181, 212, 243, 273, 304, 334, 365>>
Months == 1..12
DaysBefore(m, y) == Before[m] + IF m > 2 THEN LeapDay(y) ELSE 0

Dates == {d \in [year : FirstYear..LastYear, day : 0..365] : d.day < YearLength(d.year)}
Ordinal(d) == NewYear(d.year) + d.day
\* Monday is 0.
Weekday(o) == (o + 6) % 7
Saturday == 5

\* d - timedelta(days=n), for at most a year.
Back(d, n) ==
  IF d.day >= n THEN [d EXCEPT !.day = @ - n]
  ELSE [year |-> d.year - 1, day |-> d.day - n + YearLength(d.year - 1)]

\* Month and day of a date that recurs; the 29th of February does so on the 28th.
StartDates == {s \in [month : Months, day : 1..31] : s.day <= Before[s.month + 1] - Before[s.month] + IF s.month = 2 THEN 1 ELSE 0}
Anniversary(s, y) ==
  NewYear(y) + DaysBefore(s.month, y) + s.day - 1 - IF s.month = 2 /\ s.day = 29 THEN 1 - LeapDay(y) ELSE 0

\* A boundary that stays in the calendar year it is computed for.
Boundaries == [month : Months, weekday : 0..6, rule : {"first", "last", "nearest"}]
\* Python's first year is 1, and the code looks back by two.
ASSUME YearAssumption == FirstYear \in Nat /\ FirstYear > 2 /\ LastYear \in Nat /\ FirstYear <= LastYear
ASSUME StartAssumption == Starts \subseteq StartDates \cup {NoStart} /\ NoStart \notin StartDates
ASSUME BoundaryAssumption ==
  Boundary \in Boundaries /\ (Boundary.rule = "nearest" => Boundary.month # 12)

(***************************************************************************)
(* Without a start date: core/fiscal.py                                    *)
(***************************************************************************)
FirstOnOrAfter(o, weekday) == o + ((weekday - Weekday(o)) % 7)
LastOnOrBefore(o, weekday) == o - ((Weekday(o) - weekday) % 7)
NearestTo(o, weekday) ==
  LET before == LastOnOrBefore(o, weekday)
      after == FirstOnOrAfter(o, weekday)
  IN IF o - before <= after - o THEN before ELSE after

MonthEnd(y, m) == NewYear(y) + DaysBefore(m + 1, y) - 1
BoundaryDate(y) ==
  CASE Boundary.rule = "first" -> FirstOnOrAfter(NewYear(y) + DaysBefore(Boundary.month, y), Boundary.weekday)
    [] Boundary.rule = "last" -> LastOnOrBefore(MonthEnd(y, Boundary.month), Boundary.weekday)
    [] OTHER -> NearestTo(MonthEnd(y, Boundary.month), Boundary.weekday)

\* Mutant: the boundary is the first day of the next year.
BoundaryYear_Before(d) == IF Ordinal(d) < BoundaryDate(d.year) THEN d.year ELSE d.year + 1

\* A fiscal year has the name of the year it ends in.
BoundaryYear(d) == IF Ordinal(d) <= BoundaryDate(d.year) THEN d.year ELSE d.year + 1
BoundaryWeek(d) == (Ordinal(d) - (BoundaryDate(BoundaryYear(d) - 1) + 1)) \div 7 + 1

(***************************************************************************)
(* With a start date: FiscalYearSettings                                   *)
(***************************************************************************)
AtLeastOne(n) == IF n < 1 THEN 1 ELSE n

\* A fiscal year has the name of the year it starts in.
AnniversaryYear(s, d) == IF Ordinal(d) >= Anniversary(s, d.year) THEN d.year ELSE d.year - 1

\* Mutant: fiscal years of 52 weeks are counted off from the latest one that
\* began in this calendar year.
AnniversaryWeek_52(s, d) == AtLeastOne(((Ordinal(d) - Anniversary(s, d.year)) % 364) \div 7 + 1)

AnniversaryWeek(s, d) == AtLeastOne((Ordinal(d) - Anniversary(s, AnniversaryYear(s, d))) \div 7 + 1)

FiscalYear(d) == IF start = NoStart THEN BoundaryYear(d) ELSE AnniversaryYear(start, d)
FiscalWeek(d) == IF start = NoStart THEN BoundaryWeek(d) ELSE AnniversaryWeek(start, d)
FiscalStart(fy) == IF start = NoStart THEN BoundaryDate(fy - 1) + 1 ELSE Anniversary(start, fy)

(***************************************************************************)
(* What the parsers use: calculate_fiscal_week of reports/fiscal.py        *)
(***************************************************************************)
\* Mutant: the first week ends after the first day, never on it.
FirstWeekEnding_After(first) == FirstOnOrAfter(first + 1, Saturday)

FirstWeekEnding(first) == FirstOnOrAfter(first, Saturday)
CalculatedWeek(s, d) ==
  AtLeastOne((Ordinal(d) - FirstWeekEnding(Anniversary(s, AnniversaryYear(s, d)))) \div 7 + 1)

(***************************************************************************)
(* Payroll's 4-5-4 weeks                                                   *)
(***************************************************************************)
\* Mutant: weeks begin on the Sunday after the start date.
PayrollStart_Following(fy) == FirstOnOrAfter(FiscalStart(fy), 6)

\* The Sunday on or before the start date.
PayrollStart(fy) ==
  IF start = NoStart THEN FiscalStart(fy)
  ELSE FiscalStart(fy) - ((Weekday(FiscalStart(fy)) + 1) % 7)
WeekEnding(fy, week) == PayrollStart(fy) + 7 * week - 1

\* Twelve months of 4, 5 and 4 weeks.
FirstWeek(month) == (13 * ((month - 1) \div 3)) + <<1, 5, 10>>[((month - 1) % 3) + 1]
Layout(month) == FirstWeek(month)..(FirstWeek(month + 1) - 1)

\* Mutant: weeks are counted from the start date, not from payroll's Sunday.
WeekShown_Fiscal(d) ==
  LET week == (Ordinal(d) - FiscalStart(FiscalYear(d))) \div 7 + 1
  IN AtLeastOne(IF week > 52 THEN 52 ELSE week)

WeekShown(d) ==
  LET week == (Ordinal(d) - PayrollStart(FiscalYear(d))) \div 7 + 1
  IN AtLeastOne(IF week > 52 THEN 52 ELSE week)
CurrentMonth(d) == CHOOSE m \in Months : WeekShown(d) \in Layout(m)

(***************************************************************************)
(* The week a dashboard is about: _dashboard_target_period                 *)
(***************************************************************************)
\* Mutant: the week of yesterday.
TargetAnchor_Yesterday(d) == Back(d, 1)

TargetAnchor(d) == Back(d, 7)
TargetYear(d) == FiscalYear(TargetAnchor(d))
TargetWeek(d) == FiscalWeek(TargetAnchor(d))
PeriodStart(d) == FiscalStart(TargetYear(d)) + 7 * (TargetWeek(d) - 1)
PeriodEnd(d) == PeriodStart(d) + 6

(***************************************************************************)
(* Days pass, and the settings are saved                                   *)
(***************************************************************************)
CalendarInit == today = [year |-> FirstYear, day |-> 0] /\ start \in Starts

NextDay ==
  /\ IF today.day + 1 < YearLength(today.year) THEN today' = [today EXCEPT !.day = @ + 1]
     ELSE today.year < LastYear /\ today' = [year |-> today.year + 1, day |-> 0]
  /\ UNCHANGED start

SaveFiscalSettings == start' \in Starts \ {start} /\ UNCHANGED today

CalendarNext == NextDay \/ SaveFiscalSettings
CalendarSpec == CalendarInit /\ [][CalendarNext]_calendarVars

(***************************************************************************)
(* Properties                                                              *)
(***************************************************************************)
CalendarTypeOK == today \in Dates /\ start \in Starts

\* Weeks are numbered from 1 to 53, whatever the start date, the boundary and
\* the leap years: no day falls before the first week or is left over
\* (fiscal_week_for_date).
WeeksNumbered == FiscalWeek(today) \in 1..53

\* From one day to the next the week stays, or is followed by the next one or
\* by the first one of the next year: none is skipped, repeated or cut off
\* before its seven days are over, but for the last one (_start_and_week_for_date).
WeeksAdvance ==
  [][NextDay =>
       LET y == FiscalYear(today)   w == FiscalWeek(today)
           z == FiscalYear(today')  v == FiscalWeek(today')
       IN \/ z = y /\ v = w
          \/ z = y /\ v = w + 1 /\ (Ordinal(today') - FiscalStart(y)) % 7 = 0
          \/ z = y + 1 /\ v = 1 /\ Ordinal(today') = FiscalStart(z)]_calendarVars

\* A payroll week ends in the fiscal week of the same number, although payroll
\* weeks begin on Sundays and fiscal weeks on any day (payroll_week_ending
\* against fiscal_week_for_date).
PayrollAgrees ==
  \A week \in 1..52 : WeekEnding(FiscalYear(today), week) = Ordinal(today) => FiscalWeek(today) = week

HasDay(fy, month, o) ==
  \E week \in Layout(month) : o \in (WeekEnding(fy, week) - 6)..WeekEnding(fy, week)

\* The month payroll and parties open with has today in one of its weeks, unless no
\* month has, of this fiscal year or the next (a 53rd payroll week), or the next
\* one's first payroll week has begun before its fiscal year (current_payroll_month).
PayrollShowsToday ==
  LET fy == FiscalYear(today)  o == Ordinal(today) IN
  \/ HasDay(fy, CurrentMonth(today), o)
  \/ \A y \in {fy, fy + 1}, month \in Months : ~HasDay(y, month, o)
  \/ o \in PayrollStart(fy + 1)..(FiscalStart(fy + 1) - 1)

\* "the configured 4-5-4 fiscal month containing today" (payroll_views.py:71): of
\* the months there are, whichever year's, payroll opens with the one that has today.
OpensTodaysMonth ==
  LET fy == FiscalYear(today) IN
  \A y \in {fy, fy + 1}, month \in Months :
    HasDay(y, month, Ordinal(today)) => y = fy /\ month = CurrentMonth(today)

\* The week a dashboard is about ended within the last seven days, and it lies
\* in its fiscal year unless it is a week 53 (_dashboard_target_period).
TargetJustCompleted ==
  /\ PeriodEnd(today) \in (Ordinal(today) - 7)..(Ordinal(today) - 1)
  /\ PeriodEnd(today) >= FiscalStart(TargetYear(today) + 1) => TargetWeek(today) = 53

\* On the days reports end, both ways to count weeks from a start date agree
\* (calculate_fiscal_week against FiscalYearSettings).
CalculatorAgrees ==
  start # NoStart /\ Weekday(Ordinal(today)) = Saturday => CalculatedWeek(start, today) = FiscalWeek(today)
=============================================================================
