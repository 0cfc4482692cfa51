--------------------------- MODULE Entries_proofs ---------------------------
(***************************************************************************)
(* The fiscal calendar, and what people enter and write over: theorems of  *)
(* FiscalCalendar, MonthSaves, PartiesImports, Reviews and ScheduleStatus. *)
(* They have no state in common; each part stands by itself.               *)
(***************************************************************************)
EXTENDS FiscalCalendar, MonthSaves, PartiesImports, Reviews, ScheduleStatus,
  FiniteSetTheorems, SequenceTheorems, WellFoundedInduction, TLAPS

(***************************************************************************)
(* FiscalCalendar: every start date, every boundary that stays in its      *)
(* calendar year, and any years.                                           *)
(*                                                                         *)
(* Everything rests on Bracket: whichever way the calendar is configured,  *)
(* a day lies between the start of its fiscal year and the start of the    *)
(* next one, and those are 364 to 371 days apart.                          *)
(***************************************************************************)

\* The days of any year, those before FirstYear included.
Days == {d \in [year : Int, day : 0..365] : d.day < YearLength(d.year)}

(***************************************************************************)
(* The Gregorian calendar                                                  *)
(***************************************************************************)
LEMMA LeapDayRange == \A y \in Int : LeapDay(y) \in {0, 1}
BY DEF LeapDay

LEMMA NewYearType == \A y \in Int : NewYear(y) \in Int
BY DEF NewYear

\* One more year, one more leap day where the year is a leap year.
LEMMA YearsAdvance == \A y \in Int : NewYear(y + 1) = NewYear(y) + YearLength(y)
<1> SUFFICES ASSUME NEW y \in Int PROVE NewYear(y + 1) = NewYear(y) + YearLength(y)
  OBVIOUS
<1>1. y \div 4 = ((y - 1) \div 4) + IF y % 4 = 0 THEN 1 ELSE 0
  OBVIOUS
<1>2. y \div 100 = ((y - 1) \div 100) + IF y % 100 = 0 THEN 1 ELSE 0
  OBVIOUS
<1>3. y \div 400 = ((y - 1) \div 400) + IF y % 400 = 0 THEN 1 ELSE 0
  OBVIOUS
<1>4. (y % 100 = 0 => y % 4 = 0) /\ (y % 400 = 0 => y % 100 = 0)
  OBVIOUS
<1> QED
  BY <1>1, <1>2, <1>3, <1>4 DEF NewYear, YearLength, LeapDay, Leap

LEMMA WeekdayRange == \A o \in Int : Weekday(o) \in 0..6
BY DEF Weekday

\* A date before the end of February keeps its place in the year, a later one
\* moves with the leap day.
LEMMA PlaceInYear ==
  ASSUME NEW s \in StartDates
  PROVE \E c \in 0..364 :
          \/ \A y \in Int : Anniversary(s, y) = NewYear(y) + c
          \/ \A y \in Int : Anniversary(s, y) = NewYear(y) + c + LeapDay(y)
<1>1. s.month \in Months /\ s.day \in 1..31
  BY DEF StartDates
<1>2. s.day <= Before[s.month + 1] - Before[s.month] + IF s.month = 2 THEN 1 ELSE 0
  BY DEF StartDates
<1> DEFINE c == Before[s.month] + s.day - 1
<1>3. Before[s.month] \in 0..334 /\ Before[s.month + 1] \in 31..365
  BY <1>1 DEF Before, Months
<1>4. CASE s.month = 2 /\ s.day = 29
  <2>1. \A y \in Int : Anniversary(s, y) = NewYear(y) + 58 + LeapDay(y)
    BY <1>4, NewYearType, LeapDayRange DEF Anniversary, DaysBefore, Before
  <2> QED
    BY <2>1
<1>5. CASE ~(s.month = 2 /\ s.day = 29)
  <2>1. c \in 0..364
    BY <1>1, <1>2, <1>3, <1>5 DEF Before, Months
  <2>2. CASE s.month <= 2
    <3>1. \A y \in Int : Anniversary(s, y) = NewYear(y) + c
      <4> SUFFICES ASSUME NEW y \in Int PROVE Anniversary(s, y) = NewYear(y) + c
        OBVIOUS
      <4>1. NewYear(y) \in Int /\ LeapDay(y) \in Int
        BY NewYearType, LeapDayRange
      <4>2. DaysBefore(s.month, y) = Before[s.month]
        BY <1>1, <1>3, <4>1, <2>2 DEF DaysBefore, Months
      <4>3. Anniversary(s, y) = NewYear(y) + DaysBefore(s.month, y) + s.day - 1
        BY <1>1, <1>3, <1>5, <4>1, <4>2 DEF Anniversary
      <4>4. Before[s.month] \in Int /\ s.day \in Int
        BY <1>1, <1>3
      <4> QED
        BY <4>1, <4>2, <4>3, <4>4
    <3> QED
      BY <2>1, <3>1
  <2>3. CASE s.month > 2
    <3>1. \A y \in Int : Anniversary(s, y) = NewYear(y) + c + LeapDay(y)
      <4> SUFFICES ASSUME NEW y \in Int PROVE Anniversary(s, y) = NewYear(y) + c + LeapDay(y)
        OBVIOUS
      <4>1. NewYear(y) \in Int /\ LeapDay(y) \in Int
        BY NewYearType, LeapDayRange
      <4>2. DaysBefore(s.month, y) = Before[s.month] + LeapDay(y)
        BY <1>1, <1>3, <4>1, <2>3 DEF DaysBefore, Months
      <4>3. Anniversary(s, y) = NewYear(y) + DaysBefore(s.month, y) + s.day - 1
        BY <1>1, <1>3, <1>5, <4>1, <4>2 DEF Anniversary
      <4>4. Before[s.month] \in Int /\ s.day \in Int
        BY <1>1, <1>3
      <4> QED
        BY <4>1, <4>2, <4>3, <4>4
    <3> QED
      BY <2>1, <3>1
  <2> QED
    BY <1>1, <2>2, <2>3 DEF Months
<1> QED
  BY <1>4, <1>5

\* (A next year z, rather than y + 1, keeps the provers from running through the years.)
LEMMA Anniversaries ==
  ASSUME NEW s \in StartDates, NEW y \in Int, NEW z \in Int, z = y + 1
  PROVE /\ Anniversary(s, y) \in Int
        /\ Anniversary(s, y) >= NewYear(y)
        /\ Anniversary(s, y) < NewYear(z)
        /\ Anniversary(s, z) - Anniversary(s, y) \in {365, 366}
<1>1. PICK c \in 0..364 :
        \/ \A x \in Int : Anniversary(s, x) = NewYear(x) + c
        \/ \A x \in Int : Anniversary(s, x) = NewYear(x) + c + LeapDay(x)
  BY PlaceInYear
<1>2. NewYear(y) \in Int /\ LeapDay(y) \in {0, 1} /\ LeapDay(z) \in {0, 1}
  BY NewYearType, LeapDayRange
<1>3. NewYear(z) = NewYear(y) + 365 + LeapDay(y)
  BY <1>2, YearsAdvance DEF YearLength
<1>4. CASE \A x \in Int : Anniversary(s, x) = NewYear(x) + c
  BY <1>2, <1>3, <1>4
<1>5. CASE \A x \in Int : Anniversary(s, x) = NewYear(x) + c + LeapDay(x)
  BY <1>2, <1>3, <1>5
<1> QED
  BY <1>1, <1>4, <1>5

(***************************************************************************)
(* The boundary, which is on the same weekday every year                   *)
(***************************************************************************)
LEMMA OnOrAfter ==
  ASSUME NEW o \in Int, NEW w \in Int, w \in 0..6
  PROVE FirstOnOrAfter(o, w) \in o..(o + 6) /\ Weekday(FirstOnOrAfter(o, w)) = w
BY DEF FirstOnOrAfter, Weekday

LEMMA OnOrBefore ==
  ASSUME NEW o \in Int, NEW w \in Int, w \in 0..6
  PROVE LastOnOrBefore(o, w) \in (o - 6)..o /\ Weekday(LastOnOrBefore(o, w)) = w
BY DEF LastOnOrBefore, Weekday

LEMMA Nearest ==
  ASSUME NEW o \in Int, NEW w \in Int, w \in 0..6
  PROVE NearestTo(o, w) \in (o - 3)..(o + 3) /\ Weekday(NearestTo(o, w)) = w
BY DEF NearestTo, FirstOnOrAfter, LastOnOrBefore, Weekday

\* Where a month begins, or, for 13, the year ends.
Place(m, y) == NewYear(y) + DaysBefore(m, y)

LEMMA DaysBeforeType == \A m, y \in Int : m \in 1..13 => DaysBefore(m, y) \in Int
BY LeapDayRange DEF DaysBefore, Before

LEMMA MonthPlace ==
  ASSUME NEW m \in Int, m \in 1..13, NEW y \in Int, NEW z \in Int, z = y + 1
  PROVE /\ Place(m, y) \in Int
        /\ Place(m, z) - Place(m, y) \in {365, 366}
        /\ Place(m, y) >= NewYear(y)
        /\ Place(m, y) <= NewYear(z)
        /\ m > 1 => Place(m, y) >= NewYear(y) + 31
        /\ m <= 12 => Place(m, y) <= NewYear(z) - 31
<1>1. /\ Before[m] \in 0..365
      /\ m > 1 => Before[m] >= 31
      /\ m <= 12 => Before[m] <= 334
      /\ m <= 2 => Before[m] <= 31
  BY DEF Before
<1>2. NewYear(y) \in Int /\ LeapDay(y) \in {0, 1} /\ LeapDay(z) \in {0, 1}
  BY NewYearType, LeapDayRange
<1>3. NewYear(z) = NewYear(y) + 365 + LeapDay(y)
  BY <1>2, YearsAdvance DEF YearLength
<1>4. CASE m <= 2
  <2>1. DaysBefore(m, y) = Before[m] /\ DaysBefore(m, z) = Before[m]
    BY <1>1, <1>4 DEF DaysBefore
  <2> QED
    BY <1>1, <1>2, <1>3, <1>4, <2>1 DEF Place
<1>5. CASE m > 2
  <2>1. DaysBefore(m, y) = Before[m] + LeapDay(y) /\ DaysBefore(m, z) = Before[m] + LeapDay(z)
    BY <1>1, <1>5 DEF DaysBefore
  <2> QED
    BY <1>1, <1>2, <1>3, <1>5, <2>1 DEF Place
<1> QED
  BY <1>4, <1>5

LEMMA PlaceType == \A m, y \in Int : m \in 1..13 => Place(m, y) \in Int
BY NewYearType, DaysBeforeType DEF Place

LEMMA MonthEndPlace ==
  ASSUME NEW m \in Int, m \in 1..12, NEW y \in Int, NEW z \in Int, z = y + 1
  PROVE /\ MonthEnd(y, m) \in Int
        /\ MonthEnd(z, m) - MonthEnd(y, m) \in {365, 366}
        /\ MonthEnd(y, m) >= NewYear(y) + 30
        /\ MonthEnd(y, m) < NewYear(z)
        /\ m < 12 => MonthEnd(y, m) <= NewYear(z) - 32
<1>1. PICK n \in Int : n = m + 1 /\ n \in 1..13
  OBVIOUS
<1>2. NewYear(y) \in Int /\ NewYear(z) \in Int
  BY NewYearType
<1>3. /\ Place(n, y) \in Int /\ Place(n, z) \in Int
      /\ Place(n, z) - Place(n, y) \in {365, 366}
      /\ Place(n, y) <= NewYear(z)
      /\ n > 1 => Place(n, y) >= NewYear(y) + 31
      /\ n <= 12 => Place(n, y) <= NewYear(z) - 31
  BY <1>1, PlaceType, MonthPlace
<1>4. DaysBefore(n, y) \in Int /\ DaysBefore(n, z) \in Int
  BY <1>1, DaysBeforeType
<1>5. MonthEnd(y, m) = Place(n, y) - 1
  BY <1>1, <1>2, <1>4 DEF MonthEnd, Place
<1>6. MonthEnd(z, m) = Place(n, z) - 1
  BY <1>1, <1>2, <1>4 DEF MonthEnd, Place
<1> QED
  BY <1>1, <1>2, <1>3, <1>5, <1>6

LEMMA SameWeekday ==
  ASSUME NEW a \in Int, NEW b \in Int, Weekday(a) = Weekday(b), b - a \in 359..372
  PROVE b - a \in {364, 371}
BY DEF Weekday

\* A weekday near a place that moves by 365 or 366 days moves by 52 or 53 weeks.
LEMMA BoundaryDates ==
  ASSUME NEW y \in Int, NEW z \in Int, z = y + 1
  PROVE /\ BoundaryDate(y) \in Int
        /\ BoundaryDate(y) >= NewYear(y)
        /\ BoundaryDate(y) < NewYear(z)
        /\ Weekday(BoundaryDate(y)) = Boundary.weekday
        /\ BoundaryDate(z) - BoundaryDate(y) \in {364, 371}
<1> DEFINE m == Boundary.month
           w == Boundary.weekday
           p == Place(m, y)
           q == Place(m, z)
           e == MonthEnd(y, m)
           f == MonthEnd(z, m)
<1>1. /\ m \in 1..12 /\ w \in 0..6 /\ m + 1 \in 1..13
      /\ Boundary.rule \in {"first", "last", "nearest"}
      /\ Boundary.rule = "nearest" => m < 12
  BY BoundaryAssumption DEF Boundaries, Months
<1> HIDE DEF m, w
<1>2. NewYear(y) \in Int /\ NewYear(z) \in Int
  BY NewYearType
<1>3. /\ p \in Int /\ q \in Int /\ q - p \in {365, 366}
      /\ p >= NewYear(y) /\ p <= NewYear(z) - 31
  <2>1. m \in 1..13 /\ m <= 12
    BY <1>1
  <2> QED
    BY <1>2, <2>1, MonthPlace
<1>4. /\ e \in Int /\ f \in Int /\ f - e \in {365, 366}
      /\ e >= NewYear(y) + 30 /\ e < NewYear(z)
      /\ m < 12 => e <= NewYear(z) - 32
  <2>1. f \in Int
    BY <1>1, <1>2, MonthEndPlace
  <2>2. /\ e \in Int /\ f - e \in {365, 366}
        /\ e >= NewYear(y) + 30 /\ e < NewYear(z)
        /\ m < 12 => e <= NewYear(z) - 32
    BY <1>1, MonthEndPlace
  <2> QED
    BY <2>1, <2>2
<1> HIDE DEF p, q, e, f
<1>5. CASE Boundary.rule = "first"
  <2>1. BoundaryDate(y) = FirstOnOrAfter(p, w) /\ BoundaryDate(z) = FirstOnOrAfter(q, w)
    BY <1>5 DEF BoundaryDate, Place, p, q, m, w
  <2>2. /\ BoundaryDate(y) \in p..(p + 6) /\ BoundaryDate(z) \in q..(q + 6)
        /\ Weekday(BoundaryDate(y)) = w /\ Weekday(BoundaryDate(z)) = w
    <3>1. FirstOnOrAfter(p, w) \in p..(p + 6) /\ Weekday(FirstOnOrAfter(p, w)) = w
      BY <1>1, <1>3, OnOrAfter
    <3>2. FirstOnOrAfter(q, w) \in q..(q + 6) /\ Weekday(FirstOnOrAfter(q, w)) = w
      BY <1>1, <1>3, OnOrAfter
    <3> QED
      BY <2>1, <3>1, <3>2
  <2>3. /\ BoundaryDate(y) \in Int /\ BoundaryDate(z) \in Int
        /\ BoundaryDate(z) - BoundaryDate(y) \in 359..372
        /\ BoundaryDate(y) >= NewYear(y) /\ BoundaryDate(y) < NewYear(z)
    BY <1>2, <1>3, <2>2
  <2> QED
    BY <2>2, <2>3, SameWeekday DEF w
<1>6. CASE Boundary.rule = "last"
  <2>1. BoundaryDate(y) = LastOnOrBefore(e, w) /\ BoundaryDate(z) = LastOnOrBefore(f, w)
    BY <1>6 DEF BoundaryDate, e, f, m, w
  <2>2. /\ BoundaryDate(y) \in (e - 6)..e /\ BoundaryDate(z) \in (f - 6)..f
        /\ Weekday(BoundaryDate(y)) = w /\ Weekday(BoundaryDate(z)) = w
    <3>1. LastOnOrBefore(e, w) \in (e - 6)..e /\ Weekday(LastOnOrBefore(e, w)) = w
      BY <1>1, <1>4, OnOrBefore
    <3>2. LastOnOrBefore(f, w) \in (f - 6)..f /\ Weekday(LastOnOrBefore(f, w)) = w
      BY <1>1, <1>4, OnOrBefore
    <3> QED
      BY <2>1, <3>1, <3>2
  <2>3. /\ BoundaryDate(y) \in Int /\ BoundaryDate(z) \in Int
        /\ BoundaryDate(z) - BoundaryDate(y) \in 359..372
        /\ BoundaryDate(y) >= NewYear(y) /\ BoundaryDate(y) < NewYear(z)
    BY <1>2, <1>4, <2>2
  <2> QED
    BY <2>2, <2>3, SameWeekday DEF w
<1>7. CASE Boundary.rule = "nearest"
  <2>1. BoundaryDate(y) = NearestTo(e, w) /\ BoundaryDate(z) = NearestTo(f, w)
    BY <1>7 DEF BoundaryDate, e, f, m, w
  <2>2. /\ BoundaryDate(y) \in (e - 3)..(e + 3) /\ BoundaryDate(z) \in (f - 3)..(f + 3)
        /\ Weekday(BoundaryDate(y)) = w /\ Weekday(BoundaryDate(z)) = w
    <3>1. NearestTo(e, w) \in (e - 3)..(e + 3) /\ Weekday(NearestTo(e, w)) = w
      BY <1>1, <1>4, Nearest
    <3>2. NearestTo(f, w) \in (f - 3)..(f + 3) /\ Weekday(NearestTo(f, w)) = w
      BY <1>1, <1>4, Nearest
    <3> QED
      BY <2>1, <3>1, <3>2
  <2>3. /\ BoundaryDate(y) \in Int /\ BoundaryDate(z) \in Int
        /\ BoundaryDate(z) - BoundaryDate(y) \in 359..372
        /\ BoundaryDate(y) >= NewYear(y) /\ BoundaryDate(y) < NewYear(z)
    BY <1>1, <1>2, <1>4, <1>7, <2>2
  <2> QED
    BY <2>2, <2>3, SameWeekday DEF w
<1> QED
  BY <1>1, <1>5, <1>6, <1>7

(***************************************************************************)
(* Fiscal years, whichever way they are configured                         *)
(***************************************************************************)
LEMMA FiscalStarts ==
  ASSUME start \in StartDates \cup {NoStart}, NEW y \in Int, NEW z \in Int, z = y + 1
  PROVE FiscalStart(y) \in Int /\ FiscalStart(z) - FiscalStart(y) \in {364, 365, 366, 371}
<1>1. CASE start = NoStart
  <2>1. PICK x \in Int : x = y - 1 /\ z - 1 = y /\ y = x + 1
    OBVIOUS
  <2>2. BoundaryDate(x) \in Int /\ BoundaryDate(y) - BoundaryDate(x) \in {364, 371}
    BY <2>1, BoundaryDates
  <2>3. BoundaryDate(y) \in Int
    BY BoundaryDates
  <2>4. FiscalStart(y) = BoundaryDate(x) + 1 /\ FiscalStart(z) = BoundaryDate(y) + 1
    BY <1>1, <2>1 DEF FiscalStart
  <2> QED
    BY <2>2, <2>3, <2>4
<1>2. CASE start # NoStart
  <2>1. start \in StartDates
    BY <1>2
  <2>2. Anniversary(start, y) \in Int /\ Anniversary(start, z) - Anniversary(start, y) \in {365, 366}
    BY <2>1, Anniversaries
  <2> QED
    BY <1>2, <2>2 DEF FiscalStart
<1> QED
  BY <1>1, <1>2

LEMMA DayInYear ==
  ASSUME NEW d \in Days, NEW z \in Int, z = d.year + 1
  PROVE /\ d.year \in Int /\ Ordinal(d) \in Int
        /\ NewYear(d.year) <= Ordinal(d) /\ Ordinal(d) < NewYear(z)
<1>1. d.year \in Int /\ d.day \in 0..365 /\ d.day < YearLength(d.year)
  BY DEF Days
<1>2. NewYear(d.year) \in Int /\ NewYear(z) = NewYear(d.year) + YearLength(d.year)
  BY <1>1, NewYearType, YearsAdvance
<1>3. YearLength(d.year) \in Int
  BY <1>1, LeapDayRange DEF YearLength
<1> QED
  BY <1>1, <1>2, <1>3 DEF Ordinal

LEMMA WeekOfYear ==
  ASSUME NEW o \in Int, NEW a \in Int, a <= o
  PROVE AtLeastOne((o - a) \div 7 + 1) = (o - a) \div 7 + 1
BY DEF AtLeastOne

\* Where a day is in its fiscal year.
InYear(d, fy, next) ==
  /\ FiscalYear(d) = fy
  /\ FiscalStart(fy) \in Int /\ FiscalStart(next) \in Int
  /\ FiscalStart(fy) <= Ordinal(d) /\ Ordinal(d) < FiscalStart(next)
  /\ FiscalWeek(d) = (Ordinal(d) - FiscalStart(fy)) \div 7 + 1

LEMMA Bracket ==
  ASSUME start \in StartDates \cup {NoStart}, NEW d \in Days
  PROVE \E fy, next \in Int :
          next = fy + 1 /\ fy \in (d.year - 1)..(d.year + 1) /\ InYear(d, fy, next)
<1> DEFINE o == Ordinal(d)
<1>1. PICK x, y, z, u \in Int : y = d.year /\ x = y - 1 /\ z = y + 1 /\ u = z + 1 /\ y = x + 1
  BY DEF Days
<1>2. o \in Int /\ NewYear(y) <= o /\ o < NewYear(z)
  BY <1>1, DayInYear
<1>3. NewYear(y) \in Int /\ NewYear(z) \in Int
  BY NewYearType
<1>4. /\ FiscalStart(x) \in Int /\ FiscalStart(y) \in Int
      /\ FiscalStart(z) \in Int /\ FiscalStart(u) \in Int
  <2>1. \A v \in Int : FiscalStart(v) \in Int
    <3> TAKE v \in Int
    <3>1. v + 1 \in Int
      OBVIOUS
    <3> QED
      BY <3>1, FiscalStarts
  <2> QED
    BY <2>1
<1> HIDE DEF o
<1>5. /\ x \in (d.year - 1)..(d.year + 1)
      /\ y \in (d.year - 1)..(d.year + 1)
      /\ z \in (d.year - 1)..(d.year + 1)
  BY <1>1
<1>6. CASE start = NoStart
  <2>1. /\ BoundaryDate(x) \in Int /\ BoundaryDate(y) \in Int /\ BoundaryDate(z) \in Int
        /\ BoundaryDate(x) < NewYear(y) /\ BoundaryDate(z) >= NewYear(z)
    BY <1>1, BoundaryDates
  <2>2. /\ FiscalStart(y) = BoundaryDate(x) + 1
        /\ FiscalStart(z) = BoundaryDate(y) + 1
        /\ FiscalStart(u) = BoundaryDate(z) + 1
    BY <1>1, <1>6, y = z - 1, z = u - 1 DEF FiscalStart
  <2>3. \A v \in Int : FiscalYear(d) = v => FiscalWeek(d) = (o - FiscalStart(v)) \div 7 + 1
    BY <1>6 DEF FiscalYear, FiscalWeek, FiscalStart, BoundaryWeek, o
  <2>4. CASE o <= BoundaryDate(y)
    <3>1. FiscalYear(d) = y
      BY <1>1, <1>6, <2>4 DEF FiscalYear, BoundaryYear, o
    <3>2. FiscalStart(y) <= o /\ o < FiscalStart(z)
      BY <1>2, <1>3, <2>1, <2>2, <2>4
    <3>3. InYear(d, y, z)
      BY <1>1, <1>4, <2>3, <3>1, <3>2 DEF InYear, o
    <3> QED
      BY <1>5, <1>1, <3>3
  <2>5. CASE ~(o <= BoundaryDate(y))
    <3>1. FiscalYear(d) = z
      BY <1>1, <1>6, <2>5 DEF FiscalYear, BoundaryYear, o
    <3>2. FiscalStart(z) <= o /\ o < FiscalStart(u)
      BY <1>2, <1>3, <2>1, <2>2, <2>5
    <3>3. InYear(d, z, u)
      BY <1>1, <1>4, <2>3, <3>1, <3>2 DEF InYear, o
    <3> QED
      BY <1>5, <1>1, <3>3
  <2> QED
    BY <2>4, <2>5
<1>7. CASE start # NoStart
  <2>1. start \in StartDates
    BY <1>7
  <2>2. /\ Anniversary(start, x) < NewYear(y)
        /\ Anniversary(start, y) \in Int
        /\ Anniversary(start, z) >= NewYear(z)
    BY <1>1, <2>1, Anniversaries
  <2>3. \A v \in Int : FiscalStart(v) = Anniversary(start, v)
    BY <1>7 DEF FiscalStart
  <2>4. \A v \in Int : FiscalYear(d) = v /\ FiscalStart(v) \in Int /\ FiscalStart(v) <= o
          => FiscalWeek(d) = (o - FiscalStart(v)) \div 7 + 1
    BY <1>2, <1>7, <2>3, WeekOfYear DEF FiscalYear, FiscalWeek, AnniversaryWeek, o
  <2>5. CASE o >= Anniversary(start, y)
    <3>1. FiscalYear(d) = y
      BY <1>1, <1>7, <2>5 DEF FiscalYear, AnniversaryYear, o
    <3>2. FiscalStart(y) <= o /\ o < FiscalStart(z)
      BY <1>2, <1>3, <1>4, <2>2, <2>3, <2>5
    <3>3. InYear(d, y, z)
      BY <1>1, <1>4, <2>4, <3>1, <3>2 DEF InYear, o
    <3> QED
      BY <1>5, <1>1, <3>3
  <2>6. CASE ~(o >= Anniversary(start, y))
    <3>1. FiscalYear(d) = x
      BY <1>1, <1>7, <2>6 DEF FiscalYear, AnniversaryYear, o
    <3>2. FiscalStart(x) <= o /\ o < FiscalStart(y)
      BY <1>2, <1>3, <1>4, <2>2, <2>3, <2>6
    <3>3. InYear(d, x, y)
      BY <1>1, <1>4, <2>4, <3>1, <3>2 DEF InYear, o
    <3> QED
      BY <1>5, <1>1, <3>3
  <2> QED
    BY <2>5, <2>6
<1> QED
  BY <1>6, <1>7

(***************************************************************************)
(* Type correctness                                                        *)
(***************************************************************************)
LEMMA YearLengths == \A y \in Int : YearLength(y) \in {365, 366}
BY LeapDayRange DEF YearLength

\* The days that pass are days of the calendar (NextDay, SaveFiscalSettings).
THEOREM CalendarTypeCorrect == CalendarSpec => []CalendarTypeOK
<1>1. CalendarInit => CalendarTypeOK
  <2> SUFFICES ASSUME CalendarInit PROVE CalendarTypeOK
    OBVIOUS
  <2>1. FirstYear \in Int /\ FirstYear \in FirstYear..LastYear
    BY YearAssumption
  <2>2. 0 < YearLength(FirstYear)
    BY <2>1, YearLengths
  <2> QED
    BY <2>1, <2>2 DEF CalendarInit, CalendarTypeOK, Dates
<1>2. CalendarTypeOK /\ [CalendarNext]_calendarVars => CalendarTypeOK'
  <2> SUFFICES ASSUME CalendarTypeOK, [CalendarNext]_calendarVars PROVE CalendarTypeOK'
    OBVIOUS
  <2>1. CASE NextDay
    <3>1. today.year \in FirstYear..LastYear /\ today.day \in 0..365 /\ start' \in Starts
      BY <2>1 DEF CalendarTypeOK, Dates, NextDay
    <3>2. CASE today.day + 1 < YearLength(today.year)
      <4>1. today' = [year |-> today.year, day |-> today.day + 1]
        BY <2>1, <3>2 DEF NextDay, CalendarTypeOK, Dates
      <4>2. YearLength(today.year) \in {365, 366}
        BY <3>1, YearAssumption, YearLengths
      <4> QED
        BY <3>1, <3>2, <4>1, <4>2 DEF CalendarTypeOK, Dates
    <3>3. CASE ~(today.day + 1 < YearLength(today.year))
      <4>1. today' = [year |-> today.year + 1, day |-> 0] /\ today.year < LastYear
        BY <2>1, <3>3 DEF NextDay
      <4>2. today.year + 1 \in FirstYear..LastYear /\ today.year + 1 \in Int
        BY <3>1, <4>1, YearAssumption
      <4>3. 0 < YearLength(today.year + 1)
        BY <4>2, YearLengths
      <4> QED
        BY <3>1, <4>1, <4>2, <4>3 DEF CalendarTypeOK, Dates
    <3> QED
      BY <3>2, <3>3
  <2>2. CASE SaveFiscalSettings
    BY <2>2 DEF SaveFiscalSettings, CalendarTypeOK
  <2>3. CASE UNCHANGED calendarVars
    BY <2>3 DEF calendarVars, CalendarTypeOK
  <2> QED
    BY <2>1, <2>2, <2>3 DEF CalendarNext
<1> QED
  BY <1>1, <1>2, PTL DEF CalendarSpec

\* What the type invariant gives the lemmas above.
LEMMA Typed == CalendarTypeOK => today \in Days /\ start \in StartDates \cup {NoStart}
BY YearAssumption, StartAssumption DEF CalendarTypeOK, Dates, Days

(***************************************************************************)
(* Weeks                                                                   *)
(***************************************************************************)
LEMMA YearSpan ==
  ASSUME start \in StartDates \cup {NoStart}, NEW fy \in Int, NEW next \in Int, next = fy + 1
  PROVE FiscalStart(next) - FiscalStart(fy) \in 364..371
BY FiscalStarts

LEMMA WeeksBounded ==
  ASSUME start \in StartDates \cup {NoStart}, NEW d \in Days
  PROVE FiscalWeek(d) \in 1..53
<1>1. PICK fy, next \in Int : next = fy + 1 /\ InYear(d, fy, next)
  BY Bracket
<1>2. FiscalStart(next) - FiscalStart(fy) \in 364..371
  BY <1>1, YearSpan
<1>3. Ordinal(d) \in Int
  BY DayInYear DEF Days
<1> QED
  BY <1>1, <1>2, <1>3 DEF InYear

\* Every day has a week from 1 to 53 (fiscal_week_for_date).
THEOREM WeeksAreNumbered == CalendarSpec => []WeeksNumbered
<1>1. CalendarTypeOK => WeeksNumbered
  BY Typed, WeeksBounded DEF WeeksNumbered
<1> QED
  BY <1>1, CalendarTypeCorrect, PTL

\* Tomorrow is the day after today, and a day of the calendar.
LEMMA Tomorrow ==
  ASSUME CalendarTypeOK, CalendarTypeOK', NextDay
  PROVE /\ today' \in Days /\ Ordinal(today') = Ordinal(today) + 1
        /\ today'.year \in today.year..(today.year + 1)
<1>1. today \in Days /\ today' \in Days
  BY YearAssumption DEF CalendarTypeOK, Dates, Days
<1>2. /\ today.year \in Int /\ today.day \in 0..365 /\ today.day < YearLength(today.year)
      /\ YearLength(today.year) \in {365, 366} /\ NewYear(today.year) \in Int
  BY <1>1, YearLengths, NewYearType DEF Days
<1>3. CASE today.day + 1 < YearLength(today.year)
  <2>1. today' = [year |-> today.year, day |-> today.day + 1]
    BY <1>3 DEF NextDay, CalendarTypeOK, Dates
  <2> QED
    BY <1>1, <1>2, <2>1 DEF Ordinal
<1>4. CASE ~(today.day + 1 < YearLength(today.year))
  <2>1. today' = [year |-> today.year + 1, day |-> 0]
    BY <1>4 DEF NextDay
  <2>2. NewYear(today.year + 1) = NewYear(today.year) + YearLength(today.year)
    BY <1>2, YearsAdvance
  <2> QED
    BY <1>1, <1>2, <1>4, <2>1, <2>2 DEF Ordinal
<1> QED
  BY <1>3, <1>4

\* Three years are as far as a day and the next one could be apart.
LEMMA StartsGrow ==
  ASSUME start \in StartDates \cup {NoStart}, NEW x \in Int, NEW y \in Int, y - x \in 1..3
  PROVE FiscalStart(x) < FiscalStart(y)
<1>1. PICK x1, x2, x3 \in Int : x1 = x + 1 /\ x2 = x1 + 1 /\ x3 = x2 + 1
  OBVIOUS
<1>2. /\ FiscalStart(x) \in Int /\ FiscalStart(x1) \in Int
      /\ FiscalStart(x2) \in Int /\ FiscalStart(x3) \in Int
  <2>1. PICK x4 \in Int : x4 = x3 + 1
    OBVIOUS
  <2> QED
    BY <1>1, <2>1, FiscalStarts
<1>3. /\ FiscalStart(x1) - FiscalStart(x) \in 364..371
      /\ FiscalStart(x2) - FiscalStart(x1) \in 364..371
      /\ FiscalStart(x3) - FiscalStart(x2) \in 364..371
  BY <1>1, YearSpan
<1>4. y = x1 \/ y = x2 \/ y = x3
  BY <1>1
<1> QED
  BY <1>2, <1>3, <1>4

\* The day after is in the same fiscal year, or begins the next one.
LEMMA NextDayInYear ==
  ASSUME CalendarTypeOK, CalendarTypeOK', NextDay,
         NEW fy \in Int, NEW next \in Int, next = fy + 1,
         fy \in (today.year - 1)..(today.year + 1), InYear(today, fy, next),
         NEW gy \in Int, NEW gnext \in Int, gnext = gy + 1,
         gy \in (today'.year - 1)..(today'.year + 1), InYear(today', gy, gnext)
  PROVE gy = fy \/ (gy = next /\ Ordinal(today') = FiscalStart(next))
<1> DEFINE o == Ordinal(today)
<1>1. today \in Days /\ start \in StartDates \cup {NoStart}
  BY Typed
<1>2. today.year \in Int /\ o \in Int
  BY <1>1, DayInYear DEF Days
<1>3. Ordinal(today') = o + 1 /\ today'.year \in today.year..(today.year + 1)
  BY Tomorrow
<1>4. gy - fy \in -2..3
  BY <1>2, <1>3
<1>5. /\ FiscalStart(fy) \in Int /\ FiscalStart(next) \in Int
      /\ FiscalStart(gy) \in Int /\ FiscalStart(gnext) \in Int
      /\ FiscalStart(fy) <= o /\ o < FiscalStart(next)
      /\ FiscalStart(gy) <= o + 1 /\ o + 1 < FiscalStart(gnext)
  BY <1>3 DEF InYear
<1> HIDE DEF o
<1>6. ~(gy < fy)
  <2> SUFFICES ASSUME gy < fy PROVE FALSE
    OBVIOUS
  <2>1. gnext = fy \/ fy - gnext \in 1..3
    BY <1>4
  <2>2. FiscalStart(gnext) <= FiscalStart(fy)
    BY <1>1, <1>5, <2>1, StartsGrow
  <2> QED
    BY <1>2, <1>5, <2>2
<1>7. ~(gy > next)
  <2> SUFFICES ASSUME gy > next PROVE FALSE
    OBVIOUS
  <2>1. gy - next \in 1..3
    BY <1>4
  <2>2. FiscalStart(next) < FiscalStart(gy)
    BY <1>1, <2>1, StartsGrow
  <2> QED
    BY <1>2, <1>5, <2>2
<1>8. gy = fy \/ gy = next
  BY <1>6, <1>7
<1> QED
  BY <1>2, <1>3, <1>5, <1>8

\* Weeks follow one another, and every one but the last has seven days
\* (_start_and_week_for_date, fiscal_week_for_day).
THEOREM WeeksFollow == CalendarSpec => WeeksAdvance
<1> DEFINE Follows ==
      LET y == FiscalYear(today)   w == FiscalWeek(today)
          z == FiscalYear(today')  v == FiscalWeek(today')
      IN \/ z = y /\ v = w
         \/ z = y /\ v = w + 1 /\ (Ordinal(today') - FiscalStart(y)) % 7 = 0
         \/ z = y + 1 /\ v = 1 /\ Ordinal(today') = FiscalStart(z)
<1>1. CalendarTypeOK /\ CalendarTypeOK' /\ NextDay => Follows
  <2> SUFFICES ASSUME CalendarTypeOK, CalendarTypeOK', NextDay PROVE Follows
    OBVIOUS
  <2>1. today \in Days /\ today' \in Days /\ start \in StartDates \cup {NoStart}
    BY Typed, Tomorrow
  <2>2. PICK fy, next \in Int :
          next = fy + 1 /\ fy \in (today.year - 1)..(today.year + 1) /\ InYear(today, fy, next)
    BY <2>1, Bracket
  <2>3. PICK gy, gnext \in Int :
          gnext = gy + 1 /\ gy \in (today'.year - 1)..(today'.year + 1) /\ InYear(today', gy, gnext)
    BY <2>1, Bracket
  <2>4. Ordinal(today) \in Int /\ Ordinal(today') = Ordinal(today) + 1
    BY <2>1, DayInYear, Tomorrow DEF Days
  <2>5. gy = fy \/ (gy = next /\ Ordinal(today') = FiscalStart(next))
    BY <2>2, <2>3, NextDayInYear
  <2>6. CASE gy = fy
    <3>1. /\ FiscalWeek(today) = (Ordinal(today) - FiscalStart(fy)) \div 7 + 1
          /\ FiscalWeek(today') = (Ordinal(today) + 1 - FiscalStart(fy)) \div 7 + 1
          /\ FiscalStart(fy) \in Int
      BY <2>2, <2>3, <2>4, <2>6 DEF InYear
    <3>2. \/ FiscalWeek(today') = FiscalWeek(today)
          \/ /\ FiscalWeek(today') = FiscalWeek(today) + 1
             /\ (Ordinal(today) + 1 - FiscalStart(fy)) % 7 = 0
      BY <2>4, <3>1
    <3> QED
      BY <2>2, <2>3, <2>4, <2>6, <3>2 DEF InYear
  <2>7. CASE gy = next /\ Ordinal(today') = FiscalStart(next)
    <3>1. FiscalWeek(today') = (FiscalStart(next) - FiscalStart(next)) \div 7 + 1 /\ FiscalStart(next) \in Int
      BY <2>2, <2>3, <2>7 DEF InYear
    <3>2. FiscalWeek(today') = 1
      BY <3>1
    <3> QED
      BY <2>2, <2>3, <2>7, <3>2 DEF InYear
  <2> QED
    BY <2>5, <2>6, <2>7
<1>2. CalendarTypeOK /\ CalendarTypeOK' /\ [CalendarNext]_calendarVars => [NextDay => Follows]_calendarVars
  BY <1>1
<1> QED
  BY <1>2, CalendarTypeCorrect, PTL DEF CalendarSpec, WeeksAdvance

(***************************************************************************)
(* Payroll, the dashboard and the parsers                                  *)
(***************************************************************************)
LEMMA PayrollStarts ==
  ASSUME NEW fy \in Int, FiscalStart(fy) \in Int
  PROVE PayrollStart(fy) \in (FiscalStart(fy) - 6)..FiscalStart(fy)
BY DEF PayrollStart, Weekday

LEMMA SameNumber ==
  ASSUME NEW o \in Int, NEW a \in Int, NEW p \in (a - 6)..a, NEW week \in Int, p + 7 * week - 1 = o
  PROVE (o - a) \div 7 + 1 = week
OBVIOUS

\* A payroll week and the fiscal week it ends in have the same number
\* (payroll_week_ending, fiscal_week_for_date).
THEOREM PayrollWeeksAgree == CalendarSpec => []PayrollAgrees
<1>1. CalendarTypeOK => PayrollAgrees
  <2> SUFFICES ASSUME CalendarTypeOK, NEW week \in 1..52,
                      WeekEnding(FiscalYear(today), week) = Ordinal(today)
               PROVE FiscalWeek(today) = week
    BY DEF PayrollAgrees
  <2>1. today \in Days /\ start \in StartDates \cup {NoStart}
    BY Typed
  <2>2. PICK fy, next \in Int : next = fy + 1 /\ InYear(today, fy, next)
    BY <2>1, Bracket
  <2>3. PayrollStart(fy) \in (FiscalStart(fy) - 6)..FiscalStart(fy) /\ FiscalStart(fy) \in Int
    BY <2>2, PayrollStarts DEF InYear
  <2>4. Ordinal(today) \in Int /\ PayrollStart(fy) + 7 * week - 1 = Ordinal(today)
    BY <2>1, <2>2, DayInYear DEF Days, WeekEnding, InYear
  <2>5. FiscalWeek(today) = (Ordinal(today) - FiscalStart(fy)) \div 7 + 1
    BY <2>2 DEF InYear
  <2> QED
    BY <2>3, <2>4, <2>5, SameNumber
<1> QED
  BY <1>1, CalendarTypeCorrect, PTL

\* Going back a week, across new year if need be.
LEMMA WeekBack ==
  ASSUME NEW d \in Days
  PROVE Back(d, 7) \in Days /\ Ordinal(Back(d, 7)) = Ordinal(d) - 7
<1>1. /\ d = [year |-> d.year, day |-> d.day]
      /\ d.year \in Int /\ d.day \in 0..365 /\ d.day < YearLength(d.year)
  BY DEF Days
<1>2. PICK y \in Int : y = d.year - 1 /\ d.year = y + 1
  BY <1>1
<1>3. /\ YearLength(d.year) \in {365, 366} /\ YearLength(y) \in {365, 366}
      /\ NewYear(y) \in Int /\ NewYear(d.year) = NewYear(y) + YearLength(y)
  BY <1>1, <1>2, YearLengths, NewYearType, YearsAdvance
<1>4. CASE d.day >= 7
  <2>1. Back(d, 7) = [year |-> d.year, day |-> d.day - 7]
    BY <1>1, <1>4 DEF Back
  <2> QED
    BY <1>1, <1>3, <1>4, <2>1 DEF Days, Ordinal
<1>5. CASE ~(d.day >= 7)
  <2>1. Back(d, 7) = [year |-> y, day |-> d.day - 7 + YearLength(y)]
    BY <1>2, <1>5 DEF Back
  <2> QED
    BY <1>1, <1>2, <1>3, <1>5, <2>1 DEF Days, Ordinal
<1> QED
  BY <1>4, <1>5

\* The dashboard's week ended within the last seven days, and only a week 53
\* reaches into the next fiscal year (_dashboard_target_period).
THEOREM TargetWeekIsOver == CalendarSpec => []TargetJustCompleted
<1>1. CalendarTypeOK => TargetJustCompleted
  <2> SUFFICES ASSUME CalendarTypeOK PROVE TargetJustCompleted
    OBVIOUS
  <2> DEFINE d == TargetAnchor(today)
             o == Ordinal(today)
  <2>1. today \in Days /\ start \in StartDates \cup {NoStart}
    BY Typed
  <2>2. d \in Days /\ Ordinal(d) = o - 7
    BY <2>1, WeekBack DEF TargetAnchor
  <2>3. o \in Int
    BY <2>1, DayInYear DEF Days
  <2> HIDE DEF d, o
  <2>4. PICK fy, next \in Int : next = fy + 1 /\ InYear(d, fy, next)
    BY <2>1, <2>2, Bracket
  <2> DEFINE a == FiscalStart(fy)
             b == FiscalStart(next)
             w == FiscalWeek(d)
  <2>5. a \in Int /\ b \in Int /\ a <= o - 7 /\ o - 7 < b /\ w = (o - 7 - a) \div 7 + 1
    BY <2>2, <2>4 DEF InYear
  <2>6. b - a \in 364..371 /\ w \in 1..53
    BY <2>1, <2>2, <2>4, YearSpan, WeeksBounded
  <2>7. TargetYear(today) = fy /\ TargetWeek(today) = w
    BY <2>4 DEF TargetYear, TargetWeek, InYear, d
  <2>8. TargetYear(today) + 1 = next
    BY <2>4, <2>7
  <2>9. PeriodEnd(today) = a + 7 * (w - 1) + 6
    BY <2>7 DEF PeriodEnd, PeriodStart
  <2> HIDE DEF a, b, w
  <2>10. a + 7 * (w - 1) + 6 \in (o - 7)..(o - 1)
    BY <2>3, <2>5
  <2>11. a + 7 * (w - 1) + 6 >= b => w = 53
    BY <2>5, <2>6
  <2> QED
    BY <2>7, <2>8, <2>9, <2>10, <2>11 DEF TargetJustCompleted, b, o
<1> QED
  BY <1>1, CalendarTypeCorrect, PTL

\* Both ways to count from a start date give a Saturday the same week
\* (calculate_fiscal_week, FiscalYearSettings).
LEMMA SaturdayCount ==
  ASSUME NEW o \in Int, NEW a \in Int, a <= o, Weekday(o) = Saturday
  PROVE AtLeastOne((o - FirstWeekEnding(a)) \div 7 + 1) = AtLeastOne((o - a) \div 7 + 1)
BY DEF AtLeastOne, FirstWeekEnding, FirstOnOrAfter, Weekday, Saturday

THEOREM CalculatorsAgree == CalendarSpec => []CalculatorAgrees
<1>1. CalendarTypeOK => CalculatorAgrees
  <2> SUFFICES ASSUME CalendarTypeOK, start # NoStart, Weekday(Ordinal(today)) = Saturday
               PROVE CalculatedWeek(start, today) = FiscalWeek(today)
    BY DEF CalculatorAgrees
  <2>1. today \in Days /\ start \in StartDates \cup {NoStart}
    BY Typed
  <2>2. PICK fy, next \in Int : next = fy + 1 /\ InYear(today, fy, next)
    BY <2>1, Bracket
  <2>3. /\ AnniversaryYear(start, today) = fy /\ Anniversary(start, fy) = FiscalStart(fy)
        /\ FiscalStart(fy) \in Int /\ FiscalStart(fy) <= Ordinal(today)
    BY <2>2 DEF InYear, FiscalYear, FiscalStart
  <2>4. Ordinal(today) \in Int
    BY <2>1, DayInYear DEF Days
  <2> QED
    BY <2>3, <2>4, SaturdayCount DEF CalculatedWeek, FiscalWeek, AnniversaryWeek
<1> QED
  BY <1>1, CalendarTypeCorrect, PTL

\* 4, 5 and 4 weeks, four times over.
LEMMA FirstWeeks ==
  /\ FirstWeek(1) = 1 /\ FirstWeek(2) = 5 /\ FirstWeek(3) = 10
  /\ FirstWeek(4) = 14 /\ FirstWeek(5) = 18 /\ FirstWeek(6) = 23
  /\ FirstWeek(7) = 27 /\ FirstWeek(8) = 31 /\ FirstWeek(9) = 36
  /\ FirstWeek(10) = 40 /\ FirstWeek(11) = 44 /\ FirstWeek(12) = 49
  /\ FirstWeek(13) = 53
BY DEF FirstWeek

\* The twelve months cover the 52 weeks, and week 52 is in the last one only.
LEMMA MonthsCover ==
  ASSUME NEW w \in Int, w \in 1..52
  PROVE (\E m \in Months : w \in Layout(m)) /\ \A m \in Months : 52 \in Layout(m) => m = 12
<1>1. /\ Layout(1) = 1..4 /\ Layout(2) = 5..9 /\ Layout(3) = 10..13
      /\ Layout(4) = 14..17 /\ Layout(5) = 18..22 /\ Layout(6) = 23..26
      /\ Layout(7) = 27..30 /\ Layout(8) = 31..35 /\ Layout(9) = 36..39
      /\ Layout(10) = 40..43 /\ Layout(11) = 44..48 /\ Layout(12) = 49..52
  BY FirstWeeks DEF Layout
<1>2. \A m \in Months : 52 \in Layout(m) => m = 12
  <2> SUFFICES ASSUME NEW m \in Months, 52 \in Layout(m) PROVE m = 12
    OBVIOUS
  <2>1. m \in 1..12
    BY DEF Months
  <2>2. m = 1 \/ m = 2 \/ m = 3 \/ m = 4 \/ m = 5 \/ m = 6 \/ m = 7 \/ m = 8 \/ m = 9 \/ m = 10 \/ m = 11 \/ m = 12
    BY <2>1
  <2> QED
    BY <1>1, <2>2
<1>3. 1 \in Months /\ 2 \in Months /\ 3 \in Months /\ 4 \in Months /\ 5 \in Months /\ 6 \in Months
      /\ 7 \in Months /\ 8 \in Months /\ 9 \in Months /\ 10 \in Months /\ 11 \in Months /\ 12 \in Months
  BY DEF Months
<1>4. \E m \in Months : w \in Layout(m)
  <2>1. CASE w <= 13
    BY <1>1, <1>3, <2>1
  <2>2. CASE w > 13 /\ w <= 26
    BY <1>1, <1>3, <2>2
  <2>3. CASE w > 26 /\ w <= 39
    BY <1>1, <1>3, <2>3
  <2>4. CASE w > 39
    BY <1>1, <1>3, <2>4
  <2> QED
    BY <2>1, <2>2, <2>3, <2>4
<1> QED
  BY <1>2, <1>4

LEMMA MonthsWithin ==
  ASSUME NEW m \in Months
  PROVE Layout(m) \subseteq 1..52
<1>1. m \in {1, 2, 3, 4, 5, 6, 7, 8, 9, 10, 11, 12}
  BY DEF Months
<1> QED
  BY <1>1, FirstWeeks DEF Layout

\* The month payroll opens with has today in it, unless no month has, or today is
\* in the next year's first payroll week already (current_payroll_month).
THEOREM PayrollOpensWithToday == CalendarSpec => []PayrollShowsToday
<1>1. CalendarTypeOK => PayrollShowsToday
  <2> SUFFICES ASSUME CalendarTypeOK PROVE PayrollShowsToday
    OBVIOUS
  <2> DEFINE o == Ordinal(today)
             shown == WeekShown(today)
  <2>1. today \in Days /\ start \in StartDates \cup {NoStart}
    BY Typed
  <2>2. PICK fy, next \in Int : next = fy + 1 /\ InYear(today, fy, next)
    BY <2>1, Bracket
  <2> DEFINE p == PayrollStart(fy)
             week == (o - p) \div 7 + 1
  <2>3. o \in Int /\ p \in Int /\ p <= o
    <3>1. PayrollStart(fy) \in (FiscalStart(fy) - 6)..FiscalStart(fy)
      BY <2>2, PayrollStarts DEF InYear
    <3> QED
      BY <2>1, <2>2, <3>1, DayInYear DEF Days, InYear
  <2>4. FiscalYear(today) = fy
    BY <2>2 DEF InYear
  <2>5. shown = AtLeastOne(IF week > 52 THEN 52 ELSE week)
    BY <2>4 DEF WeekShown
  <2>6. WeekEnding(fy, week) = p + 7 * week - 1 /\ WeekEnding(fy, 52) = p + 7 * 52 - 1
    BY DEF WeekEnding
  <2> HIDE DEF o, p
  <2>7. week \in Int /\ week >= 1 /\ o \in (p + 7 * week - 1 - 6)..(p + 7 * week - 1)
    BY <2>3
  <2> HIDE DEF week
  <2>8. shown = IF week > 52 THEN 52 ELSE week
    BY <2>5, <2>7 DEF AtLeastOne
  <2> HIDE DEF shown
  <2>9. shown \in Int /\ shown \in 1..52
    BY <2>7, <2>8
  <2>10. CurrentMonth(today) \in Months /\ shown \in Layout(CurrentMonth(today))
    BY <2>9, MonthsCover DEF CurrentMonth, shown
  <2>11. CASE week <= 52
    <3>1. shown = week
      BY <2>7, <2>8, <2>11
    <3>2. o \in (WeekEnding(fy, week) - 6)..WeekEnding(fy, week)
      <4>1. PICK e \in Int : e = p + 7 * week - 1
        BY <2>3, <2>7
      <4>2. o \in (e - 6)..e
        BY <2>3, <2>7, <4>1
      <4> QED
        BY <2>6, <4>1, <4>2
    <3>3. week \in Layout(CurrentMonth(today))
      BY <2>10, <3>1
    <3> QED
      BY <2>4, <3>2, <3>3 DEF PayrollShowsToday, HasDay, o
  <2>12. CASE week > 52
    <3>1. PICK q \in Int : q = PayrollStart(next)
      BY <2>2, PayrollStarts DEF InYear
    <3>2. o > p + 7 * 52 - 1
      BY <2>3, <2>7, <2>12
    <3>3. CASE o >= q
      <4>1. o \in q..(FiscalStart(next) - 1)
        BY <2>2, <2>3, <3>1, <3>3 DEF InYear, o
      <4> QED
        BY <2>2, <2>4, <3>1, <4>1 DEF PayrollShowsToday, o
    <3>4. CASE o < q
      <4>1. ASSUME NEW m \in Months, NEW w \in Layout(m)
            PROVE /\ o \notin (WeekEnding(fy, w) - 6)..WeekEnding(fy, w)
                  /\ o \notin (WeekEnding(next, w) - 6)..WeekEnding(next, w)
        <5>1. w \in 1..52
          BY <4>1, MonthsWithin
        <5>2. WeekEnding(fy, w) = p + 7 * w - 1 /\ WeekEnding(next, w) = q + 7 * w - 1
          BY <3>1 DEF WeekEnding, p
        <5> QED
          BY <2>3, <3>2, <3>4, <5>1, <5>2
      <4>2. \A y \in {fy, next}, m \in Months : ~HasDay(y, m, o)
        BY <4>1 DEF HasDay
      <4> QED
        BY <2>2, <2>4, <4>2 DEF PayrollShowsToday, o
    <3> QED
      BY <2>3, <3>3, <3>4
  <2> QED
    BY <2>7, <2>11, <2>12
<1> QED
  BY <1>1, CalendarTypeCorrect, PTL

(***************************************************************************)
(* MonthSaves: every save of a month takes effect at once.  MonthSaves     *)
(* implements Ledger, but for its fairness, for any months, figures and    *)
(* processes.                                                              *)
(***************************************************************************)

Marks == UNION {[written -> Figures \union {Blank}] : written \in SUBSET Weeks}

Saves == [form : Forms, next : 0..(Cardinality(Weeks) + 1), marks : Marks, filled : SUBSET Weeks]

MonthTypeOK ==
  /\ rows \in [Weeks -> Figures \union {Blank}]
  /\ saves \in [Savers -> Saves]

\* What has been written is what the form has for the weeks before the one at hand.
WrittenAsEntered(s) ==
  \A w \in DOMAIN saves[s].marks :
    w < saves[s].next /\ saves[s].marks[w] = saves[s].form[w]

\* A week passed over was left blank, and has no row unless another save made it.
OthersBlank(s) ==
  \A w \in Weeks :
    w < saves[s].next =>
      /\ saves[s].form[w] # Invalid
      /\ w \notin DOMAIN saves[s].marks =>
           saves[s].form[w] = Blank /\ (rows[w] = Blank \/ w \in saves[s].filled)

MonthInv == MonthTypeOK /\ \A s \in Savers : WrittenAsEntered(s) /\ OthersBlank(s)

LEMMA WeeksCounted == Cardinality(Weeks) \in Nat /\ Weeks = 1..Cardinality(Weeks)
  BY MonthAssumption, FS_CardinalityType

LEMMA NotSavingTyped ==
  /\ NotSaving.form \in Forms
  /\ NotSaving.next = 0
  /\ NotSaving.marks \in Marks
  /\ DOMAIN NotSaving.marks = {}
  /\ NotSaving.filled = {}
  <1>1. [w \in {} |-> Blank] \in [{} -> Figures \union {Blank}]
    OBVIOUS
  <1>2. {} \in SUBSET Weeks
    OBVIOUS
  <1>3. [w \in {} |-> Blank] \in Marks
    BY <1>1, <1>2 DEF Marks
  <1>4. [w \in Weeks |-> Blank] \in Forms
    BY DEF Forms
  <1> QED
    BY <1>3, <1>4 DEF NotSaving

\* One more week written.
LEMMA MarkTyped ==
  ASSUME NEW marks \in Marks, NEW week \in Weeks, NEW entry \in Figures \union {Blank}
  PROVE  [w \in {week} \union DOMAIN marks |-> IF w = week THEN entry ELSE marks[w]] \in Marks
  <1>1. PICK written \in SUBSET Weeks : marks \in [written -> Figures \union {Blank}]
    BY DEF Marks
  <1>2. {week} \union written \in SUBSET Weeks
    OBVIOUS
  <1>3. [w \in {week} \union DOMAIN marks |-> IF w = week THEN entry ELSE marks[w]]
          \in [{week} \union written -> Figures \union {Blank}]
    BY <1>1
  <1> QED
    BY <1>2, <1>3 DEF Marks

LEMMA MarksTyped ==
  ASSUME NEW marks \in Marks
  PROVE  /\ DOMAIN marks \subseteq Weeks
         /\ \A w \in DOMAIN marks : marks[w] \in Figures \union {Blank}
  BY DEF Marks

LEMMA NotSavingIsSave == NotSaving \in Saves
  BY NotSavingTyped, WeeksCounted DEF NotSaving, Saves

LEMMA MonthInitially == MonthInit => MonthInv
  <1> SUFFICES ASSUME MonthInit
               PROVE  MonthInv
    OBVIOUS
  <1>2. MonthTypeOK
    BY NotSavingIsSave DEF MonthInit, MonthTypeOK
  <1>3. ASSUME NEW s \in Savers
        PROVE  WrittenAsEntered(s) /\ OthersBlank(s)
    <2>1. \A w \in Weeks : ~(w < 0)
      BY WeeksCounted
    <2> QED
      BY <2>1, NotSavingTyped DEF MonthInit, WrittenAsEntered, OthersBlank
  <1> QED
    BY <1>2, <1>3 DEF MonthInv

\* A save that is over, or has nothing written yet, keeps the invariant.
LEMMA Anew ==
  ASSUME MonthInv, NEW s \in Savers, NEW fresh \in Saves, fresh.next \in {0, 1}, DOMAIN fresh.marks = {},
         saves' = [saves EXCEPT ![s] = fresh],
         rows' = rows
  PROVE  MonthInv'
  <1>1. MonthTypeOK'
    BY DEF MonthInv, MonthTypeOK
  <1>2. ASSUME NEW t \in Savers
        PROVE  WrittenAsEntered(t)' /\ OthersBlank(t)'
    <2>1. CASE t = s
      <3>1. saves'[t] = fresh
        BY <2>1 DEF MonthInv, MonthTypeOK
      <3>2. \A w \in Weeks : ~(w < fresh.next)
        BY WeeksCounted
      <3> QED
        BY <3>1, <3>2 DEF WrittenAsEntered, OthersBlank
    <2>2. CASE t # s
      BY <2>2 DEF MonthInv, MonthTypeOK, WrittenAsEntered, OthersBlank
    <2> QED
      BY <2>1, <2>2
  <1> QED
    BY <1>1, <1>2 DEF MonthInv

\* What a step leaves as it is.
LEMMA Untouched ==
  ASSUME MonthInv, NEW t \in Savers, saves'[t] = saves[t], rows' = rows
  PROVE  WrittenAsEntered(t)' /\ OthersBlank(t)'
  BY DEF MonthInv, WrittenAsEntered, OthersBlank

LEMMA AtWeekTyped ==
  ASSUME MonthInv, NEW s \in Savers, AtWeek(s)
  PROVE  /\ saves[s] \in Saves
         /\ saves[s].next \in Nat
         /\ saves[s].next + 1 \in 0..(Cardinality(Weeks) + 1)
         /\ Entry(s) \in Figures \union {Blank, Invalid}
  <1>1. saves[s] \in Saves
    BY DEF MonthInv, MonthTypeOK
  <1>2. saves[s].next \in 1..Cardinality(Weeks)
    BY WeeksCounted DEF AtWeek
  <1> QED
    BY <1>1, <1>2, WeeksCounted DEF Saves, Entry, Forms, AtWeek

LEMMA PassingOver ==
  ASSUME MonthInv, NEW s \in Savers, PassOver(s)
  PROVE  MonthInv'
  <1>1. /\ saves' = [saves EXCEPT ![s].next = @ + 1]
        /\ rows' = rows
        /\ AtWeek(s)
        /\ saves[s].form[saves[s].next] = Blank
        /\ rows[saves[s].next] = Blank
    BY DEF PassOver, Entry
  <1>2. saves'[s] = [saves[s] EXCEPT !.next = @ + 1]
    BY <1>1 DEF MonthInv, MonthTypeOK
  <1>3. saves'[s] \in Saves
    BY <1>1, <1>2, AtWeekTyped DEF Saves
  <1>4. MonthTypeOK'
    BY <1>1, <1>3 DEF MonthInv, MonthTypeOK
  <1>5. \A t \in Savers \ {s} : saves'[t] = saves[t]
    BY <1>1 DEF MonthInv, MonthTypeOK
  <1>6. /\ saves'[s].form = saves[s].form
        /\ saves'[s].marks = saves[s].marks
        /\ saves'[s].filled = saves[s].filled
        /\ saves'[s].next = saves[s].next + 1
    BY <1>1, <1>2, AtWeekTyped DEF Saves
  <1>7. DOMAIN saves[s].marks \subseteq Weeks
    BY MarksTyped, <1>1, AtWeekTyped DEF Saves
  <1>8. \A w \in Weeks : w < saves[s].next + 1 => w < saves[s].next \/ w = saves[s].next
    BY <1>1, AtWeekTyped, WeeksCounted
  <1>9. \A w \in Weeks : w < saves[s].next => w < saves[s].next + 1
    BY <1>1, AtWeekTyped, WeeksCounted
  <1>10. WrittenAsEntered(s)'
    BY <1>6, <1>7, <1>9 DEF MonthInv, WrittenAsEntered
  <1>11. OthersBlank(s)'
    BY <1>1, <1>6, <1>8, EntriesAssumption DEF MonthInv, OthersBlank
  <1>12. \A t \in Savers \ {s} : WrittenAsEntered(t)' /\ OthersBlank(t)'
    BY <1>1, <1>5, Untouched
  <1> QED
    BY <1>4, <1>10, <1>11, <1>12 DEF MonthInv

LEMMA Marking ==
  ASSUME MonthInv, NEW s \in Savers, MarkWeek(s)
  PROVE  MonthInv'
  <1> DEFINE week == saves[s].next
             marks == WithEntry(s)
  <1>1. /\ saves' = [saves EXCEPT ![s].next = @ + 1, ![s].marks = marks]
        /\ rows' = rows
        /\ AtWeek(s)
        /\ Entry(s) # Invalid
    BY DEF MarkWeek
  <1>2. saves'[s] = [saves[s] EXCEPT !.next = @ + 1, !.marks = marks]
    BY <1>1 DEF MonthInv, MonthTypeOK
  <1>a. saves[s].marks \in Marks /\ week \in Weeks /\ Entry(s) \in Figures \union {Blank}
    BY <1>1, AtWeekTyped DEF Saves, AtWeek
  <1>b. marks \in Marks
    BY <1>a, MarkTyped DEF WithEntry
  <1>3. saves'[s] \in Saves
    BY <1>1, <1>2, <1>b, AtWeekTyped DEF Saves
  <1>4. MonthTypeOK'
    BY <1>1, <1>3 DEF MonthInv, MonthTypeOK
  <1>5. \A t \in Savers \ {s} : saves'[t] = saves[t]
    BY <1>1 DEF MonthInv, MonthTypeOK
  <1>6. /\ saves'[s].form = saves[s].form
        /\ saves'[s].marks = marks
        /\ saves'[s].filled = saves[s].filled
        /\ saves'[s].next = week + 1
    BY <1>1, <1>2, AtWeekTyped DEF Saves
  <1>7. DOMAIN saves[s].marks \subseteq Weeks
    BY MarksTyped, <1>a
  <1>8. \A w \in Weeks : w < week + 1 <=> w < week \/ w = week
    BY <1>1, AtWeekTyped, WeeksCounted
  <1>9. /\ DOMAIN marks = {week} \union DOMAIN saves[s].marks
        /\ \A w \in DOMAIN marks : marks[w] = IF w = week THEN Entry(s) ELSE saves[s].marks[w]
    BY DEF WithEntry
  <1>10. WrittenAsEntered(s)'
    <2>1. ASSUME NEW w \in DOMAIN marks
          PROVE  w < week + 1 /\ marks[w] = saves[s].form[w]
      BY <1>7, <1>8, <1>9, <1>a DEF MonthInv, WrittenAsEntered, Entry
    <2> QED
      BY <1>6, <2>1 DEF WrittenAsEntered
  <1>11. OthersBlank(s)'
    <2>1. ASSUME NEW w \in Weeks, w < week + 1
          PROVE  /\ saves[s].form[w] # Invalid
                 /\ w \notin DOMAIN marks =>
                      saves[s].form[w] = Blank /\ (rows[w] = Blank \/ w \in saves[s].filled)
      BY <1>1, <1>8, <1>9, <2>1 DEF MonthInv, OthersBlank, Entry
    <2> QED
      BY <1>1, <1>6, <2>1 DEF OthersBlank
  <1>12. \A t \in Savers \ {s} : WrittenAsEntered(t)' /\ OthersBlank(t)'
    BY <1>1, <1>5, Untouched
  <1> QED
    BY <1>4, <1>10, <1>11, <1>12 DEF MonthInv

\* What the commit finds: every week of the form, written or rightly left alone.
LEMMA Whole ==
  ASSUME MonthInv, NEW s \in Savers, saves[s].next = Cardinality(Weeks) + 1, NEW w \in Weeks
  PROVE  /\ saves[s].form[w] # Invalid
         /\ w \in DOMAIN saves[s].marks => saves[s].marks[w] = saves[s].form[w]
         /\ w \notin DOMAIN saves[s].marks =>
              saves[s].form[w] = Blank /\ (rows[w] = Blank \/ w \in saves[s].filled)
  BY WeeksCounted DEF MonthInv, WrittenAsEntered, OthersBlank

Entered(s) == {w \in DOMAIN saves[s].marks : saves[s].marks[w] # Blank}

LEMMA Committing ==
  ASSUME MonthInv, NEW s \in Savers, CommitSave(s)
  PROVE  MonthInv'
  <1>1. /\ saves[s].next = Cardinality(Weeks) + 1
        /\ rows' = [w \in Weeks |-> IF w \in DOMAIN saves[s].marks THEN saves[s].marks[w] ELSE rows[w]]
        /\ saves' = [t \in Savers |->
             IF t = s \/ saves[t].next = 0 THEN NotSaving
             ELSE [saves[t] EXCEPT !.filled = @ \union Entered(s)]]
    BY DEF CommitSave, Entered
  <1>2. saves[s].marks \in Marks
    BY DEF MonthInv, MonthTypeOK, Saves
  <1>3. Entered(s) \subseteq Weeks
    BY <1>2, MarksTyped DEF Entered
  <1>4. NotSaving \in Saves
    BY NotSavingIsSave
  <1>5. ASSUME NEW t \in Savers
        PROVE  saves'[t] \in Saves
    BY <1>1, <1>3, <1>4 DEF MonthInv, MonthTypeOK, Saves
  <1>6. rows' \in [Weeks -> Figures \union {Blank}]
    BY <1>1, <1>2, MarksTyped DEF MonthInv, MonthTypeOK
  <1>7. MonthTypeOK'
    BY <1>1, <1>5, <1>6 DEF MonthTypeOK
  <1>8. ASSUME NEW t \in Savers
        PROVE  WrittenAsEntered(t)' /\ OthersBlank(t)'
    <2>1. CASE t = s \/ saves[t].next = 0
      <3>1. saves'[t] = NotSaving
        BY <1>1, <2>1
      <3>2. \A w \in Weeks : ~(w < 0)
        BY WeeksCounted
      <3> QED
        BY <3>1, <3>2, NotSavingTyped DEF WrittenAsEntered, OthersBlank
    <2>2. CASE ~(t = s \/ saves[t].next = 0)
      <3>1. saves'[t] = [saves[t] EXCEPT !.filled = @ \union Entered(s)]
        BY <1>1, <2>2
      <3>2. /\ saves'[t].form = saves[t].form
            /\ saves'[t].next = saves[t].next
            /\ saves'[t].marks = saves[t].marks
            /\ saves'[t].filled = saves[t].filled \union Entered(s)
        BY <3>1 DEF MonthInv, MonthTypeOK, Saves
      <3>3. WrittenAsEntered(t)'
        BY <3>2 DEF MonthInv, WrittenAsEntered
      <3>4. \A w \in Weeks : rows'[w] = Blank \/ w \in Entered(s) \/ rows'[w] = rows[w]
        BY <1>1 DEF Entered
      <3>5. OthersBlank(t)'
        BY <3>2, <3>4 DEF MonthInv, OthersBlank
      <3> QED
        BY <3>3, <3>5
    <2> QED
      BY <2>1, <2>2
  <1> QED
    BY <1>7, <1>8 DEF MonthInv

LEMMA Beginning ==
  ASSUME MonthInv, NEW s \in Savers, NEW form \in Forms, BeginSave(s, form)
  PROVE  MonthInv'
  <1> DEFINE fresh == [NotSaving EXCEPT !.form = form, !.next = 1]
  <1>1. 1 \in 0..(Cardinality(Weeks) + 1)
    BY WeeksCounted
  <1>2. fresh \in Saves /\ fresh.next = 1 /\ fresh.marks = NotSaving.marks
    BY <1>1, NotSavingTyped DEF NotSaving, Saves
  <1>3. saves' = [saves EXCEPT ![s] = fresh] /\ rows' = rows
    BY DEF BeginSave
  <1> QED
    BY <1>2, <1>3, NotSavingTyped, Anew

LEMMA Over ==
  ASSUME MonthInv, NEW s \in Savers, saves' = [saves EXCEPT ![s] = NotSaving], rows' = rows
  PROVE  MonthInv'
  BY Anew, NotSavingIsSave, NotSavingTyped

LEMMA MonthPreserved == MonthInv /\ [MonthNext]_monthVars => MonthInv'
  <1> SUFFICES ASSUME MonthInv, [MonthNext]_monthVars
               PROVE  MonthInv'
    OBVIOUS
  <1>1. ASSUME NEW s \in Savers, NEW form \in Forms, BeginSave(s, form)
        PROVE  MonthInv'
    BY <1>1, Beginning
  <1>2. ASSUME NEW s \in Savers, SaveStep(s)
        PROVE  MonthInv'
    <2>1. CASE RejectSave(s)
      BY <2>1, Over DEF RejectSave
    <2>2. CASE PassOver(s)
      BY <2>2, PassingOver
    <2>3. CASE MarkWeek(s)
      BY <2>3, Marking
    <2>4. CASE CommitSave(s)
      BY <2>4, Committing
    <2> QED
      BY <1>2, <2>1, <2>2, <2>3, <2>4 DEF SaveStep
  <1>3. ASSUME NEW s \in Savers, KillSave(s)
        PROVE  MonthInv'
    BY <1>3, Over DEF KillSave
  <1>4. CASE UNCHANGED monthVars
    BY <1>4, Untouched DEF monthVars, MonthInv, MonthTypeOK
  <1> QED
    BY <1>1, <1>2, <1>3, <1>4 DEF MonthNext

\* Every reachable state of the saves of a month is well typed, and what an open
\* transaction has written or passed over is what its form says.
THEOREM MonthInvariance == MonthSpec => []MonthInv
  <1> QED
    BY MonthInitially, MonthPreserved, PTL DEF MonthSpec

(***************************************************************************)
(* Refinement                                                              *)
(***************************************************************************)
Pending == [s \in Savers |-> IF saves[s].next = 0 THEN Blank ELSE saves[s].form]
Filled == [s \in Savers |-> saves[s].filled]

\* A save is under way in the ledger when it is here.
LEMMA SavingInLedger ==
  ASSUME MonthInv, NEW s \in Savers
  PROVE  Pending[s] \in Forms <=> saves[s].next # 0
  BY BlankAssumption DEF Pending, MonthInv, MonthTypeOK, Saves

LEMMA StartsAsLedger == MonthInit => L!Init
  BY NotSavingTyped DEF MonthInit, L!Init

LEMMA BeginsAsLedger ==
  ASSUME MonthInv, NEW s \in Savers, NEW form \in Forms, BeginSave(s, form)
  PROVE  L!Begin(s, form)
  <1> DEFINE fresh == [NotSaving EXCEPT !.form = form, !.next = 1]
  <1>1. /\ saves[s].next = 0
        /\ saves' = [saves EXCEPT ![s] = fresh]
        /\ rows' = rows
    BY DEF BeginSave
  <1>2. fresh.form = form /\ fresh.next = 1 /\ fresh.filled = {}
    BY NotSavingTyped DEF NotSaving
  <1>3. \A t \in Savers : saves'[t] = IF t = s THEN fresh ELSE saves[t]
    BY <1>1 DEF MonthInv, MonthTypeOK
  <1>4. Pending' = [Pending EXCEPT ![s] = form]
    <2>1. ASSUME NEW t \in Savers
          PROVE  (IF saves'[t].next = 0 THEN Blank ELSE saves'[t].form) = IF t = s THEN form ELSE Pending[t]
      <3>1. CASE t = s
        <4>1. saves'[t].next = 1 /\ saves'[t].form = form
          BY <1>2, <1>3, <3>1
        <4> QED
          BY <3>1, <4>1
      <3>2. CASE t # s
        BY <1>3, <3>2 DEF Pending
      <3> QED
        BY <3>1, <3>2
    <2> QED
      BY <2>1 DEF Pending
  <1>5. Filled' = [Filled EXCEPT ![s] = {}]
    BY <1>2, <1>3 DEF Filled
  <1>6. ~(Pending[s] \in Forms)
    BY <1>1, SavingInLedger
  <1> QED
    BY <1>1, <1>4, <1>5, <1>6 DEF L!Begin, L!Saving, L!Forms, Forms, Pending, Filled

LEMMA FailsAsLedger ==
  ASSUME MonthInv, NEW s \in Savers, saves[s].next # 0, saves' = [saves EXCEPT ![s] = NotSaving],
         rows' = rows
  PROVE  L!Fail(s)
  <1>1. \A t \in Savers : saves'[t] = IF t = s THEN NotSaving ELSE saves[t]
    BY DEF MonthInv, MonthTypeOK
  <1>2. Pending' = [Pending EXCEPT ![s] = Blank]
    <2>1. ASSUME NEW t \in Savers
          PROVE  (IF saves'[t].next = 0 THEN Blank ELSE saves'[t].form) = IF t = s THEN Blank ELSE Pending[t]
      BY <1>1, NotSavingTyped DEF Pending
    <2> QED
      BY <2>1 DEF Pending
  <1>3. Filled' = [Filled EXCEPT ![s] = {}]
    <2>1. ASSUME NEW t \in Savers
          PROVE  saves'[t].filled = IF t = s THEN {} ELSE Filled[t]
      BY <1>1, NotSavingTyped DEF Filled
    <2> QED
      BY <2>1 DEF Filled
  <1>4. Pending[s] \in Forms
    BY SavingInLedger
  <1> QED
    BY <1>2, <1>3, <1>4 DEF L!Fail, L!Saving, L!Forms, Forms, Pending, Filled

\* Going from one week to the next is not seen.
LEMMA WeekUnseen ==
  ASSUME MonthInv, NEW s \in Savers, PassOver(s) \/ MarkWeek(s)
  PROVE  UNCHANGED L!vars
  <1>1. AtWeek(s) /\ rows' = rows
    BY DEF PassOver, MarkWeek
  <1>2. saves[s].next # 0 /\ saves[s].next + 1 # 0
    BY <1>1, WeeksCounted DEF AtWeek
  <1>3. /\ saves'[s].next = saves[s].next + 1
        /\ saves'[s].form = saves[s].form
        /\ saves'[s].filled = saves[s].filled
        /\ \A t \in Savers \ {s} : saves'[t] = saves[t]
    BY DEF PassOver, MarkWeek, MonthInv, MonthTypeOK, Saves
  <1>4. Pending' = Pending
    BY <1>2, <1>3 DEF Pending
  <1>5. Filled' = Filled
    BY <1>3 DEF Filled
  <1> QED
    BY <1>1, <1>4, <1>5 DEF L!vars, Pending, Filled

LEMMA TakesAsLedger ==
  ASSUME MonthInv, NEW s \in Savers, CommitSave(s)
  PROVE  L!Take(s)
  <1> DEFINE form == saves[s].form
             marks == saves[s].marks
             kept == {w \in saves[s].filled : form[w] = Blank /\ w \notin DOMAIN marks}
  <1>1. /\ saves[s].next = Cardinality(Weeks) + 1
        /\ rows' = [w \in Weeks |-> IF w \in DOMAIN marks THEN marks[w] ELSE rows[w]]
        /\ saves' = [t \in Savers |->
             IF t = s \/ saves[t].next = 0 THEN NotSaving
             ELSE [saves[t] EXCEPT !.filled = @ \union Entered(s)]]
    BY DEF CommitSave, Entered
  <1>2. saves[s].next # 0
    BY <1>1, WeeksCounted
  <1>3. Pending[s] = form /\ Filled[s] = saves[s].filled
    BY <1>2 DEF Pending, Filled
  <1>4. Pending[s] \in Forms
    BY <1>2, SavingInLedger
  <1>5. Invalid \notin {Pending[s][w] : w \in Weeks}
    BY <1>1, <1>3, Whole
  <1>6. kept \in SUBSET {w \in Filled[s] : Pending[s][w] = Blank}
    BY <1>3
  <1>7. rows' = [w \in Weeks |-> IF w \in kept THEN rows[w] ELSE Pending[s][w]]
    <2>1. ASSUME NEW w \in Weeks
          PROVE  (IF w \in DOMAIN marks THEN marks[w] ELSE rows[w]) = IF w \in kept THEN rows[w] ELSE form[w]
      BY <1>1, Whole
    <2> QED
      BY <1>1, <1>3, <2>1
  <1>8. Entered(s) = {w \in Weeks : Pending[s][w] # Blank}
    <2>1. DOMAIN marks \subseteq Weeks
      BY MarksTyped DEF MonthInv, MonthTypeOK, Saves
    <2> QED
      BY <1>1, <1>3, <2>1, Whole DEF Entered
  <1>9. Filled' = [t \in Savers |-> IF t = s \/ ~(Pending[t] \in Forms) THEN {}
                                    ELSE Filled[t] \union {w \in Weeks : Pending[s][w] # Blank}]
    <2>1. ASSUME NEW t \in Savers
          PROVE  saves'[t].filled = IF t = s \/ ~(Pending[t] \in Forms) THEN {}
                                    ELSE Filled[t] \union {w \in Weeks : Pending[s][w] # Blank}
      BY <1>1, <1>8, NotSavingTyped, SavingInLedger DEF Filled, MonthInv, MonthTypeOK, Saves
    <2> QED
      BY <2>1 DEF Filled
  <1>10. Pending' = [Pending EXCEPT ![s] = Blank]
    <2>1. ASSUME NEW t \in Savers
          PROVE  (IF saves'[t].next = 0 THEN Blank ELSE saves'[t].form) = IF t = s THEN Blank ELSE Pending[t]
      BY <1>1, NotSavingTyped DEF Pending, MonthInv, MonthTypeOK, Saves
    <2> QED
      BY <2>1 DEF Pending
  <1>11. \E k \in SUBSET {w \in Filled[s] : Pending[s][w] = Blank} :
           rows' = [w \in Weeks |-> IF w \in k THEN rows[w] ELSE Pending[s][w]]
    BY <1>6, <1>7
  <1> QED
    BY <1>4, <1>5, <1>9, <1>10, <1>11 DEF L!Take, L!Saving, L!Forms, Forms, Pending, Filled

LEMMA StepsAsLedger == MonthInv /\ [MonthNext]_monthVars => [L!Next]_(L!vars)
  <1> SUFFICES ASSUME MonthInv, [MonthNext]_monthVars
               PROVE  [L!Next]_(L!vars)
    OBVIOUS
  <1>1. ASSUME NEW s \in Savers, NEW form \in Forms, BeginSave(s, form)
        PROVE  L!Next
    BY <1>1, BeginsAsLedger DEF L!Next, L!Forms, Forms
  <1>2. ASSUME NEW s \in Savers, SaveStep(s)
        PROVE  [L!Next]_(L!vars)
    <2>1. CASE RejectSave(s)
      <3>1. saves[s].next # 0
        BY <2>1, WeeksCounted DEF RejectSave, AtWeek
      <3> QED
        BY <2>1, <3>1, FailsAsLedger DEF RejectSave, L!Next, L!End
    <2>2. CASE PassOver(s) \/ MarkWeek(s)
      BY <2>2, WeekUnseen
    <2>3. CASE CommitSave(s)
      BY <2>3, TakesAsLedger DEF L!Next, L!End
    <2> QED
      BY <1>2, <2>1, <2>2, <2>3 DEF SaveStep
  <1>3. ASSUME NEW s \in Savers, KillSave(s)
        PROVE  L!Next
    <2>1. saves[s].next # 0
      BY <1>3, WeeksCounted DEF KillSave, MonthInv, MonthTypeOK, Saves
    <2> QED
      BY <1>3, <2>1, FailsAsLedger DEF KillSave, L!Next, L!End
  <1>4. CASE UNCHANGED monthVars
    BY <1>4 DEF monthVars, L!vars
  <1> QED
    BY <1>1, <1>2, <1>3, <1>4 DEF MonthNext

\* Saving a month is one step of the ledger, or none: SavesAreAtomic without its
\* fairness, which only TLC checks.
THEOREM SavesImplementLedger == MonthSpec => L!Init /\ [][L!Next]_(L!vars)
  <1> QED
    BY MonthInvariance, StartsAsLedger, StepsAsLedger, PTL DEF MonthSpec

(***************************************************************************)
(* PartiesImports: weeks on record keep their figures, for any imports and *)
(* documents.  What an import knows when it stores is what every summary   *)
(* said when it read (KnowsHistory), but for races.                        *)
(***************************************************************************)

ListedWeeks == UNION {DOMAIN doc.rows : doc \in Documents}
ListedFigures == UNION {{doc.rows[w] : w \in DOMAIN doc.rows} : doc \in Documents}
Listings == UNION {[weeks -> ListedFigures] : weeks \in SUBSET ListedWeeks}

ImportRecords ==
  [step : {"none", "received", "read", "stored", "ended"}, doc : Documents \union {<<>>},
   history : Listings, raced : SUBSET Imports, rank : Nat, rows : Listings,
   status : {"none", "pending", "failed", "parsed", "conflict", "deleted"}]

ImportsTypeOK == imports \in [Imports -> ImportRecords]

\* A summary holds what was on record when the history was read, and of the rest
\* what the PDF says; it is marked by the two as they were read.
SummaryMerged(i) ==
  /\ imports[i].step # "none" => imports[i].doc \in Documents
  /\ imports[i].step \in {"none", "received", "read"} => imports[i].rank = 0
  /\ imports[i].rank = 0 => imports[i].rows = <<>>
  /\ imports[i].rank > 0 =>
       /\ imports[i].rows = Merged(imports[i].history, imports[i].doc.rows)
       /\ imports[i].status \in {"parsed", "conflict"} =>
            (imports[i].status = "conflict" <=> Conflicts(imports[i].history, imports[i].doc.rows) # {})

\* One import that lists the week was stored while another had read the history.
RaceOn(w) ==
  \E k \in Imports : \E l \in imports[k].raced :
    w \in DOMAIN imports[k].rows \intersect DOMAIN imports[l].rows

\* Of a week on record an import knows the figures that every summary gives, except
\* of those stored since it read the history, and of those that had raced before.
KnowsHistory(j) ==
  imports[j].step = "read" =>
    \A i \in Stored \ imports[j].raced : \A w \in DOMAIN imports[i].rows :
      /\ w \in DOMAIN imports[j].history
      /\ imports[j].history[w] = imports[i].rows[w] \/ RaceOn(w)

ImportsInv ==
  /\ ImportsTypeOK
  /\ \A i \in Imports : SummaryMerged(i) /\ KnowsHistory(i)
  /\ AgreeUnlessRaced

LEMMA EmptyListing == <<>> \in Listings /\ DOMAIN <<>> = {}
  <1>1. DOMAIN <<>> = {}
    OBVIOUS
  <1>2. <<>> = [w \in {} |-> 0]
    BY <1>1
  <1>3. <<>> \in [{} -> ListedFigures]
    BY <1>2
  <1> QED
    BY <1>1, <1>3 DEF Listings

LEMMA ListingTyped ==
  ASSUME NEW listing \in Listings
  PROVE  /\ listing = [w \in DOMAIN listing |-> listing[w]]
         /\ DOMAIN listing \subseteq ListedWeeks
         /\ \A w \in DOMAIN listing : listing[w] \in ListedFigures
  BY DEF Listings

LEMMA DocumentTyped ==
  ASSUME NEW doc \in Documents
  PROVE  doc.week \in Nat /\ doc.rows \in Listings
  <1>1. doc.week \in Nat /\ doc.rows = [w \in DOMAIN doc.rows |-> doc.rows[w]]
    BY DocumentsAssumption
  <1>2. DOMAIN doc.rows \in SUBSET ListedWeeks
    BY DEF ListedWeeks
  <1>3. \A w \in DOMAIN doc.rows : doc.rows[w] \in ListedFigures
    BY DEF ListedFigures
  <1>4. doc.rows \in [DOMAIN doc.rows -> ListedFigures]
    BY <1>1, <1>3
  <1> QED
    BY <1>1, <1>2, <1>4 DEF Listings

\* A week on record keeps its figures.
LEMMA MergedTyped ==
  ASSUME NEW history \in Listings, NEW incoming \in Listings
  PROVE  /\ Merged(history, incoming) \in Listings
         /\ DOMAIN Merged(history, incoming) = DOMAIN history \union DOMAIN incoming
         /\ \A w \in DOMAIN history : Merged(history, incoming)[w] = history[w]
         /\ \A w \in DOMAIN incoming \ DOMAIN history : Merged(history, incoming)[w] = incoming[w]
  <1> DEFINE weeks == DOMAIN history \union DOMAIN incoming
             merged == [w \in weeks |-> IF w \in DOMAIN history THEN history[w] ELSE incoming[w]]
  <1>1. Merged(history, incoming) = merged
    BY DEF Merged
  <1>2. weeks \in SUBSET ListedWeeks
    BY ListingTyped
  <1>3. \A w \in weeks : merged[w] \in ListedFigures
    BY ListingTyped
  <1>4. merged \in [weeks -> ListedFigures]
    BY <1>3
  <1>5. merged \in Listings
    BY <1>2, <1>4 DEF Listings
  <1> QED
    BY <1>1, <1>5

LEMMA StoredTyped ==
  ASSUME ImportsTypeOK, \A i \in Imports : SummaryMerged(i), NEW i \in Stored
  PROVE  /\ i \in Imports
         /\ imports[i].rank \in Nat
         /\ imports[i].doc.week \in Nat
         /\ imports[i].rows \in Listings
  <1>1. i \in Imports /\ imports[i] \in ImportRecords /\ imports[i].rank > 0
    BY DEF Stored, ImportsTypeOK
  <1>2. imports[i].rank # 0
    BY <1>1 DEF ImportRecords
  <1>3. imports[i].doc \in Documents
    BY <1>1, <1>2 DEF SummaryMerged
  <1> QED
    BY <1>1, <1>3, DocumentTyped DEF ImportRecords

LEMMA LeastNumber ==
  ASSUME NEW numbers \in SUBSET Nat, numbers # {}
  PROVE  \E n \in numbers : \A m \in numbers : n <= m
  <1> DEFINE below(n) == {m \in numbers : m < n}
             belows == {below(n) : n \in numbers}
  <1>1. belows \subseteq FiniteSubsetsOf(Nat)
    <2>1. ASSUME NEW n \in numbers
          PROVE  below(n) \in SUBSET Nat /\ IsFiniteSet(below(n))
      <3>1. below(n) \in SUBSET Nat /\ n \in Nat
        OBVIOUS
      <3>2. ASSUME NEW m \in below(n)
            PROVE  m <= n
        <4>1. m < n /\ m \in Nat
          OBVIOUS
        <4> QED
          BY <3>1, <4>1
      <3> HIDE DEF below
      <3> QED
        BY <3>1, <3>2, FS_BoundedSetOfNaturals
    <2> QED
      BY <2>1 DEF FiniteSubsetsOf
  <1>2. belows # {}
    OBVIOUS
  <1>3. PICK least \in belows : \A other \in belows : ~(<<other, least>> \in StrictSubsetOrdering(Nat))
    BY <1>1, <1>2, FS_StrictSubsetOrderingWellFounded, WFMin
  <1>4. PICK n \in numbers : least = below(n)
    OBVIOUS
  <1>5. ASSUME NEW m \in numbers, m < n
        PROVE  FALSE
    <2>1. m \in below(n) /\ m \notin below(m)
      BY <1>5
    <2>2. ASSUME NEW k \in below(m)
          PROVE  k \in below(n)
      <3>1. k \in numbers /\ k < m /\ k \in Nat /\ m \in Nat /\ n \in Nat
        OBVIOUS
      <3>2. k < n
        BY <1>5, <3>1
      <3> QED
        BY <3>1, <3>2
    <2>3. below(m) \in SUBSET Nat /\ below(n) \in SUBSET Nat
      OBVIOUS
    <2>4. <<below(m), below(n)>> \in StrictSubsetOrdering(Nat)
      BY <2>1, <2>2, <2>3 DEF StrictSubsetOrdering
    <2> QED
      BY <1>3, <1>4, <2>4
  <1>6. \A m \in numbers : n <= m
    BY <1>5
  <1> QED
    BY <1>6

\* Among the summaries that list a week there is a first.
LEMMA FirstListed ==
  ASSUME ImportsTypeOK, \A i \in Imports : SummaryMerged(i), NEW w, Listing(w) # {}
  PROVE  \E i \in Listing(w) : \A j \in Listing(w) : Precedes(i, j)
  <1> DEFINE week(i) == imports[i].doc.week
             rank(i) == imports[i].rank
  <1>1. \A i \in Listing(w) : week(i) \in Nat /\ rank(i) \in Nat
    BY StoredTyped DEF Listing
  <1>2. PICK i1 \in Listing(w) : \A j \in Listing(w) : week(i1) <= week(j)
    <2>1. {week(i) : i \in Listing(w)} \in SUBSET Nat /\ {week(i) : i \in Listing(w)} # {}
      BY <1>1
    <2>2. PICK n \in {week(i) : i \in Listing(w)} : \A m \in {week(i) : i \in Listing(w)} : n <= m
      BY <2>1, LeastNumber
    <2> QED
      BY <2>2
  <1>3. PICK i2 \in {i \in Listing(w) : week(i) = week(i1)} :
          \A j \in {i \in Listing(w) : week(i) = week(i1)} : rank(i2) <= rank(j)
    <2> DEFINE ranks == {rank(i) : i \in {i \in Listing(w) : week(i) = week(i1)}}
    <2>1. ranks \in SUBSET Nat /\ ranks # {}
      BY <1>1
    <2>2. PICK n \in ranks : \A m \in ranks : n <= m
      BY <2>1, LeastNumber
    <2> QED
      BY <2>2
  <1>4. ASSUME NEW j \in Listing(w)
        PROVE  Precedes(i2, j)
    <2>1. week(i2) = week(i1) /\ week(i1) <= week(j) /\ week(i1) \in Nat /\ week(j) \in Nat
      BY <1>1, <1>2, <1>3
    <2>2. CASE week(j) = week(i1)
      BY <1>3, <2>1, <2>2 DEF Precedes
    <2>3. CASE week(j) # week(i1)
      BY <2>1, <2>3 DEF Precedes
    <2> QED
      BY <2>2, <2>3
  <1> QED
    BY <1>3, <1>4

\* The history of a week is what some stored summary gives for it.
LEMMA HistoryListed ==
  ASSUME ImportsTypeOK, \A i \in Imports : SummaryMerged(i)
  PROVE  /\ History \in Listings
         /\ DOMAIN History = UNION {DOMAIN imports[i].rows : i \in Stored}
         /\ \A w \in DOMAIN History : \E i \in Listing(w) : History[w] = imports[i].rows[w]
  <1> DEFINE weeks == UNION {DOMAIN imports[i].rows : i \in Stored}
             first(w) == CHOOSE i \in Listing(w) : \A j \in Listing(w) : Precedes(i, j)
  <1>1. History = [w \in weeks |-> imports[first(w)].rows[w]]
    BY DEF History
  <1>2. ASSUME NEW w \in weeks
        PROVE  first(w) \in Listing(w)
    <2>1. Listing(w) # {}
      BY DEF Listing
    <2>2. \E i \in Listing(w) : \A j \in Listing(w) : Precedes(i, j)
      BY <2>1, FirstListed
    <2> QED
      BY <2>2
  <1>3. weeks \in SUBSET ListedWeeks
    BY StoredTyped, ListingTyped
  <1>4. ASSUME NEW w \in weeks
        PROVE  imports[first(w)].rows[w] \in ListedFigures
    BY <1>2, StoredTyped, ListingTyped DEF Listing
  <1> HIDE DEF first
  <1>5. History \in [weeks -> ListedFigures]
    BY <1>1, <1>4
  <1> QED
    BY <1>1, <1>2, <1>3, <1>5 DEF Listings

LEMMA ImportsInitially == ImportsInit => ImportsInv
  <1> SUFFICES ASSUME ImportsInit
               PROVE  ImportsInv
    OBVIOUS
  <1>1. NotReceived \in ImportRecords
    BY EmptyListing DEF NotReceived, ImportRecords
  <1>2. \A i \in Imports : imports[i] = NotReceived
    BY DEF ImportsInit
  <1>3. /\ NotReceived.step = "none"
        /\ NotReceived.rank = 0
        /\ NotReceived.rows = <<>>
    BY DEF NotReceived
  <1>4. ImportsTypeOK
    BY <1>1 DEF ImportsInit, ImportsTypeOK
  <1>5. Stored = {}
    BY <1>2, <1>3 DEF Stored
  <1>6. \A i \in Imports : SummaryMerged(i) /\ KnowsHistory(i)
    BY <1>2, <1>3 DEF SummaryMerged, KnowsHistory
  <1> QED
    BY <1>4, <1>5, <1>6 DEF ImportsInv, AgreeUnlessRaced

\* A step of one import that stores no summary disturbs no other's.
LEMMA NothingStored ==
  ASSUME ImportsInv, NEW i \in Imports, NEW fresh \in ImportRecords,
         imports' = [imports EXCEPT ![i] = fresh],
         fresh.rank = imports[i].rank, fresh.rows = imports[i].rows,
         fresh.raced = imports[i].raced,
         fresh.rank > 0 /\ fresh.status # "deleted" => imports[i].status # "deleted",
         SummaryMerged(i)', KnowsHistory(i)'
  PROVE  ImportsInv'
  <1>1. imports'[i] = fresh /\ \A j \in Imports \ {i} : imports'[j] = imports[j]
    BY DEF ImportsInv, ImportsTypeOK
  <1>2. ImportsTypeOK'
    BY DEF ImportsInv, ImportsTypeOK
  <1>3. \A j \in Imports : /\ imports'[j].rank = imports[j].rank
                            /\ imports'[j].rows = imports[j].rows
                            /\ imports'[j].raced = imports[j].raced
    BY <1>1
  <1>4. Stored' \subseteq Stored
    BY <1>1 DEF Stored
  <1>5. \A w : RaceOn(w)' <=> RaceOn(w)
    <2>1. \A j \in Imports : imports[j].raced \subseteq Imports
      BY DEF ImportsInv, ImportsTypeOK, ImportRecords
    <2> QED
      BY <1>3, <2>1 DEF RaceOn
  <1>6. \A j \in Imports : SummaryMerged(j)'
    BY <1>1 DEF ImportsInv, SummaryMerged
  <1>7. \A j \in Imports : KnowsHistory(j)'
    <2>1. ASSUME NEW j \in Imports \ {i}
          PROVE  KnowsHistory(j)'
      <3>1. KnowsHistory(j) /\ imports'[j] = imports[j] /\ \A k \in Stored : k \in Imports
        BY <1>1 DEF ImportsInv, Stored
      <3> QED
        BY <1>3, <1>4, <1>5, <3>1 DEF KnowsHistory
    <2> QED
      BY <2>1
  <1>8. AgreeUnlessRaced'
    <2> SUFFICES ASSUME NEW j \in Stored', NEW k \in Stored', NEW w \in DOMAIN imports'[j].rows,
                        Differ(j, k, w)'
                 PROVE  RaceOn(w)'
      BY DEF AgreeUnlessRaced, RaceOn
    <2>1. j \in Stored /\ k \in Stored /\ j \in Imports /\ k \in Imports
      BY <1>4 DEF Stored
    <2>2. w \in DOMAIN imports[j].rows /\ Differ(j, k, w)
      BY <1>3, <2>1 DEF Differ
    <2> QED
      BY <1>5, <2>1, <2>2 DEF ImportsInv, AgreeUnlessRaced, RaceOn
  <1> QED
    BY <1>2, <1>6, <1>7, <1>8 DEF ImportsInv

\* A step that leaves rank, rows, history and raced of its import alone, and reads
\* nothing, needs to be looked at for the import itself only.
LEMMA OnlyStatus ==
  ASSUME ImportsInv, NEW i \in Imports, NEW fresh \in ImportRecords,
         imports' = [imports EXCEPT ![i] = fresh],
         fresh.rank = imports[i].rank, fresh.rows = imports[i].rows,
         fresh.raced = imports[i].raced, fresh.history = imports[i].history,
         fresh.doc = imports[i].doc,
         fresh.step = imports[i].step \/ (fresh.step = "ended" /\ imports[i].step # "none"),
         fresh.status \in {imports[i].status, "pending", "failed", "deleted"},
         imports[i].status # "deleted" \/ fresh.status = "deleted"
  PROVE  ImportsInv'
  <1>1. imports'[i] = fresh /\ \A j \in Imports \ {i} : imports'[j] = imports[j]
    BY DEF ImportsInv, ImportsTypeOK
  <1>2. SummaryMerged(i) /\ KnowsHistory(i)
    BY DEF ImportsInv
  <1>3. SummaryMerged(i)'
    BY <1>1, <1>2 DEF SummaryMerged
  <1>4. \A j \in Imports : /\ imports'[j].rows = imports[j].rows
                            /\ imports'[j].raced = imports[j].raced
    BY <1>1
  <1>5. Stored' \subseteq Stored
    BY <1>1 DEF Stored
  <1>6. \A w : RaceOn(w) => RaceOn(w)'
    <2>1. \A j \in Imports : imports[j].raced \subseteq Imports
      BY DEF ImportsInv, ImportsTypeOK, ImportRecords
    <2> QED
      BY <1>4, <2>1 DEF RaceOn
  <1>7. KnowsHistory(i)'
    <2> SUFFICES ASSUME fresh.step = "read", NEW k \in Stored' \ fresh.raced, NEW w \in DOMAIN imports'[k].rows
                 PROVE  /\ w \in DOMAIN fresh.history
                        /\ fresh.history[w] = imports'[k].rows[w] \/ RaceOn(w)'
      BY <1>1 DEF KnowsHistory
    <2>1. imports[i].step = "read"
      OBVIOUS
    <2>2. k \in Stored \ imports[i].raced /\ k \in Imports
      BY <1>5 DEF Stored
    <2>3. w \in DOMAIN imports[k].rows
      BY <1>4, <2>2
    <2>4. w \in DOMAIN imports[i].history /\ (imports[i].history[w] = imports[k].rows[w] \/ RaceOn(w))
      BY <1>2, <2>1, <2>2, <2>3 DEF KnowsHistory
    <2> QED
      BY <1>4, <1>6, <2>2, <2>4
  <1> QED
    BY <1>3, <1>7, NothingStored

LEMMA ReceiveImportKeeps ==
  ASSUME ImportsInv, NEW i \in Imports, NEW doc \in Documents, ReceiveImport(i, doc)
  PROVE  ImportsInv'
  <1> DEFINE fresh == [imports[i] EXCEPT !.step = "received", !.doc = doc, !.status = "pending"]
  <1>1. imports[i].step = "none" /\ imports' = [imports EXCEPT ![i] = fresh]
    BY DEF ReceiveImport
  <1>2. imports[i] \in ImportRecords /\ SummaryMerged(i)
    BY DEF ImportsInv, ImportsTypeOK
  <1>3. /\ fresh \in ImportRecords
        /\ fresh.step = "received"
        /\ fresh.doc = doc
        /\ fresh.rank = imports[i].rank
        /\ fresh.rows = imports[i].rows
        /\ fresh.raced = imports[i].raced
    BY <1>2 DEF ImportRecords
  <1> HIDE DEF fresh
  <1>4. imports'[i] = fresh
    BY <1>1 DEF ImportsInv, ImportsTypeOK
  <1>5. SummaryMerged(i)' /\ KnowsHistory(i)'
    BY <1>1, <1>2, <1>3, <1>4 DEF SummaryMerged, KnowsHistory
  <1>6. ~(fresh.rank > 0)
    BY <1>1, <1>2, <1>3 DEF SummaryMerged
  <1> QED
    BY <1>1, <1>3, <1>5, <1>6, NothingStored

LEMMA ReadHistoryKeeps ==
  ASSUME ImportsInv, NEW i \in Imports, ReadHistory(i)
  PROVE  ImportsInv'
  <1> DEFINE fresh == [imports[i] EXCEPT !.step = "read", !.history = History]
  <1>1. imports[i].step = "received" /\ imports' = [imports EXCEPT ![i] = fresh]
    BY DEF ReadHistory
  <1>2. imports[i] \in ImportRecords /\ SummaryMerged(i)
    BY DEF ImportsInv, ImportsTypeOK
  <1>3. /\ History \in Listings
        /\ DOMAIN History = UNION {DOMAIN imports[k].rows : k \in Stored}
        /\ \A w \in DOMAIN History : \E k \in Listing(w) : History[w] = imports[k].rows[w]
    BY HistoryListed DEF ImportsInv
  <1>4. /\ fresh \in ImportRecords
        /\ fresh.step = "read"
        /\ fresh.history = History
        /\ fresh.doc = imports[i].doc
        /\ fresh.rank = imports[i].rank
        /\ fresh.rows = imports[i].rows
        /\ fresh.raced = imports[i].raced
        /\ fresh.status = imports[i].status
    BY <1>2, <1>3 DEF ImportRecords
  <1> HIDE DEF fresh
  <1>5. imports'[i] = fresh /\ \A j \in Imports \ {i} : imports'[j] = imports[j]
    BY <1>1 DEF ImportsInv, ImportsTypeOK
  <1>6. SummaryMerged(i)'
    BY <1>1, <1>2, <1>4, <1>5 DEF SummaryMerged
  <1>7. Stored' \subseteq Stored /\ \A j \in Imports : imports'[j].rows = imports[j].rows /\ imports'[j].raced = imports[j].raced
    BY <1>4, <1>5 DEF Stored
  <1>8. KnowsHistory(i)'
    <2> SUFFICES ASSUME NEW k \in Stored', NEW w \in DOMAIN imports'[k].rows
                 PROVE  w \in DOMAIN History /\ (History[w] = imports'[k].rows[w] \/ RaceOn(w)')
      BY <1>4, <1>5 DEF KnowsHistory
    <2>1. k \in Stored /\ k \in Imports /\ imports'[k].rows = imports[k].rows
      BY <1>7 DEF Stored
    <2>2. w \in DOMAIN History
      BY <1>3, <2>1
    <2>3. PICK first \in Listing(w) : History[w] = imports[first].rows[w]
      BY <1>3, <2>2
    <2>4. first \in Stored /\ w \in DOMAIN imports[first].rows
      BY DEF Listing
    <2>5. Differ(k, first, w) => RaceOn(w)
      BY <2>1, <2>4 DEF ImportsInv, AgreeUnlessRaced, RaceOn
    <2>6. RaceOn(w) => RaceOn(w)'
      <3>1. \A j \in Imports : imports[j].raced \subseteq Imports
        BY DEF ImportsInv, ImportsTypeOK, ImportRecords
      <3> QED
        BY <1>7, <3>1 DEF RaceOn
    <2> QED
      BY <2>1, <2>2, <2>3, <2>4, <2>5, <2>6 DEF Differ
  <1> QED
    BY <1>1, <1>4, <1>6, <1>8, NothingStored

LEMMA FailImportKeeps ==
  ASSUME ImportsInv, NEW i \in Imports, FailImport(i)
  PROVE  ImportsInv'
  <1> DEFINE failed == IF imports[i].status = "deleted" THEN "deleted" ELSE "failed"
             fresh == [imports[i] EXCEPT !.step = "ended", !.status = failed]
  <1>1. imports[i].step = "received" /\ imports' = [imports EXCEPT ![i] = fresh]
    BY DEF FailImport
  <1>2. imports[i] \in ImportRecords
    BY DEF ImportsInv, ImportsTypeOK
  <1>3. /\ fresh \in ImportRecords
        /\ fresh.step = "ended"
        /\ fresh.history = imports[i].history
        /\ fresh.doc = imports[i].doc
        /\ fresh.rank = imports[i].rank
        /\ fresh.rows = imports[i].rows
        /\ fresh.raced = imports[i].raced
        /\ fresh.status = failed
    BY <1>2 DEF ImportRecords
  <1> HIDE DEF fresh
  <1> QED
    BY <1>1, <1>3, OnlyStatus

\* The upload is gone, or its worker is.
LEMMA EndKeeps ==
  ASSUME ImportsInv, NEW i \in Imports, MissUpload(i) \/ KillImport(i)
  PROVE  ImportsInv'
  <1> DEFINE fresh == [imports[i] EXCEPT !.step = "ended"]
  <1>1. imports[i].step # "none" /\ imports' = [imports EXCEPT ![i] = fresh]
    BY DEF MissUpload, KillImport
  <1>2. imports[i] \in ImportRecords
    BY DEF ImportsInv, ImportsTypeOK
  <1>3. /\ fresh \in ImportRecords
        /\ fresh.step = "ended"
        /\ fresh.history = imports[i].history
        /\ fresh.doc = imports[i].doc
        /\ fresh.rank = imports[i].rank
        /\ fresh.rows = imports[i].rows
        /\ fresh.raced = imports[i].raced
        /\ fresh.status = imports[i].status
    BY <1>2 DEF ImportRecords
  <1> HIDE DEF fresh
  <1> QED
    BY <1>1, <1>3, OnlyStatus

LEMMA MarkImportKeeps ==
  ASSUME ImportsInv, NEW i \in Imports, MarkImport(i)
  PROVE  ImportsInv'
  <1> DEFINE differing == Conflicts(imports[i].history, imports[i].doc.rows)
             marked == IF differing = {} THEN "parsed" ELSE "conflict"
             fresh == [imports[i] EXCEPT !.step = "ended", !.status = marked]
  <1>1. /\ imports[i].step = "stored"
        /\ imports[i].status = "pending"
        /\ imports' = [imports EXCEPT ![i] = fresh]
    BY DEF MarkImport
  <1>2. imports[i] \in ImportRecords /\ SummaryMerged(i)
    BY DEF ImportsInv, ImportsTypeOK
  <1>3. /\ fresh \in ImportRecords
        /\ fresh.step = "ended"
        /\ fresh.history = imports[i].history
        /\ fresh.doc = imports[i].doc
        /\ fresh.rank = imports[i].rank
        /\ fresh.rows = imports[i].rows
        /\ fresh.raced = imports[i].raced
        /\ fresh.status = marked
    BY <1>2 DEF ImportRecords
  <1>4. marked = "conflict" <=> differing # {}
    OBVIOUS
  <1> HIDE DEF fresh, marked
  <1>5. imports'[i] = fresh
    BY <1>1 DEF ImportsInv, ImportsTypeOK
  <1>6. SummaryMerged(i)'
    BY <1>1, <1>2, <1>3, <1>4, <1>5 DEF SummaryMerged
  <1>7. KnowsHistory(i)'
    BY <1>3, <1>5 DEF KnowsHistory
  <1> QED
    BY <1>1, <1>3, <1>6, <1>7, NothingStored

LEMMA DeleteImportKeeps ==
  ASSUME ImportsInv, NEW i \in Imports, DeleteImport(i)
  PROVE  ImportsInv'
  <1> DEFINE fresh == [imports[i] EXCEPT !.status = "deleted"]
  <1>1. imports[i].status # "none" /\ imports' = [imports EXCEPT ![i] = fresh]
    BY DEF DeleteImport
  <1>2. imports[i] \in ImportRecords
    BY DEF ImportsInv, ImportsTypeOK
  <1>3. /\ fresh \in ImportRecords
        /\ fresh.step = imports[i].step
        /\ fresh.history = imports[i].history
        /\ fresh.doc = imports[i].doc
        /\ fresh.rank = imports[i].rank
        /\ fresh.rows = imports[i].rows
        /\ fresh.raced = imports[i].raced
        /\ fresh.status = "deleted"
    BY <1>2 DEF ImportRecords
  <1> HIDE DEF fresh
  <1> QED
    BY <1>1, <1>3, OnlyStatus

\* What is stored gives every week the figures of the history, or is the race itself.
LEMMA StoreSummaryKeeps ==
  ASSUME ImportsInv, NEW i \in Imports, StoreSummary(i)
  PROVE  ImportsInv'
  <1> DEFINE merged == Merged(imports[i].history, imports[i].doc.rows)
             rank == Cardinality({k \in Imports : imports[k].rank > 0}) + 1
             fresh == [imports[i] EXCEPT !.step = "stored", !.rows = merged, !.rank = rank]
             raced(j) == IF imports[j].step = "read" THEN imports[j].raced \union {i} ELSE imports[j].raced
             told(j) == [imports[j] EXCEPT !.raced = raced(j)]
  <1>1. /\ imports[i].step = "read"
        /\ imports[i].status = "pending"
        /\ imports' = [j \in Imports |-> IF j = i THEN fresh ELSE told(j)]
    BY DEF StoreSummary
  <1>2. \A j \in Imports : imports[j] \in ImportRecords /\ SummaryMerged(j) /\ KnowsHistory(j)
    BY DEF ImportsInv, ImportsTypeOK
  <1>3. imports[i].rank = 0 /\ imports[i].rows = <<>> /\ imports[i].doc \in Documents
    BY <1>1, <1>2 DEF SummaryMerged
  <1>4. merged \in Listings
    BY <1>2, <1>3, DocumentTyped, MergedTyped DEF ImportRecords
  <1>5. rank \in Nat /\ rank > 0
    <2>1. {k \in Imports : imports[k].rank > 0} \in SUBSET Imports
      OBVIOUS
    <2>2. Cardinality({k \in Imports : imports[k].rank > 0}) \in Nat
      BY <2>1, ImportsAssumption, FS_Subset, FS_CardinalityType
    <2> QED
      BY <2>2
  <1> HIDE DEF merged, rank
  <1>6. /\ fresh \in ImportRecords
        /\ fresh.step = "stored"
        /\ fresh.doc = imports[i].doc
        /\ fresh.history = imports[i].history
        /\ fresh.raced = imports[i].raced
        /\ fresh.rank = rank
        /\ fresh.rows = merged
        /\ fresh.status = "pending"
    <2>1. imports[i] \in ImportRecords
      BY <1>2
    <2> QED
      BY <1>1, <1>4, <1>5, <2>1 DEF ImportRecords
  <1>7. ASSUME NEW j \in Imports \ {i}
        PROVE  /\ told(j) \in ImportRecords
               /\ told(j).step = imports[j].step
               /\ told(j).doc = imports[j].doc
               /\ told(j).history = imports[j].history
               /\ told(j).raced = raced(j)
               /\ told(j).rank = imports[j].rank
               /\ told(j).rows = imports[j].rows
               /\ told(j).status = imports[j].status
    <2>1. raced(j) \in SUBSET Imports
      BY <1>2 DEF ImportRecords
    <2> HIDE DEF raced
    <2> QED
      BY <1>2, <2>1 DEF ImportRecords
  <1> HIDE DEF fresh, told
  <1>8. imports'[i] = fresh /\ \A j \in Imports \ {i} : imports'[j] = told(j)
    BY <1>1
  <1>9. ImportsTypeOK'
    BY <1>1, <1>6, <1>7 DEF ImportsTypeOK
  <1>10. \A j \in Imports : SummaryMerged(j)'
    <2>1. SummaryMerged(i)'
      BY <1>2, <1>3, <1>5, <1>6, <1>8 DEF SummaryMerged, merged
    <2>2. ASSUME NEW j \in Imports \ {i}
          PROVE  SummaryMerged(j)'
      <3>1. /\ imports'[j].step = imports[j].step
            /\ imports'[j].doc = imports[j].doc
            /\ imports'[j].history = imports[j].history
            /\ imports'[j].rank = imports[j].rank
            /\ imports'[j].rows = imports[j].rows
            /\ imports'[j].status = imports[j].status
        BY <1>7, <1>8
      <3>2. SummaryMerged(j)
        BY <1>2
      <3> QED
        BY <3>1, <3>2 DEF SummaryMerged
    <2> QED
      BY <2>1, <2>2
  <1>11. Stored' \subseteq Stored \union {i} /\ i \notin Stored
    <2>1. ASSUME NEW j \in Stored', j # i
          PROVE  j \in Stored
      <3>1. j \in Imports \ {i} /\ imports'[j].rank > 0 /\ imports'[j].status # "deleted"
        BY <2>1 DEF Stored
      <3>2. imports'[j].rank = imports[j].rank /\ imports'[j].status = imports[j].status
        BY <1>7, <1>8, <3>1
      <3> QED
        BY <3>1, <3>2 DEF Stored
    <2>2. i \notin Stored
      BY <1>3 DEF Stored
    <2> QED
      BY <2>1, <2>2
  <1>12. \A j \in Imports : imports[j].raced \subseteq Imports
    BY <1>2 DEF ImportRecords
  <1>13. \A w : RaceOn(w) => RaceOn(w)'
    <2> SUFFICES ASSUME NEW w, NEW k \in Imports, NEW l \in imports[k].raced,
                        w \in DOMAIN imports[k].rows, w \in DOMAIN imports[l].rows
                 PROVE  RaceOn(w)'
      BY DEF RaceOn
    <2>1. k # i /\ l # i /\ l \in Imports
      BY <1>3, <1>12, EmptyListing
    <2>2. l \in imports'[k].raced
      BY <1>7, <1>8, <2>1
    <2> QED
      BY <1>7, <1>8, <2>1, <2>2 DEF RaceOn
  \* A summary and one of those stored before.
  <1>14. ASSUME NEW j \in Stored, NEW w \in DOMAIN imports[j].rows, w \in DOMAIN merged, merged[w] # imports[j].rows[w]
         PROVE  RaceOn(w)'
    <2>1. j \in Imports \ {i}
      BY <1>11 DEF Stored
    <2>2. CASE j \in imports[i].raced
      BY <1>6, <1>7, <1>8, <1>14, <2>1, <2>2 DEF RaceOn
    <2>3. CASE j \notin imports[i].raced
      <3>1. w \in DOMAIN imports[i].history /\ (imports[i].history[w] = imports[j].rows[w] \/ RaceOn(w))
        BY <1>1, <1>2, <2>3 DEF KnowsHistory
      <3>2. imports[i].history \in Listings /\ imports[i].doc.rows \in Listings
        BY <1>2, <1>3, DocumentTyped DEF ImportRecords
      <3>3. merged[w] = imports[i].history[w]
        BY <3>1, <3>2, MergedTyped DEF merged
      <3> QED
        BY <1>13, <1>14, <3>1, <3>3
    <2> QED
      BY <2>2, <2>3
  <1>15. AgreeUnlessRaced'
    <2> SUFFICES ASSUME NEW j \in Stored', NEW k \in Stored', NEW w \in DOMAIN imports'[j].rows,
                        Differ(j, k, w)'
                 PROVE  RaceOn(w)'
      BY DEF AgreeUnlessRaced, RaceOn
    <2>1. /\ w \in DOMAIN imports'[j].rows
          /\ w \in DOMAIN imports'[k].rows
          /\ imports'[j].rows[w] # imports'[k].rows[w]
      BY DEF Differ
    <2>2. j \in Stored \union {i} /\ k \in Stored \union {i} /\ j # k
      BY <1>11, <2>1
    <2>3. \A m \in Stored : m \in Imports \ {i} /\ imports'[m].rows = imports[m].rows
      BY <1>7, <1>8, <1>11 DEF Stored
    <2>4. CASE j = i
      BY <1>6, <1>8, <1>14, <2>1, <2>2, <2>3, <2>4
    <2>5. CASE k = i
      BY <1>6, <1>8, <1>14, <2>1, <2>2, <2>3, <2>5
    <2>6. CASE j # i /\ k # i
      <3>1. j \in Stored /\ k \in Stored
        BY <2>2, <2>6
      <3>2. w \in DOMAIN imports[j].rows /\ Differ(j, k, w)
        BY <2>1, <2>3, <3>1 DEF Differ
      <3>3. RaceOn(w)
        BY <3>1, <3>2 DEF ImportsInv, AgreeUnlessRaced, RaceOn
      <3> QED
        BY <1>13, <3>3
    <2> QED
      BY <2>4, <2>5, <2>6
  <1>16. ASSUME NEW j \in Imports
         PROVE  KnowsHistory(j)'
    <2>1. CASE j = i
      BY <1>6, <1>8, <2>1 DEF KnowsHistory
    <2>2. CASE j # i
      <3> SUFFICES ASSUME imports'[j].step = "read", NEW k \in Stored' \ imports'[j].raced,
                          NEW w \in DOMAIN imports'[k].rows
                   PROVE  /\ w \in DOMAIN imports'[j].history
                          /\ imports'[j].history[w] = imports'[k].rows[w] \/ RaceOn(w)'
        BY DEF KnowsHistory
      <3>1. /\ imports[j].step = "read"
            /\ imports'[j].history = imports[j].history
            /\ imports'[j].raced = imports[j].raced \union {i}
        BY <1>7, <1>8, <2>2
      <3>2. k \in Stored \ imports[j].raced /\ k \in Imports \ {i}
        BY <1>11, <3>1 DEF Stored
      <3>3. imports'[k].rows = imports[k].rows
        BY <1>7, <1>8, <3>2
      <3>4. w \in DOMAIN imports[j].history /\ (imports[j].history[w] = imports[k].rows[w] \/ RaceOn(w))
        BY <1>2, <3>1, <3>2, <3>3 DEF KnowsHistory
      <3> QED
        BY <1>13, <3>1, <3>3, <3>4
    <2> QED
      BY <2>1, <2>2
  <1> QED
    BY <1>9, <1>10, <1>15, <1>16 DEF ImportsInv

LEMMA ImportsPreserved == ImportsInv /\ [ImportsNext]_importVars => ImportsInv'
  <1> SUFFICES ASSUME ImportsInv, [ImportsNext]_importVars
               PROVE  ImportsInv'
    OBVIOUS
  <1>1. ASSUME NEW i \in Imports, NEW doc \in Documents, ReceiveImport(i, doc)
        PROVE  ImportsInv'
    BY <1>1, ReceiveImportKeeps
  <1>2. ASSUME NEW i \in Imports, FailImport(i) \/ ReadHistory(i) \/ StoreSummary(i)
        PROVE  ImportsInv'
    BY <1>2, FailImportKeeps, ReadHistoryKeeps, StoreSummaryKeeps
  <1>3. ASSUME NEW i \in Imports, MarkImport(i) \/ MissUpload(i) \/ KillImport(i) \/ DeleteImport(i)
        PROVE  ImportsInv'
    BY <1>3, MarkImportKeeps, EndKeeps, DeleteImportKeeps
  <1>4. CASE UNCHANGED importVars
    <2>1. imports' = imports
      BY <1>4 DEF importVars
    <2>2. Stored' = Stored /\ \A w : RaceOn(w)' <=> RaceOn(w)
      BY <2>1 DEF Stored, RaceOn
    <2>3. ImportsTypeOK' /\ \A i \in Imports : SummaryMerged(i)'
      BY <2>1 DEF ImportsInv, ImportsTypeOK, SummaryMerged
    <2>4. \A i \in Imports : KnowsHistory(i)'
      BY <2>1, <2>2 DEF ImportsInv, KnowsHistory
    <2>5. AgreeUnlessRaced'
      BY <2>1, <2>2 DEF ImportsInv, AgreeUnlessRaced, Differ
    <2> QED
      BY <2>3, <2>4, <2>5 DEF ImportsInv
  <1> QED
    BY <1>1, <1>2, <1>3, <1>4 DEF ImportsNext

\* The mark compares the history that was read with the PDF, and what is stored
\* differs from the PDF exactly where they do.
LEMMA MarksAreRight == ImportsInv => DifferencesMarked
  <1> SUFFICES ASSUME ImportsInv, NEW i \in Stored, imports[i].status \in {"parsed", "conflict"}
               PROVE  imports[i].status = "conflict"
                        <=> \E w \in DOMAIN imports[i].doc.rows : imports[i].rows[w] # imports[i].doc.rows[w]
    BY DEF DifferencesMarked
  <1> DEFINE history == imports[i].history
             incoming == imports[i].doc.rows
  <1>1. i \in Imports /\ imports[i].rank > 0 /\ imports[i] \in ImportRecords /\ SummaryMerged(i)
    BY DEF Stored, ImportsInv, ImportsTypeOK
  <1>2. /\ imports[i].rows = Merged(history, incoming)
        /\ imports[i].status = "conflict" <=> Conflicts(history, incoming) # {}
    BY <1>1 DEF SummaryMerged
  <1>3. imports[i].rank # 0
    BY <1>1 DEF ImportRecords
  <1>4. history \in Listings /\ incoming \in Listings
    BY <1>1, <1>3, DocumentTyped DEF ImportRecords, SummaryMerged
  <1> HIDE DEF history, incoming
  <1>5. \A w \in DOMAIN incoming :
          imports[i].rows[w] # incoming[w] <=> w \in DOMAIN history /\ history[w] # incoming[w]
    <2>1. /\ \A w \in DOMAIN history : Merged(history, incoming)[w] = history[w]
          /\ \A w \in DOMAIN incoming \ DOMAIN history : Merged(history, incoming)[w] = incoming[w]
      BY <1>4, MergedTyped
    <2> QED
      BY <1>2, <2>1
  <1>6. Conflicts(history, incoming) # {} <=> \E w \in DOMAIN incoming : w \in DOMAIN history /\ history[w] # incoming[w]
    BY DEF Conflicts
  <1> QED
    BY <1>2, <1>5, <1>6 DEF incoming

\* _parse, for any number of imports, deletions and lost workers: no two histories of
\* one week but by a race of two imports, and no PDF's figures passed over unmarked.
THEOREM HistoryStaysAgreed == ImportsSpec => []HistoryAgrees
  <1>1. ImportsInv => HistoryAgrees
    BY MarksAreRight DEF ImportsInv, HistoryAgrees
  <1> QED
    BY ImportsInitially, ImportsPreserved, <1>1, PTL DEF ImportsSpec

(***************************************************************************)
(* Reviews: texts are kept, for any layouts, edits and pages.  A form has  *)
(* every text its request has seen, but those its edit touched (FormKeeps). *)
(***************************************************************************)

Layouts == Seq(Modules)

TabRecords ==
  [step : {"closed", "open", "saving"}, kind : {"none", "settings", "review"}, shown : Layouts,
   cards : Seq(Int), seen : Layouts, form : Layouts, index : Int, touched : SUBSET Int]

ReviewsTypeOK ==
  /\ template \in Layouts \union {Gone}
  /\ edits \in Nat
  /\ tabs \in [Tabs -> TabRecords]

\* A card is of the layout the page was opened with, or of the library.
CardsKnown(tab) == \A place \in DOMAIN tab.cards : tab.cards[place] \in {0} \union DOMAIN tab.shown

\* What a request will save has every text it has seen, but those its edit touched or,
\* after the cards were moved, mistook.
FormKeeps(tab) ==
  tab.step = "saving" => (Texts(tab.seen) \ tab.touched) \ Mistaken(tab) \subseteq Texts(tab.form)

ReviewsInv == ReviewsTypeOK /\ \A t \in Tabs : CardsKnown(tabs[t]) /\ FormKeeps(tabs[t])

LEMMA LayoutTyped ==
  ASSUME NEW layout \in Layouts
  PROVE  /\ Len(layout) \in Nat
         /\ DOMAIN layout = 1..Len(layout)
         /\ \A i \in DOMAIN layout : layout[i] \in Modules
  BY LenProperties, ElementOfSeq DEF Layouts

LEMMA IsLayout ==
  ASSUME NEW n \in Nat, NEW layout \in [1..n -> Modules]
  PROVE  layout \in Layouts /\ DOMAIN layout = 1..n /\ Len(layout) = n
  <1>1. layout \in Layouts
    BY SeqDef DEF Layouts
  <1> QED
    BY <1>1, LayoutTyped

\* A text that stands in a module of the same layout, wherever that is.
LEMMA TextsIncluded ==
  ASSUME NEW a, NEW b, NEW touched,
         \A i \in DOMAIN a : a[i].text \in touched \/ \E j \in DOMAIN b : b[j].text = a[i].text
  PROVE  Texts(a) \ touched \subseteq Texts(b)
  BY DEF Texts

\* The switches of the modules do not touch their texts.
LEMMA CleanedTexts ==
  ASSUME NEW layout \in Layouts
  PROVE  /\ Cleaned(layout) \in Layouts
         /\ DOMAIN Cleaned(layout) = DOMAIN layout
         /\ \A i \in DOMAIN layout : Cleaned(layout)[i].text = layout[i].text
  <1>1. ASSUME NEW i \in DOMAIN layout
        PROVE  Cleaned(layout)[i] \in Modules /\ Cleaned(layout)[i].text = layout[i].text
    <2>1. layout[i] \in Modules
      BY LayoutTyped
    <2> QED
      BY <2>1 DEF Cleaned, Modules
  <1>2. Cleaned(layout) \in [1..Len(layout) -> Modules]
    BY <1>1, LayoutTyped DEF Cleaned
  <1> QED
    BY <1>1, <1>2, LayoutTyped, IsLayout DEF Cleaned

\* What is posted has a module for every card.
LEMMA PostedTyped ==
  ASSUME NEW tab \in TabRecords, CardsKnown(tab)
  PROVE  Posted(tab) \in Layouts /\ DOMAIN Posted(tab) = DOMAIN tab.cards
  <1>1. tab.shown \in Layouts /\ tab.cards \in Seq(Int)
    BY DEF TabRecords
  <1>2. Len(tab.cards) \in Nat /\ DOMAIN tab.cards = 1..Len(tab.cards)
    BY <1>1, LenProperties
  <1>3. ASSUME NEW place \in DOMAIN tab.cards
        PROVE  Posted(tab)[place] \in Modules
    <2>1. CASE tab.cards[place] = 0
      <3>1. Dropped \in Modules
        BY DEF Dropped, Modules
      <3> QED
        BY <2>1, <3>1 DEF Posted
    <2>2. CASE tab.cards[place] # 0
      <3>1. tab.shown[tab.cards[place]] \in Modules
        BY <1>1, <2>2, LayoutTyped DEF CardsKnown
      <3> QED
        BY <2>2, <3>1 DEF Posted, Modules
    <2> QED
      BY <2>1, <2>2
  <1>4. Posted(tab) \in [1..Len(tab.cards) -> Modules]
    BY <1>2, <1>3 DEF Posted
  <1> QED
    BY <1>2, <1>4, IsLayout

LEMMA ChangedModule ==
  ASSUME NEW layout \in Layouts, NEW i \in DOMAIN layout, NEW module \in Modules
  PROVE  /\ [layout EXCEPT ![i] = module] \in Layouts
         /\ DOMAIN [layout EXCEPT ![i] = module] = DOMAIN layout
         /\ \A j \in DOMAIN layout : [layout EXCEPT ![i] = module][j] = IF j = i THEN module ELSE layout[j]
  BY LayoutTyped, ExceptSeq DEF Layouts

LEMMA SwappedTexts ==
  ASSUME NEW layout \in Layouts, NEW i \in DOMAIN layout, NEW j \in DOMAIN layout
  PROVE  /\ Swapped(layout, i, j) \in Layouts
         /\ \A k \in DOMAIN layout : \E l \in DOMAIN Swapped(layout, i, j) : Swapped(layout, i, j)[l] = layout[k]
  <1> DEFINE other(k) == IF k = i THEN j ELSE IF k = j THEN i ELSE k
  <1>1. Swapped(layout, i, j) = [k \in DOMAIN layout |-> layout[other(k)]]
    BY DEF Swapped
  <1>2. \A k \in DOMAIN layout : other(k) \in DOMAIN layout /\ other(other(k)) = k
    OBVIOUS
  <1> HIDE DEF other
  <1>3. Swapped(layout, i, j) \in [1..Len(layout) -> Modules]
    BY <1>1, <1>2, LayoutTyped
  <1> QED
    BY <1>1, <1>2, <1>3, LayoutTyped, IsLayout

LEMMA RemovedTexts ==
  ASSUME NEW layout \in Layouts, NEW i \in DOMAIN layout
  PROVE  /\ RemoveAt(layout, i) \in Layouts
         /\ \A k \in DOMAIN layout \ {i} : \E l \in DOMAIN RemoveAt(layout, i) : RemoveAt(layout, i)[l] = layout[k]
  <1> DEFINE n == Len(layout)
             before == SubSeq(layout, 1, i - 1)
             after == SubSeq(layout, i + 1, n)
  <1>1. n \in Nat /\ i \in 1..n /\ DOMAIN layout = 1..n /\ \A k \in 1..n : layout[k] \in Modules
    BY LayoutTyped
  <1> HIDE DEF n
  <1>2. /\ before \in Layouts
        /\ Len(before) = i - 1
        /\ \A k \in 1..(i - 1) : before[k] = layout[k]
    <2>1. 1 \in Int /\ i - 1 \in Int /\ \A k \in 1..(i - 1) : layout[k] \in Modules
      BY <1>1
    <2>2. /\ before \in Layouts
          /\ Len(before) = IF 1 <= i - 1 THEN (i - 1) - 1 + 1 ELSE 0
          /\ \A k \in 1..((i - 1) - 1 + 1) : before[k] = layout[1 + k - 1]
      BY <2>1, SubSeqProperties DEF Layouts
    <2> QED
      BY <1>1, <2>2
  <1>3. /\ after \in Layouts
        /\ Len(after) = n - i
        /\ \A k \in 1..(n - i) : after[k] = layout[i + k]
    <2>1. i + 1 \in Int /\ n \in Int /\ \A k \in (i + 1)..n : layout[k] \in Modules
      BY <1>1
    <2>2. /\ after \in Layouts
          /\ Len(after) = IF i + 1 <= n THEN n - (i + 1) + 1 ELSE 0
          /\ \A k \in 1..(n - (i + 1) + 1) : after[k] = layout[(i + 1) + k - 1]
      BY <2>1, SubSeqProperties DEF Layouts
    <2> QED
      BY <1>1, <2>2
  <1>4. RemoveAt(layout, i) = before \o after
    BY DEF RemoveAt, n
  <1> HIDE DEF before, after
  <1>5. /\ before \o after \in Layouts
        /\ Len(before \o after) = n - 1
        /\ \A k \in 1..(n - 1) : (before \o after)[k] = IF k <= i - 1 THEN before[k] ELSE after[k - (i - 1)]
    <2>1. /\ before \o after \in Layouts
          /\ Len(before \o after) = Len(before) + Len(after)
          /\ \A k \in 1..(Len(before) + Len(after)) :
               (before \o after)[k] = IF k <= Len(before) THEN before[k] ELSE after[k - Len(before)]
      BY <1>2, <1>3, ConcatProperties DEF Layouts
    <2>2. Len(before) + Len(after) = n - 1
      BY <1>1, <1>2, <1>3
    <2> QED
      BY <1>2, <2>1, <2>2
  <1>6. DOMAIN (before \o after) = 1..(n - 1)
    BY <1>5, LayoutTyped
  <1>7. ASSUME NEW k \in DOMAIN layout \ {i}
        PROVE  \E l \in 1..(n - 1) : (before \o after)[l] = layout[k]
    <2>1. CASE k < i
      <3>1. k \in 1..(n - 1) /\ k \in 1..(i - 1) /\ k <= i - 1
        BY <1>1, <2>1
      <3> QED
        BY <1>2, <1>5, <3>1
    <2>2. CASE k > i
      <3>1. k - 1 \in 1..(n - 1) /\ ~(k - 1 <= i - 1) /\ (k - 1) - (i - 1) = k - i /\ k - i \in 1..(n - i) /\ i + (k - i) = k
        BY <1>1, <2>2
      <3>2. (before \o after)[k - 1] = after[k - i]
        BY <1>5, <3>1
      <3> QED
        BY <1>3, <3>1, <3>2
    <2>3. k \in Nat /\ i \in Nat /\ k # i
      BY <1>1
    <2>4. k < i \/ k > i
      BY <2>3
    <2> QED
      BY <2>1, <2>2, <2>4
  <1> QED
    BY <1>4, <1>5, <1>6, <1>7

\* The buttons move texts about; only remove loses one.
LEMMA ModuleActionTexts ==
  ASSUME NEW layout \in Layouts, NEW i \in DOMAIN layout, NEW action \in Actions
  PROVE  /\ ModuleAction(action, layout, i) \in Layouts
         /\ \A k \in DOMAIN layout :
              \/ action = "remove" /\ layout[k].text = layout[i].text
              \/ \E l \in DOMAIN ModuleAction(action, layout, i) :
                   ModuleAction(action, layout, i)[l].text = layout[k].text
  <1>1. i \in 1..Len(layout) /\ Len(layout) \in Nat /\ DOMAIN layout = 1..Len(layout) /\ layout[i] \in Modules
    BY LayoutTyped
  <1>2. CASE action = "up" /\ i > 1
    <2>1. i - 1 \in DOMAIN layout
      BY <1>1, <1>2
    <2>2. ModuleAction(action, layout, i) = Swapped(layout, i, i - 1)
      BY <1>2 DEF ModuleAction
    <2> QED
      BY <2>1, <2>2, SwappedTexts
  <1>3. CASE action = "down" /\ i < Len(layout)
    <2>1. i + 1 \in DOMAIN layout
      BY <1>1, <1>3
    <2>2. ModuleAction(action, layout, i) = Swapped(layout, i, i + 1)
      BY <1>3 DEF ModuleAction
    <2> QED
      BY <2>1, <2>2, SwappedTexts
  <1>4. CASE action = "toggle"
    <2> DEFINE module == [layout[i] EXCEPT !.on = IF layout[i].on = "yes" THEN "no" ELSE "yes"]
    <2>1. ModuleAction(action, layout, i) = [layout EXCEPT ![i] = module]
      BY <1>1, <1>4 DEF ModuleAction, Modules
    <2>2. module \in Modules /\ module.text = layout[i].text
      BY <1>1 DEF Modules
    <2> HIDE DEF module
    <2> QED
      BY <2>1, <2>2, ChangedModule
  <1>5. CASE action = "remove"
    <2>1. ModuleAction(action, layout, i) = RemoveAt(layout, i)
      BY <1>5 DEF ModuleAction
    <2> QED
      BY <1>5, <2>1, RemovedTexts
  <1>6. CASE /\ ~(action = "up" /\ i > 1)
             /\ ~(action = "down" /\ i < Len(layout))
             /\ action \notin {"toggle", "remove"}
    <2>1. ModuleAction(action, layout, i) = layout
      BY <1>6 DEF ModuleAction
    <2> QED
      BY <2>1
  <1> QED
    BY <1>2, <1>3, <1>4, <1>5, <1>6

LEMMA ClosedTab == Closed \in TabRecords /\ Closed.step = "closed"
  BY EmptySeq DEF Closed, TabRecords, Layouts

LEMMA ReviewsInitially == ReviewsInit => ReviewsInv
  <1>1. CardsKnown(Closed) /\ FormKeeps(Closed)
    BY DEF Closed, CardsKnown, FormKeeps
  <1> QED
    BY <1>1, ClosedTab, LayoutAssumption DEF ReviewsInit, ReviewsInv, ReviewsTypeOK, Layouts

\* A page goes on by itself: the template is as it was, or is now a layout or gone.
LEMMA TabGoesOn ==
  ASSUME ReviewsInv, NEW t \in Tabs, NEW fresh \in TabRecords,
         tabs' = [tabs EXCEPT ![t] = fresh],
         template' \in Layouts \union {Gone}, edits' \in Nat,
         CardsKnown(fresh), FormKeeps(fresh)
  PROVE  ReviewsInv'
  <1>1. tabs'[t] = fresh /\ \A u \in Tabs \ {t} : tabs'[u] = tabs[u]
    BY DEF ReviewsInv, ReviewsTypeOK
  <1>2. ReviewsTypeOK'
    BY DEF ReviewsInv, ReviewsTypeOK
  <1>3. \A u \in Tabs : CardsKnown(tabs'[u]) /\ FormKeeps(tabs'[u])
    BY <1>1 DEF ReviewsInv
  <1> QED
    BY <1>2, <1>3 DEF ReviewsInv

LEMMA OpenTabKeeps ==
  ASSUME ReviewsInv, NEW t \in Tabs, NEW kind \in {"settings", "review"}, OpenTab(t, kind)
  PROVE  ReviewsInv'
  <1> DEFINE fresh == [Closed EXCEPT !.step = "open", !.kind = kind, !.shown = template,
                                     !.cards = Rendered(template)]
  <1>1. /\ template # Gone
        /\ tabs' = [tabs EXCEPT ![t] = fresh]
        /\ template' = template
        /\ edits' = edits
    BY DEF OpenTab
  <1>2. template \in Layouts /\ edits \in Nat
    BY <1>1 DEF ReviewsInv, ReviewsTypeOK
  <1>3. Rendered(template) \in Seq(Int) /\ \A i \in DOMAIN Rendered(template) : Rendered(template)[i] \in DOMAIN template
    <2>1. Rendered(template) \in [1..Len(template) -> Int] /\ Len(template) \in Nat
      BY <1>2, LayoutTyped DEF Rendered
    <2> QED
      BY <2>1, SeqDef DEF Rendered
  <1>4. /\ fresh \in TabRecords
        /\ fresh.step = "open"
        /\ fresh.shown = template
        /\ fresh.cards = Rendered(template)
    BY <1>2, <1>3, ClosedTab DEF TabRecords
  <1> HIDE DEF fresh
  <1>5. CardsKnown(fresh) /\ FormKeeps(fresh)
    BY <1>3, <1>4 DEF CardsKnown, FormKeeps
  <1> QED
    BY <1>1, <1>2, <1>4, <1>5, TabGoesOn

LEMMA ClosingKeeps ==
  ASSUME ReviewsInv, NEW t \in Tabs, tabs' = [tabs EXCEPT ![t] = Closed],
         template' \in Layouts \union {Gone}, edits' \in Nat
  PROVE  ReviewsInv'
  <1>1. CardsKnown(Closed) /\ FormKeeps(Closed)
    BY DEF Closed, CardsKnown, FormKeeps
  <1> QED
    BY <1>1, ClosedTab, TabGoesOn

\* The cards stand in another order, or there is one more from the library.
LEMMA ArrangedKeeps ==
  ASSUME ReviewsInv, NEW t \in Tabs, tabs[t].step = "open",
         NEW cards \in Seq({0} \union DOMAIN tabs[t].shown),
         tabs' = [tabs EXCEPT ![t].cards = cards], UNCHANGED <<template, edits>>
  PROVE  ReviewsInv'
  <1> DEFINE fresh == [tabs[t] EXCEPT !.cards = cards]
  <1>1. tabs[t] \in TabRecords /\ tabs' = [tabs EXCEPT ![t] = fresh]
    BY DEF ReviewsInv, ReviewsTypeOK
  <1>2. tabs[t].shown \in Layouts
    BY <1>1 DEF TabRecords
  <1>3. cards \in Seq(Int)
    <2>1. DOMAIN tabs[t].shown \subseteq Int
      BY <1>2, LayoutTyped
    <2>2. \A place \in 1..Len(cards) : cards[place] \in Int
      BY <2>1, ElementOfSeq
    <2>3. cards \in [1..Len(cards) -> Int] /\ Len(cards) \in Nat
      BY <2>2, LenProperties
    <2> QED
      BY <2>3, SeqDef
  <1>4. /\ fresh \in TabRecords
        /\ fresh.step = "open"
        /\ fresh.shown = tabs[t].shown
        /\ fresh.cards = cards
    BY <1>1, <1>3 DEF TabRecords
  <1>5. \A place \in DOMAIN cards : cards[place] \in {0} \union DOMAIN tabs[t].shown
    BY LenProperties, ElementOfSeq
  <1> HIDE DEF fresh
  <1>6. CardsKnown(fresh) /\ FormKeeps(fresh)
    BY <1>4, <1>5 DEF CardsKnown, FormKeeps
  <1> QED
    BY <1>1, <1>4, <1>6, TabGoesOn DEF ReviewsInv, ReviewsTypeOK

LEMMA CardsPart ==
  ASSUME NEW S, NEW cards \in Seq(S), NEW m \in Nat \ {0}, NEW n \in Nat, n <= Len(cards)
  PROVE  SubSeq(cards, m, n) \in Seq(S) /\ Len(SubSeq(cards, m, n)) = IF m <= n THEN n - m + 1 ELSE 0
  <1>1. Len(cards) \in Nat /\ \A k \in 1..Len(cards) : cards[k] \in S
    BY LenProperties, ElementOfSeq
  <1>2. m \in Int /\ n \in Int /\ \A k \in m..n : cards[k] \in S
    BY <1>1
  <1> QED
    BY <1>2, SubSeqProperties

LEMMA MoveCardKeeps ==
  ASSUME ReviewsInv, NEW t \in Tabs, NEW i \in DOMAIN tabs[t].cards, NEW j \in DOMAIN tabs[t].cards,
         MoveCard(t, i, j)
  PROVE  ReviewsInv'
  <1> DEFINE S == {0} \union DOMAIN tabs[t].shown
             cards == tabs[t].cards
             rest == RemoveAt(cards, i)
             place == IF i < j THEN j - 1 ELSE j
  <1>1. tabs[t].step = "open" /\ UNCHANGED <<template, edits>>
        /\ tabs' = [tabs EXCEPT ![t].cards = InsertAt(rest, place, cards[i])]
    BY DEF MoveCard
  <1>2. tabs[t] \in TabRecords /\ CardsKnown(tabs[t])
    BY DEF ReviewsInv, ReviewsTypeOK
  <1>3. cards \in Seq(Int)
    BY <1>2 DEF TabRecords
  <1>4. DOMAIN cards = 1..Len(cards) /\ Len(cards) \in Nat /\ \A k \in DOMAIN cards : cards[k] \in S
    BY <1>2, <1>3, LenProperties DEF CardsKnown
  <1>5. cards \in Seq(S)
    <2>1. cards \in [1..Len(cards) -> Int]
      BY <1>3, LenProperties
    <2>2. cards \in [1..Len(cards) -> S]
      BY <1>4, <2>1
    <2> QED
      BY <1>4, <2>2, SeqDef
  <1>6. place \in 1..(Len(cards) - 1) /\ cards[i] \in S
    BY <1>4 DEF MoveCard
  <1> HIDE DEF S, place
  <1>7. rest \in Seq(S) /\ Len(rest) = Len(cards) - 1
    <2> DEFINE before == SubSeq(cards, 1, i - 1)
               after == SubSeq(cards, i + 1, Len(cards))
    <2>1. i \in Nat \ {0} /\ i <= Len(cards) /\ Len(cards) \in Nat
      BY <1>4
    <2>2. before \in Seq(S) /\ Len(before) = i - 1
      BY <1>5, <2>1, CardsPart
    <2>3. after \in Seq(S) /\ Len(after) = Len(cards) - i
      BY <1>5, <2>1, CardsPart
    <2>4. rest = before \o after
      BY DEF RemoveAt
    <2> HIDE DEF before, after, cards, rest
    <2>5. before \o after \in Seq(S) /\ Len(before \o after) = Len(before) + Len(after)
      BY <2>2, <2>3, ConcatProperties
    <2> QED
      BY <2>1, <2>2, <2>3, <2>4, <2>5
  <1> HIDE DEF rest, cards
  <1>8. InsertAt(rest, place, cards[i]) \in Seq(S)
    <2>1. place \in Nat \ {0} /\ place <= Len(rest) /\ Len(rest) \in Nat
      BY <1>4, <1>6, <1>7
    <2>2. SubSeq(rest, 1, place - 1) \in Seq(S) /\ SubSeq(rest, place, Len(rest)) \in Seq(S)
      BY <1>7, <2>1, CardsPart
    <2>3. <<cards[i]>> \in Seq(S)
      BY <1>6
    <2>4. SubSeq(rest, 1, place - 1) \o <<cards[i]>> \in Seq(S)
      BY <2>2, <2>3, ConcatProperties
    <2> QED
      BY <2>2, <2>4, ConcatProperties DEF InsertAt
  <1> QED
    BY <1>1, <1>8, ArrangedKeeps DEF S

LEMMA DropModuleKeeps ==
  ASSUME ReviewsInv, NEW t \in Tabs, DropModule(t)
  PROVE  ReviewsInv'
  <1> DEFINE S == {0} \union DOMAIN tabs[t].shown
             cards == tabs[t].cards
  <1>1. /\ tabs[t].step = "open"
        /\ UNCHANGED <<template, edits>>
        /\ tabs' = [tabs EXCEPT ![t].cards = Append(cards, 0)]
    BY DEF DropModule
  <1>2. tabs[t] \in TabRecords /\ CardsKnown(tabs[t])
    BY DEF ReviewsInv, ReviewsTypeOK
  <1>3. cards \in Seq(Int)
    BY <1>2 DEF TabRecords
  <1>4. DOMAIN cards = 1..Len(cards) /\ Len(cards) \in Nat /\ \A k \in DOMAIN cards : cards[k] \in S
    BY <1>2, <1>3, LenProperties DEF CardsKnown
  <1>5. cards \in Seq(S) /\ 0 \in S
    <2>1. cards \in [1..Len(cards) -> Int]
      BY <1>3, LenProperties
    <2>2. cards \in [1..Len(cards) -> S]
      BY <1>4, <2>1
    <2> QED
      BY <1>4, <2>2, SeqDef
  <1> HIDE DEF S, cards
  <1>6. Append(cards, 0) \in Seq(S)
    BY <1>5, AppendProperties
  <1> QED
    BY <1>1, <1>6, ArrangedKeeps DEF S

LEMMA SubmitTemplateKeeps ==
  ASSUME ReviewsInv, NEW t \in Tabs, NEW action \in Actions, NEW place \in DOMAIN tabs[t].cards,
         SubmitTemplate(t, action, place)
  PROVE  ReviewsInv'
  <1> DEFINE tab == tabs[t]
             posted == Posted(tab)
             writes == action = "none" /\ posted[place].type = "notes"
             number == IF action = "none" THEN place ELSE tab.cards[place]
             written == [posted EXCEPT ![place].text = edits + 1]
             form == IF writes THEN written ELSE ModuleAction(action, posted, number)
             touched == IF writes \/ action = "remove" THEN {posted[place].text} ELSE {}
             fresh == [tab EXCEPT !.step = "saving", !.seen = posted, !.form = form, !.index = number,
                                  !.touched = touched]
  <1>1. /\ edits' = edits + 1
        /\ tabs' = [tabs EXCEPT ![t] = IF template = Gone THEN Closed ELSE fresh]
        /\ template' = template
        /\ tab.kind = "settings"
        /\ Offered(tab, action, place)
    BY DEF SubmitTemplate
  <1>2. /\ tab \in TabRecords
        /\ CardsKnown(tab)
        /\ edits \in Nat
        /\ template' \in Layouts \union {Gone}
        /\ edits' \in Nat
    BY <1>1 DEF ReviewsInv, ReviewsTypeOK
  <1>3. tab.cards \in Seq(Int) /\ tab.cards[place] \in Int /\ place \in Int
    <2>1. tab.cards \in Seq(Int)
      BY <1>2 DEF TabRecords
    <2> QED
      BY <2>1, LenProperties, ElementOfSeq
  <1>4. posted \in Layouts /\ DOMAIN posted = DOMAIN tab.cards
    BY <1>2, PostedTyped
  <1>5. posted[place] \in Modules
    BY <1>4, LayoutTyped
  <1>6. number \in Int /\ (writes => number = place)
    BY <1>3
  <1> HIDE DEF posted
  <1>7. /\ form \in Layouts
        /\ \A k \in DOMAIN posted :
             \/ posted[k].text \in touched
             \/ \E l \in DOMAIN form : form[l].text = posted[k].text
             \/ action = "remove" /\ number # place /\ posted[k].text = posted[number].text
    <2>1. CASE writes
      <3> DEFINE module == [posted[place] EXCEPT !.text = edits + 1]
      <3>1. module \in Modules
        BY <1>2, <1>5 DEF Modules
      <3>2. form = [posted EXCEPT ![place] = module]
        BY <2>1
      <3> HIDE DEF module, form
      <3>3. form \in Layouts /\ DOMAIN form = DOMAIN posted /\ \A k \in DOMAIN posted : k # place => form[k] = posted[k]
        BY <1>4, <3>1, <3>2, ChangedModule
      <3>4. posted[place].text \in touched
        BY <2>1
      <3> QED
        BY <3>3, <3>4
    <2>2. CASE ~writes /\ number \in DOMAIN posted
      <3>1. form = ModuleAction(action, posted, number)
        BY <2>2
      <3>2. action = "remove" => touched = {posted[place].text}
        OBVIOUS
      <3> HIDE DEF form, touched, number
      <3>3. /\ form \in Layouts
            /\ \A k \in DOMAIN posted :
                 \/ action = "remove" /\ posted[k].text = posted[number].text
                 \/ \E l \in DOMAIN form : form[l].text = posted[k].text
        BY <1>4, <2>2, <3>1, ModuleActionTexts
      <3> QED
        BY <3>2, <3>3
    <2>3. CASE ~writes /\ number \notin DOMAIN posted
      <3>1. form = posted
        BY <2>3 DEF ModuleAction
      <3> QED
        BY <1>4, <3>1
    <2> QED
      BY <2>1, <2>2, <2>3
  <1>8. touched \in SUBSET Int
    BY <1>5 DEF Modules
  <1>9. action = "remove" => tab.cards[place] # 0 /\ number = tab.cards[place]
    BY <1>1 DEF Offered
  <1> HIDE DEF form, touched, number
  <1>10. /\ fresh \in TabRecords
         /\ fresh.kind = "settings"
         /\ fresh.shown = tab.shown
         /\ fresh.cards = tab.cards
         /\ fresh.seen = posted
         /\ fresh.form = form
         /\ fresh.index = number
         /\ fresh.touched = touched
    BY <1>1, <1>2, <1>4, <1>6, <1>7, <1>8 DEF TabRecords
  <1> HIDE DEF fresh
  <1>11. CardsKnown(fresh)
    BY <1>2, <1>10 DEF CardsKnown
  <1>12. FormKeeps(fresh)
    <2> SUFFICES ASSUME NEW text \in Texts(posted), text \notin touched, text \notin Mistaken(fresh)
                 PROVE  text \in Texts(form)
      BY <1>10 DEF FormKeeps
    <2>1. PICK k \in DOMAIN posted : text = posted[k].text /\ text # 0
      BY DEF Texts
    <2>2. ~(action = "remove" /\ number # place /\ text = posted[number].text)
      <3> SUFFICES ASSUME action = "remove", number # place, text = posted[number].text
                   PROVE  FALSE
        OBVIOUS
      <3>1. Rearranged(fresh)
        BY <1>9, <1>10 DEF Rearranged
      <3> QED
        BY <1>10, <3>1 DEF Mistaken
    <2>3. \E l \in DOMAIN form : form[l].text = text
      BY <1>7, <2>1, <2>2
    <2> QED
      BY <2>1, <2>3 DEF Texts
  <1>13. CASE template = Gone
    BY <1>1, <1>2, <1>13, ClosingKeeps
  <1>14. CASE template # Gone
    BY <1>1, <1>2, <1>10, <1>11, <1>12, <1>14, TabGoesOn
  <1> QED
    BY <1>13, <1>14

LEMMA SubmitButtonKeeps ==
  ASSUME ReviewsInv, NEW t \in Tabs, NEW action \in Actions, NEW i \in DOMAIN tabs[t].shown,
         SubmitButton(t, action, i)
  PROVE  ReviewsInv'
  <1> DEFINE layout == Cleaned(template)
             there == i \in DOMAIN layout
             form == ModuleAction(action, layout, i)
             touched == IF there /\ action = "remove" THEN {layout[i].text} ELSE {}
             fresh == [tabs[t] EXCEPT !.step = "saving", !.seen = template, !.index = i, !.form = form,
                                      !.touched = touched]
  <1>1. /\ edits' = edits + 1
        /\ tabs' = [tabs EXCEPT ![t] = IF template = Gone THEN Closed ELSE fresh]
        /\ template' = template
    BY DEF SubmitButton
  <1>2. /\ tabs[t] \in TabRecords
        /\ CardsKnown(tabs[t])
        /\ edits \in Nat
        /\ template' \in Layouts \union {Gone}
        /\ edits' \in Nat
    BY <1>1 DEF ReviewsInv, ReviewsTypeOK
  <1>3. i \in Int
    BY <1>2, LayoutTyped DEF TabRecords
  <1>4. CASE template = Gone
    BY <1>1, <1>2, <1>4, ClosingKeeps
  <1>5. CASE template # Gone
    <2>1. template \in Layouts
      BY <1>5 DEF ReviewsInv, ReviewsTypeOK
    <2>2. /\ layout \in Layouts
          /\ DOMAIN layout = DOMAIN template
          /\ \A k \in DOMAIN template : layout[k].text = template[k].text
      BY <2>1, CleanedTexts
    <2> HIDE DEF layout
    <2>3. /\ form \in Layouts
          /\ \A k \in DOMAIN layout :
               layout[k].text \in touched \/ \E l \in DOMAIN form : form[l].text = layout[k].text
      <3>1. CASE there
        <4>1. form = ModuleAction(action, layout, i) /\ (action = "remove" => touched = {layout[i].text})
          BY <3>1
        <4> HIDE DEF form, touched
        <4> QED
          BY <2>2, <3>1, <4>1, ModuleActionTexts
      <3>2. CASE ~there
        <4>1. form = layout
          BY <3>2 DEF ModuleAction
        <4> QED
          BY <2>2, <4>1
      <3> QED
        BY <3>1, <3>2
    <2>4. touched \in SUBSET Int
      <3>1. there => layout[i] \in Modules
        BY <2>2, LayoutTyped
      <3> QED
        BY <3>1 DEF Modules
    <2> HIDE DEF form, touched
    <2>5. /\ fresh \in TabRecords
          /\ fresh.seen = template
          /\ fresh.form = form
          /\ fresh.touched = touched
          /\ fresh.shown = tabs[t].shown
          /\ fresh.cards = tabs[t].cards
      BY <1>2, <1>3, <2>1, <2>3, <2>4 DEF TabRecords
    <2>6. Texts(template) \ touched \subseteq Texts(form)
      BY <2>2, <2>3, TextsIncluded
    <2> HIDE DEF fresh
    <2>7. CardsKnown(fresh) /\ FormKeeps(fresh)
      BY <1>2, <2>5, <2>6 DEF CardsKnown, FormKeeps
    <2> QED
      BY <1>1, <1>2, <1>5, <2>5, <2>7, TabGoesOn
  <1> QED
    BY <1>4, <1>5

LEMMA SubmitNoteKeeps ==
  ASSUME ReviewsInv, NEW t \in Tabs, NEW place \in DOMAIN tabs[t].shown, SubmitNote(t, place)
  PROVE  ReviewsInv'
  <1> DEFINE found == template # Gone /\ place \in DOMAIN template /\ template[place].type = "notes"
             module == [template[place] EXCEPT !.text = edits + 1]
             form == [template EXCEPT ![place].text = edits + 1]
             touched == {template[place].text}
             fresh == [tabs[t] EXCEPT !.step = "saving", !.seen = template, !.form = form,
                                      !.index = place, !.touched = touched]
  <1>1. /\ edits' = edits + 1
        /\ tabs' = [tabs EXCEPT ![t] = IF ~found THEN Closed ELSE fresh]
        /\ template' = template
    BY DEF SubmitNote, NoteBase
  <1>2. /\ tabs[t] \in TabRecords
        /\ CardsKnown(tabs[t])
        /\ edits \in Nat
        /\ template' \in Layouts \union {Gone}
        /\ edits' \in Nat
    BY <1>1 DEF ReviewsInv, ReviewsTypeOK
  <1>3. place \in Int
    BY <1>2, LayoutTyped DEF TabRecords
  <1>4. CASE ~found
    BY <1>1, <1>2, <1>4, ClosingKeeps
  <1>5. CASE found
    <2>1. template \in Layouts /\ template[place] \in Modules
      BY <1>5, LayoutTyped DEF ReviewsInv, ReviewsTypeOK
    <2>2. module \in Modules /\ form = [template EXCEPT ![place] = module]
      BY <1>2, <2>1 DEF Modules
    <2> HIDE DEF module, form
    <2>3. /\ form \in Layouts
          /\ DOMAIN form = DOMAIN template
          /\ \A k \in DOMAIN template : k # place => form[k] = template[k]
      BY <1>5, <2>1, <2>2, ChangedModule
    <2>4. touched \in SUBSET Int
      BY <2>1 DEF Modules
    <2>5. \A k \in DOMAIN template :
            template[k].text \in touched \/ \E l \in DOMAIN form : form[l].text = template[k].text
      BY <2>3
    <2> HIDE DEF touched
    <2>6. /\ fresh \in TabRecords
          /\ fresh.seen = template
          /\ fresh.form = form
          /\ fresh.touched = touched
          /\ fresh.shown = tabs[t].shown
          /\ fresh.cards = tabs[t].cards
      BY <1>2, <1>3, <2>1, <2>3, <2>4 DEF TabRecords
    <2>7. Texts(template) \ touched \subseteq Texts(form)
      BY <2>5, TextsIncluded
    <2> HIDE DEF fresh
    <2>8. CardsKnown(fresh) /\ FormKeeps(fresh)
      BY <1>2, <2>6, <2>7 DEF CardsKnown, FormKeeps
    <2> QED
      BY <1>1, <1>2, <1>5, <2>6, <2>8, TabGoesOn
  <1> QED
    BY <1>4, <1>5

\* What is saved is a layout, and the page is done with.
LEMMA SaveKeeps ==
  ASSUME ReviewsInv, NEW t \in Tabs, SaveTemplate(t) \/ SaveNote(t) \/ CloseTab(t)
  PROVE  ReviewsInv'
  <1>1. tabs[t].form \in Layouts
    BY DEF ReviewsInv, ReviewsTypeOK, TabRecords
  <1>2. template' \in Layouts \union {Gone} /\ edits' \in Nat
    BY <1>1 DEF ReviewsInv, ReviewsTypeOK, SaveTemplate, SaveNote, CloseTab
  <1>3. tabs' = [tabs EXCEPT ![t] = Closed]
    BY DEF SaveTemplate, SaveNote, CloseTab
  <1> QED
    BY <1>2, <1>3, ClosingKeeps

LEMMA ReviewsPreserved == ReviewsInv /\ [ReviewsNext]_reviewVars => ReviewsInv'
  <1> SUFFICES ASSUME ReviewsInv, [ReviewsNext]_reviewVars
               PROVE  ReviewsInv'
    OBVIOUS
  <1>1. ASSUME NEW t \in Tabs, NEW kind \in {"settings", "review"}, OpenTab(t, kind)
        PROVE  ReviewsInv'
    BY <1>1, OpenTabKeeps
  <1>2. ASSUME NEW t \in Tabs, NEW action \in Actions,
               \/ \E place \in DOMAIN tabs[t].cards : SubmitTemplate(t, action, place)
               \/ \E i \in DOMAIN tabs[t].shown : SubmitButton(t, action, i)
        PROVE  ReviewsInv'
    BY <1>2, SubmitTemplateKeeps, SubmitButtonKeeps
  <1>3. ASSUME NEW t \in Tabs, NEW place \in DOMAIN tabs[t].shown, SubmitNote(t, place)
        PROVE  ReviewsInv'
    BY <1>3, SubmitNoteKeeps
  <1>4. ASSUME NEW t \in Tabs, SaveTemplate(t) \/ SaveNote(t) \/ CloseTab(t)
        PROVE  ReviewsInv'
    BY <1>4, SaveKeeps
  <1>5. CASE DeleteTemplate \/ UNCHANGED reviewVars
    BY <1>5 DEF DeleteTemplate, reviewVars, ReviewsInv, ReviewsTypeOK
  <1>6. ASSUME NEW t \in Tabs, (\E i, j \in DOMAIN tabs[t].cards : MoveCard(t, i, j)) \/ DropModule(t)
        PROVE  ReviewsInv'
    BY <1>6, MoveCardKeeps, DropModuleKeeps
  <1> QED
    BY <1>1, <1>2, <1>3, <1>4, <1>5, <1>6 DEF ReviewsNext

\* Only what a page saves takes a text away, and that is one its edit touched, or one
\* it had not seen.
LEMMA DropsKnowingly ==
  ASSUME ReviewsInv, [ReviewsNext]_reviewVars, template # Gone, template' # Gone,
         NEW text \in Texts(template) \ Texts(template')
  PROVE  \E t \in Tabs : /\ tabs[t].step = "saving"
                         /\ tabs'[t].step = "closed"
                         /\ text \notin (Texts(tabs[t].seen) \ tabs[t].touched) \ Mistaken(tabs[t])
  <1>1. template' # template
    OBVIOUS
  <1>2. PICK t \in Tabs : SaveTemplate(t) \/ SaveNote(t)
    BY <1>1 DEF ReviewsNext, OpenTab, MoveCard, DropModule, SubmitTemplate, SubmitButton, SubmitNote, CloseTab,
                DeleteTemplate, reviewVars
  <1>3. /\ tabs[t].step = "saving"
        /\ template' = tabs[t].form
        /\ tabs' = [tabs EXCEPT ![t] = Closed]
    BY <1>2 DEF SaveTemplate, SaveNote
  <1>4. tabs'[t].step = "closed"
    BY <1>3, ClosedTab DEF ReviewsInv, ReviewsTypeOK
  <1>5. FormKeeps(tabs[t])
    BY DEF ReviewsInv
  <1> QED
    BY <1>3, <1>4, <1>5 DEF FormKeeps

\* template_page and dashboard_review save a layout whole: whatever pages are open and
\* whatever they post, a text is lost only where an edit replaced or removed it, where
\* it is younger than the copy saved over it, or where the cards of a page were moved
\* and the module is the one a button mistook for its own.
THEOREM TextsStayKept == ReviewsSpec => TextsKept
  <1>1. ReviewsInv /\ [ReviewsNext]_reviewVars =>
          [template # Gone /\ template' # Gone =>
             \A text \in Texts(template) \ Texts(template') :
               \E t \in Tabs :
                 /\ tabs[t].step = "saving"
                 /\ tabs'[t].step = "closed"
                 /\ text \notin (Texts(tabs[t].seen) \ tabs[t].touched) \ Mistaken(tabs[t])]_reviewVars
    BY DropsKnowingly
  <1> QED
    BY ReviewsInitially, ReviewsPreserved, <1>1, PTL DEF ReviewsSpec, TextsKept

(***************************************************************************)
(* ScheduleStatus: the report tells of the timer what is true, for any     *)
(* invocations.  A report names what its invocation did (ReportsItsOwn), and *)
(* an invocation that is not alone knows it (OverlapNoticed).              *)
(***************************************************************************)

StatusSteps == {"idle", "due", "read", "emptied", "working"}
ReportStates == {"none", "enabled", "disabled", "running", "success", "failed"}
Invocations ==
  [step : StatusSteps, command : {"none", "enable", "disable", "run"}, state : ReportStates,
   read : Reports, sole : BOOLEAN]

StatusTypeOK ==
  /\ timer \in BOOLEAN
  /\ status \in Reports \union {Empty}
  /\ running \in [Commands -> Invocations]
  /\ orderly \in BOOLEAN

\* An invocation reports what it was called for: a switch the new state of the
\* timer, a run its own.
ReportsItsOwn(c) ==
  /\ running[c].step = "idle" <=> running[c].command = "none"
  /\ running[c].step = "working" => running[c].command = "run"
  /\ running[c].command = "enable" => running[c].state = "enabled"
  /\ running[c].command = "disable" => running[c].state = "disabled"
  /\ ~Switching(c) => running[c].state \notin {"enabled", "disabled"}

\* Switches that overlap know of it, and are not orderly; nor are two writers.
OverlapNoticed(c, d) ==
  /\ Switching(c) /\ Switching(d) => ~running[c].sole /\ ~running[d].sole /\ ~orderly
  /\ Writing(c) /\ Writing(d) => ~orderly

\* The timer is as the last switch left it.
TimerSwitched(c) ==
  Switching(c) /\ (running[c].sole \/ orderly) => timer = (running[c].command = "enable")

\* While no switch is on its way, the report is true, or about to be written anew by
\* one who has read that it was.
ReportTrue ==
  orderly /\ (\A c \in Commands : ~Switching(c)) =>
    /\ (\A c \in Commands : ~Writing(c)) => Contents.enabled = timer
    /\ \A c \in Commands :
         /\ running[c].step = "read" => Contents.enabled = timer /\ running[c].read.enabled = timer
         /\ running[c].step = "emptied" => running[c].read.enabled = timer

StatusInv ==
  /\ StatusTypeOK
  /\ \A c \in Commands : ReportsItsOwn(c) /\ TimerSwitched(c)
  /\ \A c, d \in Commands : c # d => OverlapNoticed(c, d)
  /\ ReportTrue

LEMMA NothingIsReport == Nothing \in Reports
  BY DEF Nothing, Reports

LEMMA NotRunningIsInvocation ==
  /\ NotRunning \in Invocations
  /\ NotRunning.step = "idle"
  /\ NotRunning.command = "none"
  /\ NotRunning.state = "none"
  BY NothingIsReport DEF NotRunning, Invocations, StatusSteps, ReportStates

LEMMA ContentsIsReport == StatusTypeOK => Contents \in Reports
  BY NothingIsReport DEF StatusTypeOK, Contents

\* Who is in the way, and is told so, goes on as before.
LEMMA NotAloneOnly ==
  ASSUME StatusTypeOK, NEW c \in Commands, NEW others
  PROVE  /\ NotAlone(others, c) \in [Commands -> Invocations]
         /\ \A d \in Commands :
              /\ NotAlone(others, c)[d].step = running[d].step
              /\ NotAlone(others, c)[d].command = running[d].command
              /\ NotAlone(others, c)[d].state = running[d].state
              /\ NotAlone(others, c)[d].read = running[d].read
              /\ NotAlone(others, c)[d].sole =>
                   running[d].sole /\ d \notin others /\ (d = c => others = {})
  <1> DEFINE told(d) == running[d].sole /\ d \notin others /\ (d = c => others = {})
  <1>1. ASSUME NEW d \in Commands
        PROVE  /\ [running[d] EXCEPT !.sole = told(d)] \in Invocations
               /\ [running[d] EXCEPT !.sole = told(d)].step = running[d].step
               /\ [running[d] EXCEPT !.sole = told(d)].command = running[d].command
               /\ [running[d] EXCEPT !.sole = told(d)].state = running[d].state
               /\ [running[d] EXCEPT !.sole = told(d)].read = running[d].read
               /\ [running[d] EXCEPT !.sole = told(d)].sole = told(d)
    <2>1. running[d] \in Invocations
      BY DEF StatusTypeOK
    <2>2. told(d) \in BOOLEAN
      BY <2>1 DEF Invocations
    <2> HIDE DEF told
    <2> QED
      BY <2>1, <2>2 DEF Invocations
  <1>2. NotAlone(others, c) = [d \in Commands |-> [running[d] EXCEPT !.sole = told(d)]]
    BY DEF NotAlone
  <1>3. \A d \in Commands : NotAlone(others, c)[d] = [running[d] EXCEPT !.sole = told(d)]
    BY <1>2
  <1>4. NotAlone(others, c) \in [Commands -> Invocations]
    BY <1>1, <1>2
  <1>5. ASSUME NEW d \in Commands
        PROVE  NotAlone(others, c)[d].sole => told(d)
    <2>1. NotAlone(others, c)[d] = [running[d] EXCEPT !.sole = told(d)]
      BY <1>3
    <2>2. running[d] \in Invocations
      BY DEF StatusTypeOK
    <2> HIDE DEF told
    <2>3. NotAlone(others, c)[d].sole = told(d)
      BY <2>1, <2>2 DEF Invocations
    <2> QED
      BY <2>3
  <1>6. ASSUME NEW d \in Commands
        PROVE  /\ NotAlone(others, c)[d].step = running[d].step
               /\ NotAlone(others, c)[d].command = running[d].command
               /\ NotAlone(others, c)[d].state = running[d].state
               /\ NotAlone(others, c)[d].read = running[d].read
    BY <1>1, <1>3
  <1> QED
    BY <1>4, <1>5, <1>6

LEMMA StatusInitially == StatusInit => StatusInv
  <1> SUFFICES ASSUME StatusInit
               PROVE  StatusInv
    OBVIOUS
  <1>1. StatusTypeOK
    BY NotRunningIsInvocation DEF StatusInit, StatusTypeOK
  <1>2. \A c \in Commands : running[c].step = "idle" /\ running[c].command = "none" /\ running[c].state = "none"
    BY NotRunningIsInvocation DEF StatusInit
  <1>3. \A c \in Commands : ~Switching(c) /\ ~Writing(c)
    BY <1>2 DEF Switching, Writing
  <1>4. Contents.enabled = FALSE /\ timer = FALSE
    BY DEF StatusInit, Contents, Nothing
  <1>5. ReportTrue
    BY <1>2, <1>3, <1>4 DEF ReportTrue
  <1>6. \A c \in Commands : ReportsItsOwn(c) /\ TimerSwitched(c)
    BY <1>2, <1>3 DEF ReportsItsOwn, TimerSwitched
  <1>7. \A c, d \in Commands : c # d => OverlapNoticed(c, d)
    BY <1>3 DEF OverlapNoticed
  <1> QED
    BY <1>1, <1>5, <1>6, <1>7 DEF StatusInv

LEMMA SwitchKeeps ==
  ASSUME StatusInv, NEW c \in Commands, NEW command \in {"enable", "disable"}, Switch(c, command)
  PROVE  StatusInv'
  <1> DEFINE others == OtherSwitches(c)
             told == NotAlone(others, c)
             state == IF command = "enable" THEN "enabled" ELSE "disabled"
  <1>1. /\ running[c].step = "idle"
        /\ timer' = (command = "enable")
        /\ running' = [told EXCEPT ![c].step = "due", ![c].command = command, ![c].state = state]
        /\ orderly' = (orderly /\ others = {})
        /\ status' = status
    BY DEF Switch
  <1>2. StatusTypeOK
    BY DEF StatusInv
  <1>3. /\ told \in [Commands -> Invocations]
        /\ \A d \in Commands :
             /\ told[d].step = running[d].step
             /\ told[d].command = running[d].command
             /\ told[d].state = running[d].state
             /\ told[d].sole => running[d].sole /\ d \notin others /\ (d = c => others = {})
    BY <1>2, NotAloneOnly
  <1> HIDE DEF told
  <1>4. /\ \A d \in Commands \ {c} : running'[d] = told[d]
        /\ running'[c] = [told[c] EXCEPT !.step = "due", !.command = command, !.state = state]
    BY <1>1, <1>3
  <1>5. /\ running'[c] \in Invocations
        /\ running'[c].step = "due"
        /\ running'[c].command = command
        /\ running'[c].state = state
        /\ running'[c].sole = told[c].sole
    <2>1. told[c] \in Invocations
      BY <1>3
    <2>2. state \in ReportStates
      BY DEF ReportStates
    <2> HIDE DEF state
    <2> QED
      BY <1>4, <2>1, <2>2 DEF Invocations, StatusSteps
  <1>6. StatusTypeOK'
    <2>1. running' \in [Commands -> Invocations]
      BY <1>1, <1>3, <1>5
    <2> QED
      BY <1>1, <1>2, <2>1 DEF StatusTypeOK
  <1>7. Switching(c)' /\ ~Writing(c)' /\ ~Switching(c) /\ ~Writing(c)
    BY <1>1, <1>5 DEF Switching, Writing, StatusInv, ReportsItsOwn
  <1>8. \A d \in Commands \ {c} : (Switching(d)' <=> Switching(d)) /\ (Writing(d)' <=> Writing(d))
    BY <1>3, <1>4 DEF Switching, Writing
  <1>9. \A d \in Commands : ReportsItsOwn(d)'
    <2>1. ReportsItsOwn(c)'
      BY <1>5, <1>7 DEF ReportsItsOwn
    <2>2. \A d \in Commands \ {c} : ReportsItsOwn(d)'
      BY <1>3, <1>4, <1>8 DEF ReportsItsOwn, StatusInv
    <2> QED
      BY <2>1, <2>2
  <1>10. \A d \in Commands \ {c} : Switching(d) => ~running'[d].sole /\ ~running'[c].sole /\ ~orderly'
    <2>1. ASSUME NEW d \in Commands \ {c}, Switching(d)
          PROVE  ~running'[d].sole /\ ~running'[c].sole /\ ~orderly'
      <3>1. d \in others
        BY <2>1 DEF OtherSwitches
      <3>2. others # {}
        BY <3>1
      <3>3. ~told[d].sole /\ ~told[c].sole
        BY <1>3, <3>1, <3>2
      <3>4. ~orderly'
        BY <1>1, <3>2
      <3> QED
        BY <1>4, <1>5, <3>3, <3>4
    <2> QED
      BY <2>1
  <1>11. orderly' => orderly
    BY <1>1
  <1>12. ASSUME NEW a \in Commands, NEW b \in Commands, a # b
         PROVE  OverlapNoticed(a, b)'
    <2>1. OverlapNoticed(a, b)
      BY <1>12 DEF StatusInv
    <2>2. CASE a = c
      BY <1>7, <1>8, <1>10, <1>12, <2>2 DEF OverlapNoticed
    <2>3. CASE b = c
      BY <1>7, <1>8, <1>10, <1>12, <2>3 DEF OverlapNoticed
    <2>4. CASE a # c /\ b # c
      BY <1>3, <1>4, <1>8, <1>11, <2>1, <2>4 DEF OverlapNoticed
    <2> QED
      BY <2>2, <2>3, <2>4
  <1>13. \A d \in Commands : TimerSwitched(d)'
    <2>1. TimerSwitched(c)'
      BY <1>1, <1>5 DEF TimerSwitched
    <2>2. \A d \in Commands \ {c} : TimerSwitched(d)'
      BY <1>8, <1>10 DEF TimerSwitched
    <2> QED
      BY <2>1, <2>2
  <1>14. ReportTrue'
    BY <1>7 DEF ReportTrue
  <1> QED
    BY <1>6, <1>9, <1>12, <1>13, <1>14 DEF StatusInv

LEMMA ReadStatusKeeps ==
  ASSUME StatusInv, NEW c \in Commands, ReadStatus(c)
  PROVE  StatusInv'
  <1> DEFINE others == OtherWriters(c)
             told == NotAlone(others, c)
  <1>1. /\ running[c].step = "due"
        /\ running' = [told EXCEPT ![c].step = "read", ![c].read = Contents]
        /\ orderly' = (orderly /\ others = {})
        /\ timer' = timer
        /\ status' = status
    BY DEF ReadStatus, ReadFor
  <1>2. StatusTypeOK /\ Contents \in Reports
    BY ContentsIsReport DEF StatusInv
  <1>3. /\ told \in [Commands -> Invocations]
        /\ \A d \in Commands :
             /\ told[d].step = running[d].step
             /\ told[d].command = running[d].command
             /\ told[d].state = running[d].state
             /\ told[d].read = running[d].read
             /\ told[d].sole => running[d].sole /\ d \notin others /\ (d = c => others = {})
    BY <1>2, NotAloneOnly
  <1> HIDE DEF told
  <1>4. /\ \A d \in Commands \ {c} : running'[d] = told[d]
        /\ running'[c] = [told[c] EXCEPT !.step = "read", !.read = Contents]
    BY <1>1, <1>3
  <1>5. /\ running'[c] \in Invocations
        /\ running'[c].step = "read"
        /\ running'[c].command = running[c].command
        /\ running'[c].state = running[c].state
        /\ running'[c].read = Contents
        /\ running'[c].sole = told[c].sole
    <2>1. told[c] \in Invocations
      BY <1>3
    <2>2. running'[c] \in Invocations
      BY <1>2, <1>4, <2>1 DEF Invocations, StatusSteps
    <2>3. running'[c].sole = told[c].sole
      BY <1>4, <2>1 DEF Invocations
    <2>4. /\ running'[c].step = "read"
          /\ running'[c].command = told[c].command
          /\ running'[c].state = told[c].state
          /\ running'[c].read = Contents
      BY <1>4, <2>1 DEF Invocations
    <2> QED
      BY <1>3, <2>2, <2>3, <2>4
  <1>6. StatusTypeOK'
    <2>1. running' \in [Commands -> Invocations]
      BY <1>1, <1>3, <1>5
    <2> QED
      BY <1>1, <1>2, <2>1 DEF StatusTypeOK
  <1>7. \A d \in Commands : (Switching(d)' <=> Switching(d)) /\ running'[d].command = running[d].command
                              /\ (running'[d].sole => running[d].sole)
    BY <1>3, <1>4, <1>5 DEF Switching
  <1>8. \A d \in Commands \ {c} : Writing(d)' <=> Writing(d)
    BY <1>3, <1>4 DEF Writing
  <1>9. \A d \in Commands : ReportsItsOwn(d)'
    <2>1. ReportsItsOwn(c)'
      BY <1>1, <1>5, <1>7 DEF ReportsItsOwn, StatusInv
    <2>2. \A d \in Commands \ {c} : ReportsItsOwn(d)'
      BY <1>3, <1>4, <1>7 DEF ReportsItsOwn, StatusInv
    <2> QED
      BY <2>1, <2>2
  <1>10. orderly' => orderly /\ \A d \in Commands \ {c} : ~Writing(d)
    <2>1. ASSUME orderly', NEW d \in Commands \ {c}
          PROVE  ~Writing(d)
      <3>1. d \notin others
        BY <1>1, <2>1
      <3> QED
        BY <3>1 DEF OtherWriters
    <2> QED
      BY <1>1, <2>1
  <1>12. ASSUME NEW a \in Commands, NEW b \in Commands, a # b
         PROVE  OverlapNoticed(a, b)'
    <2>1. OverlapNoticed(a, b)
      BY <1>12 DEF StatusInv
    <2>2. Writing(a)' /\ Writing(b)' => ~orderly'
      <3>1. CASE a # c
        BY <1>8, <1>10, <3>1
      <3>2. CASE b # c
        BY <1>8, <1>10, <3>2
      <3> QED
        BY <1>12, <3>1, <3>2
    <2> QED
      BY <1>7, <1>10, <2>1, <2>2 DEF OverlapNoticed
  <1>13. \A d \in Commands : TimerSwitched(d)'
    BY <1>1, <1>7, <1>10 DEF TimerSwitched, StatusInv
  <1>14. ReportTrue'
    <2> SUFFICES ASSUME orderly', \A d \in Commands : ~Switching(d)'
                 PROVE  /\ (\A d \in Commands : ~Writing(d)') => Contents'.enabled = timer'
                        /\ \A d \in Commands :
                             /\ running'[d].step = "read" =>
                                  Contents'.enabled = timer' /\ running'[d].read.enabled = timer'
                             /\ running'[d].step = "emptied" => running'[d].read.enabled = timer'
      BY DEF ReportTrue
    <2>1. Contents' = Contents /\ Writing(c)'
      BY <1>1, <1>5 DEF Contents, Writing
    <2>2. \A d \in Commands : ~Writing(d)
      BY <1>1, <1>10 DEF Writing
    <2>3. Contents.enabled = timer
      BY <1>7, <1>10, <2>2 DEF ReportTrue, StatusInv
    <2>4. \A d \in Commands \ {c} : running'[d].step \notin {"read", "emptied"}
      BY <1>8, <2>2 DEF Writing
    <2> QED
      BY <1>1, <1>5, <2>1, <2>3, <2>4
  <1> QED
    BY <1>6, <1>9, <1>12, <1>13, <1>14 DEF StatusInv

\* A step of one invocation that changes no switch, no timer and no order: what it
\* leaves to be shown is the report.
LEMMA OthersUnmoved ==
  ASSUME StatusInv, NEW c \in Commands, NEW fresh \in Invocations,
         running' = [running EXCEPT ![c] = fresh], timer' = timer,
         status' \in Reports \union {Empty},
         orderly' = orderly,
         fresh.command \in {"enable", "disable"} => fresh.command = running[c].command,
         fresh.command \in {"enable", "disable"} /\ fresh.sole => running[c].sole,
         fresh.step \in {"read", "emptied"} => Writing(c),
         fresh.step = "idle" <=> fresh.command = "none",
         fresh.step = "working" => fresh.command = "run",
         fresh.command = "enable" => fresh.state = "enabled",
         fresh.command = "disable" => fresh.state = "disabled",
         fresh.command \notin {"enable", "disable"} => fresh.state \notin {"enabled", "disabled"},
         ReportTrue'
  PROVE  StatusInv'
  <1>1. running'[c] = fresh /\ \A d \in Commands \ {c} : running'[d] = running[d]
    BY DEF StatusInv, StatusTypeOK
  <1>2. StatusTypeOK'
    BY DEF StatusInv, StatusTypeOK
  <1>3. \A d \in Commands :
          /\ Switching(d)' => Switching(d) /\ running'[d].command = running[d].command
                               /\ (running'[d].sole => running[d].sole)
          /\ Writing(d)' => Writing(d)
    BY <1>1 DEF Switching, Writing
  <1>4. \A d \in Commands : ReportsItsOwn(d)'
    BY <1>1 DEF StatusInv, ReportsItsOwn, Switching
  <1>5. \A d \in Commands : TimerSwitched(d)'
    BY <1>3 DEF StatusInv, TimerSwitched
  <1>6. \A a, b \in Commands : a # b => OverlapNoticed(a, b)'
    BY <1>3 DEF StatusInv, OverlapNoticed
  <1> QED
    BY <1>2, <1>4, <1>5, <1>6 DEF StatusInv

LEMMA EmptyStatusKeeps ==
  ASSUME StatusInv, NEW c \in Commands, EmptyStatus(c)
  PROVE  StatusInv'
  <1> DEFINE fresh == [running[c] EXCEPT !.step = "emptied"]
  <1>1. /\ running[c].step = "read"
        /\ status' = Empty
        /\ running' = [running EXCEPT ![c] = fresh]
        /\ timer' = timer
        /\ orderly' = orderly
    BY DEF EmptyStatus
  <1>2. running[c] \in Invocations
    BY DEF StatusInv, StatusTypeOK
  <1>3. /\ fresh \in Invocations
        /\ fresh.step = "emptied"
        /\ fresh.command = running[c].command
        /\ fresh.state = running[c].state
        /\ fresh.read = running[c].read
    BY <1>2 DEF Invocations, StatusSteps
  <1>4. fresh.sole = running[c].sole
    BY <1>2 DEF Invocations
  <1> HIDE DEF fresh
  <1>5. running'[c] = fresh /\ \A d \in Commands \ {c} : running'[d] = running[d]
    BY <1>1 DEF StatusInv, StatusTypeOK
  <1>6. ReportTrue'
    <2> SUFFICES ASSUME orderly', \A d \in Commands : ~Switching(d)'
                 PROVE  /\ (\A d \in Commands : ~Writing(d)') => Contents'.enabled = timer'
                        /\ \A d \in Commands :
                             /\ running'[d].step = "read" =>
                                  Contents'.enabled = timer' /\ running'[d].read.enabled = timer'
                             /\ running'[d].step = "emptied" => running'[d].read.enabled = timer'
      BY DEF ReportTrue
    <2>1. \A d \in Commands : ~Switching(d)
      BY <1>3, <1>5 DEF Switching
    <2>2. running[c].read.enabled = timer
      BY <1>1, <2>1 DEF ReportTrue, StatusInv
    <2>3. Writing(c) /\ Writing(c)'
      BY <1>1, <1>3, <1>5 DEF Writing
    <2>4. \A d \in Commands \ {c} : ~Writing(d)
      BY <1>1, <2>3 DEF StatusInv, OverlapNoticed
    <2> QED
      BY <1>1, <1>3, <1>5, <2>2, <2>3, <2>4 DEF Writing
  <1> QED
    BY <1>1, <1>3, <1>4, <1>6, OthersUnmoved DEF StatusInv, StatusTypeOK, ReportsItsOwn, Switching, Writing

LEMMA FinishRunKeeps ==
  ASSUME StatusInv, NEW c \in Commands, NEW outcome \in {"success", "failed"}, FinishRun(c, outcome)
  PROVE  StatusInv'
  <1> DEFINE fresh == [running[c] EXCEPT !.step = "due", !.state = outcome]
  <1>1. /\ running[c].step = "working"
        /\ running' = [running EXCEPT ![c] = fresh]
        /\ timer' = timer
        /\ status' = status
        /\ orderly' = orderly
    BY DEF FinishRun
  <1>2. running[c] \in Invocations
    BY DEF StatusInv, StatusTypeOK
  <1>3. /\ fresh \in Invocations
        /\ fresh.step = "due"
        /\ fresh.command = "run"
        /\ fresh.state = outcome
    BY <1>1, <1>2 DEF Invocations, StatusSteps, ReportStates, StatusInv, ReportsItsOwn
  <1> HIDE DEF fresh
  <1>5. running'[c] = fresh /\ \A d \in Commands \ {c} : running'[d] = running[d]
    BY <1>1 DEF StatusInv, StatusTypeOK
  <1>6. \A d \in Commands : (Switching(d)' <=> Switching(d)) /\ (Writing(d)' <=> Writing(d))
    BY <1>1, <1>3, <1>5 DEF Switching, Writing, StatusInv, ReportsItsOwn
  <1>7. ReportTrue'
    BY <1>1, <1>3, <1>5, <1>6 DEF ReportTrue, StatusInv, Contents
  <1> QED
    BY <1>1, <1>3, <1>7, OthersUnmoved DEF StatusInv, StatusTypeOK

LEMMA StartRunKeeps ==
  ASSUME StatusInv, NEW c \in Commands, StartRun(c)
  PROVE  StatusInv'
  <1> DEFINE fresh == [NotRunning EXCEPT !.step = "due", !.command = "run", !.state = "running"]
  <1>1. /\ running[c].step = "idle"
        /\ running' = [running EXCEPT ![c] = fresh]
        /\ timer' = timer
        /\ status' = status
        /\ orderly' = orderly
    BY DEF StartRun
  <1>3. /\ fresh \in Invocations
        /\ fresh.step = "due"
        /\ fresh.command = "run"
        /\ fresh.state = "running"
    BY NothingIsReport DEF NotRunning, Invocations, StatusSteps, ReportStates
  <1> HIDE DEF fresh
  <1>5. running'[c] = fresh /\ \A d \in Commands \ {c} : running'[d] = running[d]
    BY <1>1 DEF StatusInv, StatusTypeOK
  <1>6. \A d \in Commands : (Switching(d)' <=> Switching(d)) /\ (Writing(d)' <=> Writing(d))
    BY <1>1, <1>3, <1>5 DEF Switching, Writing, StatusInv, ReportsItsOwn
  <1>7. ReportTrue'
    BY <1>1, <1>3, <1>5, <1>6 DEF ReportTrue, StatusInv, Contents
  <1> QED
    BY <1>1, <1>3, <1>7, OthersUnmoved DEF StatusInv, StatusTypeOK

\* Killed on the way of a switch or with the file emptied, an invocation leaves
\* disorder behind, as orderly has it; otherwise what it leaves is true.
LEMMA KillCommandKeeps ==
  ASSUME StatusInv, NEW c \in Commands, KillCommand(c)
  PROVE  StatusInv'
  <1>1. /\ running' = [running EXCEPT ![c] = NotRunning]
        /\ timer' = timer
        /\ status' = status
        /\ orderly' = (orderly /\ ~Switching(c) /\ running[c].step # "emptied")
    BY DEF KillCommand
  <1>2. running'[c] = NotRunning /\ \A d \in Commands \ {c} : running'[d] = running[d]
    BY <1>1 DEF StatusInv, StatusTypeOK
  <1>3. StatusTypeOK'
    BY <1>1, NotRunningIsInvocation DEF StatusInv, StatusTypeOK
  <1>4. orderly' => orderly /\ ~Switching(c) /\ running[c].step # "emptied"
    BY <1>1
  <1>5. ~Switching(c)' /\ ~Writing(c)'
    BY <1>2, NotRunningIsInvocation DEF Switching, Writing
  <1>6. \A d \in Commands \ {c} : (Switching(d)' <=> Switching(d)) /\ (Writing(d)' <=> Writing(d))
    BY <1>2 DEF Switching, Writing
  <1>7. \A d \in Commands : ReportsItsOwn(d)'
    BY <1>2, <1>5, <1>6, NotRunningIsInvocation DEF StatusInv, ReportsItsOwn
  <1>8. \A d \in Commands : TimerSwitched(d)'
    BY <1>1, <1>2, <1>4, <1>5, <1>6 DEF StatusInv, TimerSwitched
  <1>9. \A a, b \in Commands : a # b => OverlapNoticed(a, b)'
    BY <1>2, <1>4, <1>5, <1>6 DEF StatusInv, OverlapNoticed
  <1>10. ReportTrue'
    <2> SUFFICES ASSUME orderly', \A d \in Commands : ~Switching(d)'
                 PROVE  /\ (\A d \in Commands : ~Writing(d)') => Contents'.enabled = timer'
                        /\ \A d \in Commands :
                             /\ running'[d].step = "read" =>
                                  Contents'.enabled = timer' /\ running'[d].read.enabled = timer'
                             /\ running'[d].step = "emptied" => running'[d].read.enabled = timer'
      BY DEF ReportTrue
    <2>1. orderly /\ \A d \in Commands : ~Switching(d)
      BY <1>4, <1>6
    <2>2. Contents' = Contents
      BY <1>1 DEF Contents
    <2>3. (\A d \in Commands : ~Writing(d)') => Contents.enabled = timer
      <3>1. CASE running[c].step = "read"
        BY <2>1, <3>1 DEF ReportTrue, StatusInv
      <3>2. CASE running[c].step # "read"
        BY <1>4, <1>6, <2>1, <3>2 DEF ReportTrue, StatusInv, Writing
      <3> QED
        BY <3>1, <3>2
    <2> QED
      BY <1>1, <1>2, <1>5, <2>1, <2>2, <2>3, NotRunningIsInvocation DEF ReportTrue, StatusInv
  <1> QED
    BY <1>3, <1>7, <1>8, <1>9, <1>10 DEF StatusInv

\* What is written is true of the timer: of a switch by its command, of a run by
\* what it has read.
LEMMA WriteStatusKeeps ==
  ASSUME StatusInv, NEW c \in Commands, WriteStatus(c)
  PROVE  StatusInv'
  <1> DEFINE goeson == [running[c] EXCEPT !.step = "working", !.sole = TRUE]
             fresh == IF running[c].state = "running" THEN goeson ELSE NotRunning
             enabled == CASE running[c].state = "enabled" -> TRUE
                          [] running[c].state = "disabled" -> FALSE
                          [] OTHER -> running[c].read.enabled
             reason == Reason(running[c].state, running[c].read.reason)
             written == [enabled |-> enabled, state |-> running[c].state, reason |-> reason]
             setright == Switching(c) /\ running[c].sole /\ OtherWriters(c) = {}
  <1>1. /\ running[c].step = "emptied"
        /\ status' = written
        /\ running' = [running EXCEPT ![c] = fresh]
        /\ orderly' = (orderly \/ setright)
        /\ timer' = timer
    BY DEF WriteStatus
  <1>2. running[c] \in Invocations /\ ReportsItsOwn(c) /\ TimerSwitched(c)
    BY DEF StatusInv, StatusTypeOK
  <1>3. /\ goeson \in Invocations
        /\ goeson.step = "working"
        /\ goeson.command = running[c].command
        /\ goeson.state = running[c].state
    BY <1>2 DEF Invocations, StatusSteps
  <1>4. enabled \in BOOLEAN /\ reason \in BOOLEAN
    BY <1>2 DEF Invocations, Reports, Reason
  <1> HIDE DEF goeson, enabled, reason
  <1>5. written \in Reports
    BY <1>2, <1>4 DEF Invocations, Reports, ReportStates
  <1>6. Contents' = written /\ Contents'.enabled = enabled
    BY <1>1, <1>5, EmptyAssumption DEF Contents
  <1>7. fresh \in Invocations /\ fresh.step \in {"idle", "working"}
    BY <1>3, NotRunningIsInvocation
  <1>8. /\ fresh.command \notin {"enable", "disable"}
        /\ fresh.state \notin {"enabled", "disabled"}
        /\ fresh.step = "idle" <=> fresh.command = "none"
        /\ fresh.step = "working" => fresh.command = "run"
    <2>1. CASE running[c].state = "running"
      <3>1. running[c].command \in {"none", "run"} /\ running[c].step # "idle"
        BY <1>1, <1>2, <2>1 DEF ReportsItsOwn, Invocations
      <3> QED
        BY <1>1, <1>2, <1>3, <2>1, <3>1 DEF ReportsItsOwn
    <2>2. CASE running[c].state # "running"
      BY <2>2, NotRunningIsInvocation
    <2> QED
      BY <2>1, <2>2
  <1> HIDE DEF fresh
  <1>9. running'[c] = fresh /\ \A d \in Commands \ {c} : running'[d] = running[d]
    BY <1>1 DEF StatusInv, StatusTypeOK
  <1>10. StatusTypeOK'
    <2>1. orderly' \in BOOLEAN
      BY <1>1
    <2>2. running' \in [Commands -> Invocations]
      BY <1>1, <1>7 DEF StatusInv, StatusTypeOK
    <2> QED
      BY <1>1, <1>5, <2>1, <2>2 DEF StatusInv, StatusTypeOK
  <1>11. ~Switching(c)' /\ ~Writing(c)' /\ Writing(c)
    BY <1>1, <1>7, <1>8, <1>9 DEF Switching, Writing
  <1>12. \A d \in Commands \ {c} : (Switching(d)' <=> Switching(d)) /\ (Writing(d)' <=> Writing(d))
    BY <1>9 DEF Switching, Writing
  <1>13. \A d \in Commands : ReportsItsOwn(d)'
    <2>1. ReportsItsOwn(c)'
      BY <1>8, <1>9, <1>11 DEF ReportsItsOwn
    <2>2. \A d \in Commands \ {c} : ReportsItsOwn(d)'
      BY <1>9, <1>12 DEF StatusInv, ReportsItsOwn
    <2> QED
      BY <2>1, <2>2
  <1>14. orderly' => \A d \in Commands \ {c} : ~Writing(d)
    <2>1. CASE orderly
      BY <1>11, <2>1 DEF StatusInv, OverlapNoticed
    <2>2. CASE setright
      BY <2>2 DEF OtherWriters
    <2> QED
      BY <1>1, <2>1, <2>2
  <1>15. orderly' /\ ~orderly => \A d \in Commands \ {c} : ~Switching(d)
    BY <1>1 DEF StatusInv, OverlapNoticed
  <1>16. \A d \in Commands : TimerSwitched(d)'
    BY <1>1, <1>9, <1>11, <1>12, <1>15 DEF StatusInv, TimerSwitched
  <1>17. \A a, b \in Commands : a # b => OverlapNoticed(a, b)'
    BY <1>9, <1>11, <1>12, <1>14, <1>15 DEF StatusInv, OverlapNoticed
  <1>18. ReportTrue'
    <2> SUFFICES ASSUME orderly', \A d \in Commands : ~Switching(d)'
                 PROVE  /\ (\A d \in Commands : ~Writing(d)') => Contents'.enabled = timer'
                        /\ \A d \in Commands :
                             /\ running'[d].step = "read" =>
                                  Contents'.enabled = timer' /\ running'[d].read.enabled = timer'
                             /\ running'[d].step = "emptied" => running'[d].read.enabled = timer'
      BY DEF ReportTrue
    <2>1. enabled = timer
      <3>1. CASE Switching(c)
        <4>1. running[c].sole \/ orderly
          BY <1>1
        <4>2. timer = (running[c].command = "enable")
          BY <1>2, <3>1, <4>1 DEF TimerSwitched
        <4> QED
          BY <1>2, <3>1, <4>2 DEF enabled, ReportsItsOwn, Switching
      <3>2. CASE ~Switching(c)
        <4>1. orderly /\ \A d \in Commands : ~Switching(d)
          BY <1>1, <1>12, <3>2
        <4>2. running[c].read.enabled = timer
          BY <1>1, <4>1 DEF StatusInv, ReportTrue
        <4> QED
          BY <1>2, <3>2, <4>2 DEF enabled, ReportsItsOwn
      <3> QED
        BY <3>1, <3>2
    <2>2. \A d \in Commands : ~Writing(d)'
      BY <1>11, <1>12, <1>14
    <2> QED
      BY <1>1, <1>6, <2>1, <2>2 DEF Writing
  <1> QED
    BY <1>10, <1>13, <1>16, <1>17, <1>18 DEF StatusInv

LEMMA StatusPreserved == StatusInv /\ [StatusNext]_statusVars => StatusInv'
  <1> SUFFICES ASSUME StatusInv, [StatusNext]_statusVars
               PROVE  StatusInv'
    OBVIOUS
  <1>1. ASSUME NEW c \in Commands, NEW command \in {"enable", "disable"}, Switch(c, command)
        PROVE  StatusInv'
    BY <1>1, SwitchKeeps
  <1>2. ASSUME NEW c \in Commands, NEW outcome \in {"success", "failed"}, FinishRun(c, outcome)
        PROVE  StatusInv'
    BY <1>2, FinishRunKeeps
  <1>3. ASSUME NEW c \in Commands,
               StartRun(c) \/ ReadStatus(c) \/ EmptyStatus(c) \/ WriteStatus(c) \/ KillCommand(c)
        PROVE  StatusInv'
    BY <1>3, StartRunKeeps, ReadStatusKeeps, EmptyStatusKeeps, WriteStatusKeeps, KillCommandKeeps
  <1>4. CASE UNCHANGED statusVars
    BY <1>4 DEF statusVars, StatusInv, StatusTypeOK, ReportsItsOwn, TimerSwitched, OverlapNoticed,
                ReportTrue, Switching, Writing, Contents
  <1> QED
    BY <1>1, <1>2, <1>3, <1>4 DEF StatusNext

\* enable, disable and the nightly run share status.json without a lock: whatever
\* their interleaving and whoever is killed, when nobody is at work on the report it
\* tells of the timer what is true, unless two of them overlapped or one was killed
\* and no switch alone has set it right since.
THEOREM StatusStaysTrue == StatusSpec => []StatusTrue
  <1>1. StatusInv => StatusTrue
    BY DEF StatusInv, ReportTrue, StatusTrue
  <1> QED
    BY StatusInitially, StatusPreserved, <1>1, PTL DEF StatusSpec
=============================================================================
