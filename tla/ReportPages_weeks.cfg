\* The days of 28 years; three uploads, deletions and releases over four weeks in two
\* fiscal and two calendar years, or over three with two pages being made.
SPECIFICATION Spec
SYMMETRY Symmetry
CONSTANTS
  Parts = {"calendar", "totals", "views"}
  None = None
  NoStart = NoStart
  p1 = p1
  p2 = p2
  v1 = v1
  v2 = v2
  FirstYear = 2020
  LastYear = 2047
  Starts <- EdgeStarts
  Boundary <- DefaultBoundary
  Weeks <- FourWeeks
  MonthOf <- MonthOfWeek
  FiscalYearOf <- FiscalYearOfWeek
  Lists <- SomeLists
  Viewers <- TwoViewers
  Watched <- GiftAndRanking
  DashboardLimit = 2
  MaxChanges = 3
INVARIANTS
  WeeksNumbered
  PayrollAgrees
  PayrollShowsToday
  TargetJustCompleted
  CalculatorAgrees
  DashboardWeek
  YearAddsUp
  PagesAgree
  ViewFillsFigures
PROPERTIES
  WeeksAdvance
\* When all reports are deleted no page is made.
CHECK_DEADLOCK FALSE
