\* The same weeks; a report that does not list the selected person.
SPECIFICATION Spec
CONSTANTS
  Parts = {"totals"}
  None = None
  NoStart = NoStart
  p1 = p1
  p2 = p2
  v1 = v1
  v2 = v2
  FirstYear = 2020
  LastYear = 2047
  Starts <- EdgeStarts
  Boundary <- DefaultBoundary
  Weeks <- FourWeeks
  MonthOf <- MonthOfWeek
  FiscalYearOf <- FiscalYearOfWeek
  Lists <- SomeLists
  Viewers <- TwoViewers
  Watched <- GiftAndRanking
  DashboardLimit = 2
  MaxChanges = 3
INVARIANTS
  PerformanceIsOwn
\* When all reports are deleted no page is made.
CHECK_DEADLOCK FALSE
