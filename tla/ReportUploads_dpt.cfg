\* Weekly sales of one week twice, under one fiscal calendar.
SPECIFICATION Spec
CONSTANTS
  s1 = s1
  s2 = s2
  d1 = d1
  d2 = d2
  n1 = n1
  n2 = n2
  Workers = {w1, w2}
  Uploads = {1, 2, 3}
  Document <- Replaced
  Kinds <- AllKinds
  Names = {n1, n2}
  Periods = {1, 2}
  Starts = {s1}
  WeekOf <- OneCalendar
  Dpts = {d1, d2}
  NoDpt = NoDpt
  NoSummary = NoSummary
  Old <- First
  NoUpload = NoUpload
PROPERTIES
  PageShowsWeeksDpt
\* When every upload is gone nothing is left to do.
CHECK_DEADLOCK FALSE
