SPECIFICATION Spec
CONSTANTS
  s1 = s1
  s2 = s2
  d1 = d1
  d2 = d2
  n1 = n1
  n2 = n2
  Workers = {w1, w2}
  Uploads = {1, 2, 3}
  Document <- Dependent
  Kinds <- AllKinds
  Names = {n1, n2}
  Periods = {1, 2}
  Starts = {s1, s2}
  WeekOf <- ShiftedWeeks
  Dpts = {d1, d2}
  NoDpt = NoDpt
  NoSummary = NoSummary
  Old <- First
  NoUpload = NoUpload
INVARIANTS
  FiguresMatchRows
  FilesMatchRows
  PendingExplained
PROPERTIES
  DeletedStaysDeleted
SYMMETRY WorkerSymmetry
