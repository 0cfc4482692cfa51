SPECIFICATION MCSpec
CONSTANTS
  p1 = p1
  p2 = p2
  p3 = p3
  Procs = {p1, p2, p3}
  Job <- JobsOnce
  Companies <- RestoreAlone
  Versions = {v1}
  Seconds = {0, 1}
  Suffixes = {0, 1}
  PreSets <- OldSet
  Rotting <- NoSets
  Keep = 1
  Empty = Empty
  Mixed = Mixed
  Truncated = Truncated
  Absent = Absent
  NoDir = NoDir
  NoOne = NoOne
INVARIANTS
  NoBackupDuringRestore
\* Invocations end, and nothing starts new ones.
CHECK_DEADLOCK FALSE
