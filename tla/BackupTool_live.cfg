SPECIFICATION MCFairSpec
CONSTANTS
  p1 = p1
  p2 = p2
  p3 = p3
  Procs = {p1, p2}
  Job <- JobsTwoRestores
  Companies = {{p1, p2}}
  Versions = {v1}
  Seconds = {0}
  Suffixes = {0, 1, 2}
  PreSets <- OldSet
  Rotting <- NoSets
  Keep = 1
  Empty = Empty
  Mixed = Mixed
  Truncated = Truncated
  Absent = Absent
  NoDir = NoDir
  NoOne = NoOne
INVARIANTS
  BrokenExplained
PROPERTIES
  EveryInvocationEnds
  LockComesFree
\* Invocations end, and nothing starts new ones.
CHECK_DEADLOCK FALSE
