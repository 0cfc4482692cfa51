SPECIFICATION MCSpec
CONSTANTS
  p1 = p1
  p2 = p2
  p3 = p3
  Procs = {p1, p2, p3}
  Job <- JobsOnce
  Companies <- RestoreOrPrune
  Versions = {v1, v2}
  Seconds = {0, 1}
  Suffixes = {0, 1}
  PreSets <- OldSets
  Rotting <- NewerSet
  Keep = 1
  Empty = Empty
  Mixed = Mixed
  Truncated = Truncated
  Absent = Absent
  NoDir = NoDir
  NoOne = NoOne
INVARIANTS
  LockHeldWhileWriting
  PartialsOwned
  PublishedSetsWhole
  BrokenExplained
PROPERTIES
  PruneKeepsNewest
  KeepsSafe
SYMMETRY VersionSymmetry
\* Invocations end, and nothing starts new ones.
CHECK_DEADLOCK FALSE
