\* Two saves of a month of two weeks; three imports; two pages over one template; two
\* invocations of the schedule script.
SPECIFICATION Spec
CONSTANTS
  Parts = {"months", "imports", "reviews", "status"}
  Blank = Blank
  Invalid = Invalid
  Gone = Gone
  Empty = Empty
  f1 = f1
  f2 = f2
  s1 = s1
  s2 = s2
  t1 = t1
  t2 = t2
  c1 = c1
  c2 = c2
  Weeks <- TwoWeeks
  Figures <- TwoFigures
  Savers <- TwoSavers
  Imports <- ThreeImports
  Documents <- SomeDocuments
  Tabs <- TwoTabs
  InitialLayout <- NotesAround
  MaxEdits = 2
  MaxCards = 3
  Commands <- TwoCommands
INVARIANTS
  HistoryAgrees
  StatusTrue
PROPERTIES
  SavesAreAtomic
  TextsKept
\* When the imports and the edits are used up nothing more happens.
CHECK_DEADLOCK FALSE
