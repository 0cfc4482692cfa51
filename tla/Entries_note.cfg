\* The same instances; a note written on a page that is up to date.
SPECIFICATION Spec
CONSTANTS
  Parts = {"reviews"}
  Blank = Blank
  Invalid = Invalid
  Gone = Gone
  Empty = Empty
  f1 = f1
  f2 = f2
  s1 = s1
  s2 = s2
  t1 = t1
  t2 = t2
  c1 = c1
  c2 = c2
  Weeks <- TwoWeeks
  Figures <- TwoFigures
  Savers <- TwoSavers
  Imports <- ThreeImports
  Documents <- SomeDocuments
  Tabs <- TwoTabs
  InitialLayout <- NotesAround
  MaxEdits = 2
  MaxCards = 3
  Commands <- TwoCommands
PROPERTIES
  NoteSavedWhereWritten
CHECK_DEADLOCK FALSE
