\* Documents of four rows of three cells with up to three page breaks, of every
\* format; or four uploads of one week and two days, and a legacy segment.
SPECIFICATION Spec
SYMMETRY Symmetric
CONSTANTS
  Parts = {"text", "missed"}
  Nil = Nil
  Nothing = Nothing
  a = a
  b = b
  w1 = w1
  d1 = d1
  d2 = d2
  Formats <- AllFormats
  Rows = 4
  Width = 3
  MaxBreaks = 3
  ThreeDigits = {2}
  Workers <- MCWorkers
  Weeks <- OneWeek
  Days <- TwoDays
  Stamps <- FourUploads
  Name <- DistinctNames
  Legacy <- LegacyDay
INVARIANTS
  OwnFigures
  TextRead
  TypeOK
  DataListed
PROPERTIES
  OwnDataErased
\* A document ends, and so do uploads once all have been made and deleted.
CHECK_DEADLOCK FALSE
