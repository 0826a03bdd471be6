CONSTANTS
  DIGITS = 3
  ADDRESSES = 64
  MEMORY = 24
  HEAP = 2
  HEAP_SIZE = 3
  BUF = 6
  BUF_SIZE = 18
  Names <- MCNames
  File <- MCFile
  Increments <- MCIncrements
SPECIFICATION Spec
INVARIANTS
  NumbersSurvive
  DatesAreCalendar
  LoadedAsLinked
  FilesOutliveLoads
  GrantsApart
