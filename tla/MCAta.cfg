CONSTANTS
  SECTORS = 3
  WORDS = 2
  Values = {"x", "y"}
  Junk = "junk"
  TIMEOUT = 2
  MANY = 2
  BYTE = 2
SPECIFICATION Spec
INVARIANTS
  SectorsWhole
PROPERTIES
  ExactCalls
  StuckDrive
  CallEnds
