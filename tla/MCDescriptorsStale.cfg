\* 7 is (size_t)-1 of this instance's word.  Storage's faults are its own run's.
CONSTANTS
  SECTOR = 2
  TAR_MAX_SECTORS = 4
  Names = {"f", "g"}
  Sizes = {0, 3}
  MaxFaults = 0
  FD_MAX_FILES = 2
  Counts = {1, 2, 7}
  Values = {1}
  SIZE_T = 8
  MoveWhileOpen = TRUE
SPECIFICATION DescriptorsSpec
INVARIANTS
  FdPointsAtItsFile
