\* A file of size 3 takes two data blocks, one of size 0 none.
CONSTANTS
  SECTOR = 2
  TAR_MAX_SECTORS = 4
  Names = {"f", "g"}
  Sizes = {0, 3}
  MaxFaults = 2
SPECIFICATION Spec
INVARIANTS
  InStep
  FrontFilesSurvive
  TouchIsAtomic
PROPERTIES
  ListingIsOfTheDisk
