\* Sizes 0, 1, 2 and 3 are no block, a partial one, a full one and two: each
\* case of ceilDiv.  Six blocks hold the three names with and without room.
CONSTANTS
  SECTOR = 2
  TAR_MAX_SECTORS = 6
  Names = {"f", "g", "h"}
  Sizes = {0, 1, 2, 3}
SPECIFICATION UstarSpec
INVARIANTS
  NothingBehindTheEnd
PROPERTIES
  ImplementsFileList
