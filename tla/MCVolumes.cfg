\* Empty files, files below, at and above the limit of 3, and missing ones.
CONSTANTS
  MaxVolSize = 3
  Sizes = {0, 1, 2, 3, 4}
  Missing = missing
  MaxFiles = 5
SPECIFICATION ASpec
INVARIANTS ATypeOK Partition OverfullOnlyAlone NoEarlySplit ArchivesWhole
CHECK_DEADLOCK FALSE
