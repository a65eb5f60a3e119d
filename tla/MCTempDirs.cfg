CONSTANTS
  Names = {n1, n2}
  Files = {db}
  Misnamed = {db, other}
  NoName = none
  MaxAge = 2
  Interval = 2
  MaxPurge = 1
SPECIFICATION FairSpec
INVARIANTS TypeOK LiveDirKept
PROPERTIES AbandonedPurged
