\* The process may be restarted for ever, before its ticker ever fires.
CONSTANTS
  Names = {n1}
  Files = {}
  Misnamed = {}
  NoName = none
  MaxAge = 1
  Interval = 2
  MaxPurge = 0
SPECIFICATION FairSpec
PROPERTY AbandonedGoes
