\* Three stickers for two slots: one waits, two race. The clock goes from
\* Window to twice Window, so a second edit may be due.
CONSTANTS
  Stickers = {s1, s2, s3}
  Slots = 2
  Window = 2
  MaxClock = 4
SPECIFICATION FairSpec
INVARIANTS TypeOK SlotsCounted JoinedClean LossTold
PROPERTIES Throttled Ends
CHECK_DEADLOCK FALSE
