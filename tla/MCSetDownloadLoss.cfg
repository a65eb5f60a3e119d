CONSTANTS
  Stickers = {s1, s2}
  Slots = 2
  Window = 2
  MaxClock = 4
SPECIFICATION Spec
INVARIANT BothLossesTold
CHECK_DEADLOCK FALSE
