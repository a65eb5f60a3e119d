CONSTANTS
  Updates = {g1, g2, g3}
  Users = {alice, bob}
  Names = {"message", "/start"}
  Kinds = {"message", "command"}
  Size = 2
  Window = 0
  None = none
  Days = 0
  Events = {"download"}
  MaxBusy = 2
  MaxNow = 1
  MaxRestarts = 1
SPECIFICATION Spec
INVARIANTS TypeOK NothingLost RateRight SnapshotFresh ReportConsistent
CHECK_DEADLOCK FALSE
SYMMETRY Symmetry
