\* Two updates, and a clock that runs for two days.
CONSTANTS
  Updates = {g1, g2}
  Users = {alice}
  Names = {"message"}
  Kinds = {"message"}
  Size = 2
  Window = 0
  None = none
  Days = 1
  Events = {"download"}
  MaxBusy = 2
  MaxNow = 1
  MaxRestarts = 0
SPECIFICATION Spec
INVARIANT ReportDays
CHECK_DEADLOCK FALSE
