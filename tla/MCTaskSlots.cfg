\* Three users for two slots, and a goroutine for each: two updates of one
\* user may race each other, and the slots may be full.
CONSTANTS
  Goroutines = {g1, g2, g3}
  Users = {u1, u2, u3}
  Capacity = 2
SPECIFICATION FairSpec
INVARIANTS TypeOK ClaimsOwned SlotsCounted
PROPERTIES ImplementsFairAdmission Freed
