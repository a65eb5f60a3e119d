\* Two requests of two users; an object for each user and one for each
\* request that may hold one no longer in the map.
CONSTANTS
  Requests = {r1, r2}
  Users = {u1, u2}
  Kinds = {general}
  Objects = {o1, o2, o3, o4}
  None = none
  Burst = 2
  Cost = 1
  GlobalBurst = 3
  MaxIdle = 2
SPECIFICATION Spec
INVARIANTS TypeOK QuotaUnlessRaced
PROPERTY RefusedOnlyBeyond
SYMMETRY Symmetry
