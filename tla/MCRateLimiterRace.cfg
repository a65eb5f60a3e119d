\* The same instance; the bucket of u1 is dropped while r1 uses it.
CONSTANTS
  Requests = {r1, r2}
  Users = {u1, u2}
  Kinds = {general}
  Objects = {o1, o2, o3, o4}
  None = none
  Burst = 2
  Cost = 1
  GlobalBurst = 3
  MaxIdle = 2
SPECIFICATION Spec
INVARIANT QuotaKept
SYMMETRY Symmetry
