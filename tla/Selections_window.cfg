SPECIFICATION Spec
CONSTANTS
  Users = {u1, u2}
  Requests = {r1, r2}
  Day = 3
  MaxLag = 1
  MaxTime = 5
  Faults <- Dropping
  NoUser = NoUser
  Never = Never
SYMMETRY Symmetric
CHECK_DEADLOCK FALSE
INVARIANTS
  UsesAreCounts
  CountsAreSpaced
