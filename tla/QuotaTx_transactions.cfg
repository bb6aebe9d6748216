SPECIFICATION FairSpec
CONSTANTS
  c1 = c1
  c2 = c2
  c3 = c3
  Contents <- MCContents
  Size <- MCSize
  MaxBytes = 3
  GlobalMax = 4
  PerUserMax = 3
  U64 = 16
  NoRow = NoRow
  NoRequest = NoRequest
  NoJob = NoJob
  Ids = {i1, i2}
  Users = {u1, u2}
  Requests = {r1, r2}
  MaxConns = 2
INVARIANTS
  IInv
  GlobalCap
  UserCap
  NoConstraintError
  NoResurrection
PROPERTIES
  ImplementsCatalog
  TransactionsEnd
