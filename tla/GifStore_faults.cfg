SPECIFICATION Spec
CONSTANTS
  Ids = {i1}
  Users = {u1}
  Contents = {c1, c2}
  Size <- MCSize
  MaxBytes = 2
  GlobalMax = 8
  PerUserMax = 8
  U64 = 16
  NoRow = NoRow
  Requests = {r1, r2}
  Clients = {x1}
  NFiles = 2
  Faults <- Everything
  NoFile = NoFile
  NoJob = NoJob
SYMMETRY Symmetric
CHECK_DEADLOCK FALSE
INVARIANTS
  FilesWereCommitted
  CreatedStays
PROPERTY
  TornReadsOnlyDuringUpload
