SPECIFICATION BackupSpec
CONSTANTS
  Ids = {i1}
  Users = {u1}
  Contents = {c1, c2}
  Size <- MCSize
  MaxBytes = 2
  GlobalMax = 8
  PerUserMax = 8
  U64 = 16
  NoRow = NoRow
  Requests = {r1}
  Clients = {}
  NFiles = 2
  Faults <- Stopping
  NoFile = NoFile
  NoJob = NoJob
  NoArchive = NoArchive
SYMMETRY Symmetric
CHECK_DEADLOCK FALSE
INVARIANTS
  BackupTypeOK
  QuietGifsAreArchived
PROPERTIES
  MatchingArchiveHasFiles
  RestoreIsBackup
