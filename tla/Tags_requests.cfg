SPECIFICATION FairSpec
CONSTANTS
  Requests = {r1, r2}
  TagNames = {a, b}
  MaxTags = 2
  Initial = Initial
  NoRow = NoRow
  Faults <- Dropping
CHECK_DEADLOCK FALSE
INVARIANT
  TypeOK
PROPERTIES
  PutReplacesWhatItSaw
  PutFailsForCause
  RequestsEnd
