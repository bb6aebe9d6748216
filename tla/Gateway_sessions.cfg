SPECIFICATION Spec
CONSTANTS
  a1 = a1
  a2 = a2
  a3 = a3
  u1 = u1
  u2 = u2
  Addresses = {a1, a2, a3}
  Users = {u1, u2}
  Foreign = Foreign
  Classes = {"api"}
  Logins = {r1, r2, r3}
  Period <- MCPeriod
  Burst <- MCBurst
  AdminLists <- MCAdminLists
  Ttl = 1
  Leeway = 1
  Timeout = 1
  MaxTime = 4
  MaxSecret = 1
  MaxSessions = 1
  NoLogin = NoLogin
  Nobody = Nobody
SYMMETRY Symmetric
CHECK_DEADLOCK FALSE
INVARIANTS
  TypeOK
  SessionsAreRecent
  AdminsWereListed
  RotationRevokes
  LoadIsBounded
