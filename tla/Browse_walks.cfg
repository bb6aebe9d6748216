SPECIFICATION Spec
CONSTANTS
  g1 = g1
  g2 = g2
  g3 = g3
  u1 = u1
  u2 = u2
  s1 = s1
  s2 = s2
  Ids <- MCIds
  Users <- MCUsers
  Admins <- MCAdmins
  Requests = {r1, r2}
  Patches <- MCPatches
  MaxRequests = 2
  NoGif = NoGif
  NoJob = NoJob
  Walkers <- MCWalkers
  Limits = {2, 3}
  MaxLimit = 2
  Seeds <- MCSeeds
  Shuffle <- MCShuffle
  TagHits <- MCTagHits
  NameRank <- MCNameRank
  Filters <- MCFilters
  NoSeed = NoSeed
  NoWalk = NoWalk
SYMMETRY SameRequests
CHECK_DEADLOCK FALSE
INVARIANTS
  TypeOK
  ListsReferToGifs
  WalkIsListing
  NothingTwice
  NothingMissed
  PagesAreSets
PROPERTY
  PrivateIsUploadersOnly
