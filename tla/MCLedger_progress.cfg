\* Two replicas scan three batches, in pages of two, nobody recording; every scan
\* and every request comes to its end.
CONSTANTS
  Parts = {"requests", "scans"}
  Batches = {1, 2, 3}
  Actors = {a1}
  Salts = {salt}
  NoSalt = NoSalt
  HasLegacyKey = TRUE
  InitEvents = 1
  LegacyEvents = 1
  DtoStages = {0}
  MaxEvents = 1
  MaxTamperings = 1
  Scanners = {r1, r2}
  SCAN_PAGE_SIZE = 2
  MaxResolved = 0
  farmer = farmer
  processor = processor
  admin = admin
  outsider = outsider
  People = {farmer, admin}
  NoActor = NoActor
  NoEvent = NoEvent
  Free = Free
  RequestStages = {0}
  ManagedActors = {}
  GivenRoles = {}
SPECIFICATION FairAroundSpec
INVARIANTS ScanFindsTampering AlertMeansTampering
PROPERTIES WorkEnds
