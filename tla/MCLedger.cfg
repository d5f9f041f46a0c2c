\* Two replicas scan, in pages of one, beside recording, while alerts are resolved;
\* requests of two tenants, while roles and statuses change.
CONSTANTS
  Parts = {"requests", "scans"}
  Batches = {1, 2}
  Actors = {a1}
  Salts = {salt}
  NoSalt = NoSalt
  HasLegacyKey = TRUE
  InitEvents = 1
  LegacyEvents = 1
  DtoStages = {0}
  MaxEvents = 2
  MaxTamperings = 1
  Scanners = {r1, r2}
  SCAN_PAGE_SIZE = 1
  MaxResolved = 1
  farmer = farmer
  processor = processor
  admin = admin
  outsider = outsider
  People = {farmer, processor, admin, outsider}
  NoActor = NoActor
  NoEvent = NoEvent
  Free = Free
  RequestStages = {0}
  ManagedActors = {processor}
  GivenRoles = {"PROCESSOR", "DISTRIBUTOR"}
SYMMETRY ServerSymmetry
SPECIFICATION AroundSpec
INVARIANTS TypeOK OneOpenAlert ScanFindsTampering TenantIsolation
