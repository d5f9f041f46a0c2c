\* One batch, three colleagues, two requests at a time.
CONSTANTS
  Batches = {b1}
  farmer = farmer
  processor = processor
  admin = admin
  outsider = outsider
  Actors = {farmer, processor, admin}
  Salts = {salt}
  NoSalt = NoSalt
  Tenants <- MCTenants
  Requests = {r1, r2}
  NoActor = NoActor
  NoEvent = NoEvent
  Free = Free
  TenantOf <- MCTenantOf
  InitRole <- MCInitRole
  DtoStages = {0, 1, 5}
  ManagedActors = {}
  GivenRoles = {}
  MaxEvents = 2
SYMMETRY RequestSymmetry
SPECIFICATION Spec
INVARIANTS TypeOK ChainIntact StageIsFrontier AnomaliesComplete CustodianHasWork AuditMatchesLedger PushesAreTrue TransactionsIsolated
PROPERTIES RecallFreezesBatch CustodyRespected ImplementsLedger
