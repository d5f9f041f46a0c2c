\* The custodian is deactivated or given another role.
CONSTANTS
  Batches = {b1}
  farmer = farmer
  processor = processor
  admin = admin
  outsider = outsider
  Actors = {farmer, processor, admin}
  Salts = {salt}
  NoSalt = NoSalt
  Tenants <- MCTenants
  Requests = {r1}
  NoActor = NoActor
  NoEvent = NoEvent
  Free = Free
  TenantOf <- MCTenantOf
  InitRole <- MCInitRole
  DtoStages = {0, 1}
  ManagedActors = {processor}
  GivenRoles = {"DISTRIBUTOR"}
  MaxEvents = 1
SYMMETRY RequestSymmetry
SPECIFICATION Spec
INVARIANTS CustodianHasWork
