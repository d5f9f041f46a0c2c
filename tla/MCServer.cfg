\* Everything the server does beside the ledger's writes, each part on its own.
CONSTANTS
  Parts = {"sign-ups", "governance", "pool", "traces"}
  Calls = {r1, r2}
  Ids = {1, 2, 3}
  Emails = {e1, e2, e3}
  AnyEmail = AnyEmail
  Slugs = {s1, s2}
  Codes = {c1}
  Nobody = Nobody
  OfferedRoles = {"ADMIN", "FARMER"}
  Kinds = {"workspace", "join", "provision", "invite", "revoke", "status", "role"}
  Flows = {f1, f2}
  Conns = {k1, k2}
  Workspaces = {w1, w2}
  NoTenant = NoTenant
  NoConn = NoConn
  Batches = {1}
  Actors = {a1}
  Salts = {salt}
  NoSalt = NoSalt
  HasLegacyKey = TRUE
  InitEvents = 2
  LegacyEvents = 1
  DtoStages = {0, 1}
  MaxEvents = 4
  MaxTamperings = 3
  Readers = {q1}
SPECIFICATION ServerSpec
SYMMETRY ServerSymmetry
INVARIANTS
  ServerTypeOK NoNameTwice MembershipIsGranted AdminLostOnlyByCrossing
  UnitOfWork VerdictsAreRight DamageShows
PROPERTIES OnlyOpenInvitations
CHECK_DEADLOCK FALSE
