\* A scan beside recording on a ledger nobody tampered with.
CONSTANTS
  Batches = {1}
  Actors = {a1}
  Salts = {salt}
  NoSalt = NoSalt
  HasLegacyKey = TRUE
  InitEvents = 1
  LegacyEvents = 1
  DtoStages = {0, 1}
  MaxEvents = 2
  MaxTamperings = 0
  Scanners = {s1}
  SCAN_PAGE_SIZE = 1
  MaxResolved = 1
SPECIFICATION Spec
INVARIANTS AlertMeansTampering
