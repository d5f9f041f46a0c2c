\* The sign-up form, with two codes and two checks.
CONSTANTS
  Parts = {"sign-up"}
  ben = ben
  Watchers = {ann, amy, ben}
  NoWatcher = NoWatcher
  Tenants = {"t1", "t2"}
  WatcherTenant <- MCWatcherTenant
  Alerts = {n1, n2}
  MaxBreaks = 2
  m1 = m1
  m2 = m2
  p1 = p1
  p2 = p2
  Migrators = {m1, m2}
  Servers = {p1, p2}
  NoMigrator = NoMigrator
  MaxVersion = 2
  MaxRequests = 1
  u2 = u2
  tab2 = tab2
  Users = {u1, u2}
  NoUser = NoUser
  Tabs = {tab1, tab2}
  Tokens = {1, 2, 3}
  NoToken = NoToken
  Logins = {1, 2}
  NoLogin = NoLogin
  MaxMishaps = 1
  b1 = b1
  b2 = b2
  o1 = o1
  Batches = {b1, b2}
  NoBatch = NoBatch
  Me = me
  Others = {o1}
  Unassigned = Unassigned
  MaxVisits = 3
  MaxNews = 1
  MaxSlips = 1
  Things = {x, y}
  MaxLoads = 3
  MaxTroubles = 1
  i1 = i1
  d1 = d1
  InviteCodes = {i1, i2}
  NoCode = NoCode
  Addresses = {d1, d2}
  NoAddress = NoAddress
  MaxChecks = 2
  MaxSubmits = 1
  MaxHitches = 1
SPECIFICATION ClientsSpec
INVARIANTS ShownWhenJoining
CHECK_DEADLOCK FALSE
