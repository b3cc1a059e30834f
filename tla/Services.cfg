CONSTANTS
  Requests = {q1, q2}
  Containers = {k1, k2}
  NoContainer = none
  TierRequests = {q1, q2}
  KeyScopes <- TokenScope
  PerMinute <- ThreeAMinute
  PerDay <- FourADay
  MaxLease = 2
  LeaseDivisor = 1
  MinutesPerDay = 2
  LastMinute = 1
  MaxCounted = 4
  WindowRequests = {q1, q2}
  WindowSeconds = 2
  WindowLimit = 2
  Recipients = {r1, r2}
  MailLimits <- CategoryLimits
  LastSecond = 3
  MaxRefused = 1
  KeyHashes = {"k"}
  ShareHashes = {"s"}
  Owners = {"u"}
  KeyTenants = {"t", "o"}
  GrantableScopes = {"r"}
  KeyRequests = {q1}
  Sweeps = {"x"}
  LastTick = 1
  UserIds = {"u"}
  Ephemerals = {"u"}
  PurgeOrder <- PurgeTables
  KeyedTables = {"credentials"}
  Unsupported = {"identity_tokens"}
  LiveRequests = {"q"}
  AdminCalls = {"a"}
  Deliveries = {"d", "e"}
  MaxDeliveries = 2
SPECIFICATION Spec
INVARIANTS
  LimitsHold
  CredentialsEnd
  RemovalIsWhole
SYMMETRY Sym
CHECK_DEADLOCK FALSE
