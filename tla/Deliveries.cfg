CONSTANTS
  Scopes = {1, 2}
  Keys = {1, 2, 3}
  Position <- PartitionByPartition
  Unmatched = {2}
  PageSize = 2
  MaxItems = 4
  BatchLimit = 2
  BatchAttempts = 2
  MaxWrites = 2
  AuditEvents <- Trails
  NewestId = 4
  ByActor = {1, 4}
  OnTarget = {2, 3, 4}
  Floors = {0, 2, 5}
  ListSize = 2
  ListRounds = 2
  PurgeSize = 1
  AuditFields = {"note", "password", "internal"}
  SecretFields = {"password"}
  AllowedFields = {"note", "password"}
  MaxAudited = 1
  MaxAuditFaults = 1
  StreamItems = {i1, i2}
  EventNames = {"MODIFY", "REMOVE"}
  WantedNames = {"REMOVE"}
  FirstSequence = 8
  MaxRecords = 3
  MaxRaises = 2
  Receivers = {r1, r2}
  WebhookEvents = {e1}
  ClaimTtl = 5
  RetryPeriod = 2
  Tolerance = 1
  RunLimit = 1
  MaxHookTime = 9
  MaxHookFaults = 2
  Callers = {p1, p2}
  Emails = {"a", "b"}
  Legacy = {0, 2}
  Subscriptions = {s1, s2}
  IndexLag = 1
  KeyLife = 3
  CallLimit = 1
  ConflictAttempts = 2
  MaxBillTime = 3
  PolicyAttempts = 3
  BaseDelay = 4
  MaxDelay = 240
  JitterPercent = 25
  SendTimeout = 80
  ReplayWindow = 2400
  ClockSkews <- Skews
  Secrets = {"shared", "rotated"}
  HttpRequests = {r1}
  Raisable = {"ConditionFailed", "fault", "cancel", "broken"}
  MaxProducts = 2
  MaxRaised = 2
  MaxVersions = 2
  ListItems = 3
  Environments = {e1, e2}
  TokenLife = 1
  GatewayCache = 2
  RotationWait = 3
  MaxTokens = 1
  MaxKmsFaults = 1
  Workers = {w1, w2}
  FirstWorker = w1
  ServedRoutes = {"a", "b"}
  Requests <- SuiteRequests
  Allowlisted = {"b"}
  Unavailable = {"b"}
  CreateAttempts = 2
  SweepAge = 2
  RunHours = 1
  MaxRuns = 2
  MaxSent = 1
  MaxSuiteFaults = 1
  Threads = {t1, t2}
  NoThread = none
  MaxMinted = 4
  MaxLostAnswers = 1
SPECIFICATION Spec
INVARIANTS
  ReadersSeeItAll
  WorkIsDoneOnce
  OwnerIsBilledOnce
  ReportsAreTrue
  RequestsAreAnswered
  KeysAreTrusted
CHECK_DEADLOCK FALSE
