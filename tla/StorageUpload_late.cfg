\* Backends whose writes may land after their timeout, a reload beside the uploads;
\* and the other components of MCRecords.
SPECIFICATION RecordsSpec
CONSTANTS
  Upload = {u1, u2}
  Name = {n1}
  Kinds = {"placed", "chunked"}
  Chunks = 2
  Replicas = 1
  Attempts = 2
  Overlap = FALSE
  MayCancel = TRUE
  LateWrites = TRUE
  Reader = {r1}
  MaxCrashes = 1
  None = None
  \* Retrieval
  Downloader = {rtc1}
  MaxUpload = 2
  MaxLoss = 1
  \* SecretStore
  SecretKey = {sek1, sek2}
  Kms = {sem1, sem2}
  MaxPut = 2
  StoreCrashes = 1
  \* VaultCache
  VcReader = {vr1, vr2}
  VcStorer = {vs1}
  MaxVersion = 3
  StoreRetries = 2
  CacheTTL = 2
  ShortTTL = 1
  \* Residency
  Transfer = {x1, x2}
  RuleWriter = {w1}
  ru1 = ru1
  eu = eu
  Rule = {ru1}
  Region = {eu, us}
  Country = {c1}
  Strict = {ru1}
  RuleRegion <- MCRuleRegion
  Named <- MCNamed
  BaseRisk <- MCBaseRisk
  HistorySize = 1
  \* Billing
  BillProject = {bipr1}
  BillUser = {biu1}
  Period = {bim1}
  MaxRecords = 2
  MaxPrice = 2
  BillCrashes = 1
  \* QoS
  QosCall = {qoc1, qoc2}
  PolicyId = {qop1, qop2}
  Owner = {qoo1}
  Level = {high}
  MaxBuckets = 2
  Bandwidth = 1
  QosQueueSize = 1
  MaxGiven = 2
  \* AuditChain
  MaxEvents = 4
  CheckpointN = 2
  AuditRestarts = 1
SYMMETRY UploadSymmetry
CHECK_DEADLOCK FALSE
INVARIANTS ManifestBacked DownloadsRight SecretsRight 
PROPERTIES  ChainLinked
