\* Every upload returns, overlapping ones included; and the other components of
\* MCRecovery: safety and liveness.
SPECIFICATION FairRecoverySpec
CONSTANTS
  Upload = {u1, u2}
  Name = {n1}
  Kinds = {"placed", "chunked"}
  Chunks = 2
  Replicas = 1
  Attempts = 2
  Overlap = TRUE
  MayCancel = TRUE
  LateWrites = FALSE
  Reader = {}
  MaxCrashes = 1
  None = None
  \* Repairs
  HealCall = {hec1, hec2}
  FailNode = {hen1}
  Patch = {q1, q2}
  MaxSecond = 2
  MaxFailure = 1
  MaxAction = 1
  \* Gateway
  GwCall = {gwc1}
  s1 = s1
  s2 = s2
  Service = {s1, s2}
  Failovers <- MCFailovers
  RecoverSize = 1
  MaxFailures = 3
CHECK_DEADLOCK FALSE
INVARIANTS CleanupRecorded RecoverySafe
PROPERTIES FailuresRecover RegisteredStays
