\* One job with a worker that stays registered, and the other components of
\* MCServices beside it: safety and liveness.
SPECIFICATION FairServicesSpec
CONSTANTS
  Task = {t1, t2}
  Root = {r1}
  Call = {c1}
  MaxSlices = 2
  Worker = {w1}
  Chan = {ch1, ch2}
  Removable = {}
  MayStop = FALSE
  QueueSize = 1
  BufSize = 1
  MaxRetries = 1
  None = None
  \* TaskStore
  StoreRoot = {stro1}
  Updater = {stg1}
  MaxObject = 2
  MaxProgress = 1
  LogLimit = 1
  LogKeep = 1
  MaxFault = 1
  \* Agent
  AgentJob = {agk1, agk2}
  AgentWorker = {agw1, agw2}
  AgentQueueSize = 1
  \* Training
  Job = {trj1}
  TrainCall = {trc1}
  Run = {trr1, trr2}
  \* PolicyEngine
  PeCheck = {pc1}
  PeAdmin = {pa1}
  MaxQuota = 2
  LimiterCap = 1
  LimiterRate = 1
  SecondTicks = 2
  MaxInstants = 2
  \* TokenRenewal
  TokenTtl = 15
  HalfJitter = 2
  LookupPause = 10
  RenewPause = 5
  \* BulkSend
  BulkWorker = {buw1, buw2}
  ChunkCount = 4
  ChannelSize = 1
  HedgeNode = {bun1, bun2}
  \* AsyncJobs
  AsyncJob = {asj1, asj2}
  Poller = {asp1}
CHECK_DEADLOCK FALSE
   
PROPERTIES  RootGetsResult WorkEnds CopiesCatchUp
