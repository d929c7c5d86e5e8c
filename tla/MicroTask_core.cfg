\* Two SliceTask calls, on one job or on two, over two workers, and the other
\* components of MCAlgorithms.
SPECIFICATION AlgorithmsSpec
CONSTANTS
  Task = {t1, t2}
  Root = {r1, r2}
  Call = {c1, c2}
  MaxSlices = 2
  Worker = {w1, w2}
  Chan = {ch1, ch2}
  Removable = {}
  MayStop = FALSE
  QueueSize = 1
  BufSize = 1
  MaxRetries = 1
  None = None
  \* Heuristics
  HrCall = {hec1, hec2}
  HrTask = {ht1, ht2}
  HrNode = {ha, hb}
  ha = ha
  hb = hb
  ht1 = ht1
  ht2 = ht2
  FreeOn <- MCFreeOn
  Watts <- MCWatts
  HourCost <- MCHourCost
  HomeOf <- MCHomeOf
  Likes <- MCLikes
  Needs <- MCNeeds
  Urgency <- MCUrgency
  \* Quantum: the vector
  SvSizes = {1, 2, 3}
  SvLength = 2
  \* CfeFeatures
  CfNumbers <- MCNumbers
  CfWindows = {0, 3, 6}
  MinWindow = 6
  CfChunkBits = {1, 3, 4}
  CfChunks = 3
  CfMods = {0, 5}
  CfPrimes = {3, 5, 7}
  HistogramSize = 16
  FlipLimit = 9
  OffsetLimit = 3
  CandidateLimit = 12
  \* Quantum: the jobs
  QuantumJob = {quj1, quj2}
  QuantumPoll = {qup1}
  MaxInstant = 2
  BigJobs = {quj1}
  SampledJobs = {quj1}
  \* ResourcePool
  PoolCall = {poc1, poc2}
  q1 = q1
  q2 = q2
  q3 = q3
  PoolReq = {q1, q2, q3}
  PoolNode = {pon1, pon2}
  PoolCapacity = 5
  Demand <- MCDemand
  SoftReq = {q1, q2}
  DueReq = {q3}
  Affine <- MCAffine
  \* SRM
  SrmCall = {src1, src2}
  Account = {sra1, sra2}
  Kind = {cpu}
  Quota = 1
SYMMETRY Symmetry
CHECK_DEADLOCK FALSE
INVARIANTS NoTaskLost FullAggregate   ReservationsHold AccountCallsGoOn
PROPERTIES LifeSpec
