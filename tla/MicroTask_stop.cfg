\* Workers deregistered and registered again, the manager stopped, at any moment;
\* and the other components of MCOperations.
SPECIFICATION OperationsSpec
CONSTANTS
  Task = {t1, t2}
  Root = {r1}
  Call = {c1}
  MaxSlices = 2
  Worker = {w1, w2}
  Chan = {ch1, ch2}
  Removable = {w1, w2}
  MayStop = TRUE
  QueueSize = 1
  BufSize = 1
  MaxRetries = 1
  None = None
  \* ToolChain
  ToolCall = {toc1, toc2}
  Tool = {tot1}
  Target = {prod}
  Prod = {prod}
  Source = {good, bad}
  Dangerous = {bad}
  MaxMeta = 2
  MaxHour = 2
  MaxDeploy = 1
  \* Scaling
  ScaleCall = {scc1, scc2}
  MaxAttempts = 2
  BootstrapsPerHour = 1
  \* AIMode
  ModeCall = {moc1}
  ModeSaver = {s1, s2}
  FailThreshold = 2
  MaxRestart = 1
  \* Monitor
  Reporter = {rer1, rer2}
  RingSize = 2
  Cooldown = 2
  MaxSample = 3
  MaxClock = 4
  \* FabricConns
  Link = {fal1, fal2}
  LinkUser = {fau1, fau2}
  \* CfePlugins
  Registrar = {rg1, rg2}
  PluginCall = {pl1}
  MaxBuild = 2
  PluginCrashes = 1
  \* LeaderLease
  Replica = {ler1, ler2}
  Generations = 2
SYMMETRY TaskSymmetry
CHECK_DEADLOCK FALSE
INVARIANTS NeverTwice  ScalingSafe ConnectionsSafe ObservedRight
PROPERTIES OperationsKept
