\* DeregisterWorker against the dispatcher.
SPECIFICATION Spec
CONSTANTS
  Task = {t1}
  Root = {r1}
  Call = {c1}
  MaxSlices = 1
  Worker = {w1}
  Chan = {ch1}
  Removable = {w1}
  MayStop = FALSE
  QueueSize = 1
  BufSize = 1
  MaxRetries = 1
  None = None
SYMMETRY TaskSymmetry
CHECK_DEADLOCK FALSE
INVARIANTS NoSendOnClosed
