\* Aggregations of one job that overtake each other.
SPECIFICATION Spec
CONSTANTS
  Task = {t1, t2}
  Root = {r1}
  Call = {c1}
  MaxSlices = 2
  Worker = {w1}
  Chan = {ch1}
  Removable = {}
  MayStop = FALSE
  QueueSize = 1
  BufSize = 1
  MaxRetries = 0
  None = None
SYMMETRY TaskSymmetry
CHECK_DEADLOCK FALSE
INVARIANTS AggregateComplete
