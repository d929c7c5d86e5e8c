\* A failed allocation takes Schedule into tryFallbacks.
SPECIFICATION Spec
CONSTANTS
  Task = {t1}
  Node = {n1}
  Loop = {l1}
  Caller = {c1}
  Journal = {j1}
  JournalCap = 1
  None = None
CHECK_DEADLOCK FALSE
INVARIANT FallbacksDoNotBlock
