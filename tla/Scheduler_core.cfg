\* A task that may be removed and replaced, a loop, a direct caller and a journal;
\* and the journal's files.
SPECIFICATION FairSchedulingSpec
CONSTANTS
  Task = {t1}
  Node = {n1}
  Loop = {l1}
  Caller = {c1}
  Journal = {j1}
  JournalCap = 1
  None = None
  \* JournalFile
  MaxEntries = 5
  FileLimit = 2
  BufferSize = 2
  MaxSeconds = 2
CHECK_DEADLOCK FALSE
INVARIANTS RunsWhereDecided JournalsSafe
PROPERTIES RemovedStaysRemoved StartedOnce CallReturns StoppedLoopEnds ClosedJournalWritten
