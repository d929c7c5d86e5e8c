\* Successive placed or chunked uploads of one file, with cancellation, crashes and
\* writes that land after their timeout.
SPECIFICATION Spec
CONSTANTS
  Upload = {u1, u2, u3}
  Name = {n1}
  Kinds = {"placed", "chunked"}
  Chunks = 1
  Replicas = 2
  Attempts = 1
  Overlap = FALSE
  MayCancel = TRUE
  LateWrites = TRUE
  Reader = {}
  MaxCrashes = 1
  None = None
SYMMETRY UploadSymmetry
CHECK_DEADLOCK FALSE
INVARIANTS MemoryMatchesDisk
PROPERTIES VersionsGrow AtomicSpec
