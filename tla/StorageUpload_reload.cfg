\* A reload beside an upload.
SPECIFICATION Spec
CONSTANTS
  Upload = {u1, u2}
  Name = {n1}
  Kinds = {"placed"}
  Chunks = 1
  Replicas = 1
  Attempts = 1
  Overlap = FALSE
  MayCancel = FALSE
  LateWrites = FALSE
  Reader = {r1}
  MaxCrashes = 0
  None = None
SYMMETRY UploadSymmetry
CHECK_DEADLOCK FALSE
INVARIANTS MemoryMatchesDisk
