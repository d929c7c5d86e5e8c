\* Two overlapping uploads of one file.
SPECIFICATION Spec
CONSTANTS
  Upload = {u1, u2}
  Name = {n1}
  Kinds = {"placed"}
  Chunks = 1
  Replicas = 1
  Attempts = 1
  Overlap = TRUE
  MayCancel = FALSE
  LateWrites = FALSE
  Reader = {}
  MaxCrashes = 0
  None = None
SYMMETRY UploadSymmetry
CHECK_DEADLOCK FALSE
INVARIANTS ManifestBacked
