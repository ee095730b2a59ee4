SPECIFICATION Spec
CONSTANTS
  MaxBatches = 2
  Drift = 2
  EncodeWorkers = 2
  JobCap = 1
  OutCap = 1
  Faults = {"count", "iter", "encode", "cancel", "net", "slow", "disk", "shutdown", "auth", "merge", "diff"}
INVARIANT DiffSeesWholeUpload
INVARIANT SuccessIsAnswered
PROPERTY UploadEnds
CHECK_DEADLOCK FALSE
