SPECIFICATION Spec
CONSTANTS
  Parents = {p1}
  Workers = {w1, w2}
  Batches <- UnevenBatches
  PageSize = 2
  PauseThreshold = 2
  ResumePct = 80
  NumDiffParents = 1
  MaxRetries = 1
  Faults = {"open", "fetch", "send", "iter", "cancel"}
SYMMETRY Interchangeable
INVARIANT DoneOnlyWhenFinalised
INVARIANT InflightExact
INVARIANT NoNonceLost
INVARIANT NoDoubleReport
PROPERTY ImplementsDelivery
CHECK_DEADLOCK FALSE
