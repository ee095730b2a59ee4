SPECIFICATION FairSpec
CONSTANTS
  Parents = {p1}
  Workers = {w1}
  Batches <- GatedBatches
  PageSize = 1
  PauseThreshold = 2
  ResumePct = 80
  NumDiffParents = 1
  MaxRetries = 1
  Faults = {"open"}
PROPERTY SessionEnds
CHECK_DEADLOCK FALSE
