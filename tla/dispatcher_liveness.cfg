SPECIFICATION FairSpec
CONSTANTS
  Parents = {p1, p2}
  Workers = {w1}
  Batches <- LargeBatches
  PageSize = 2
  PauseThreshold = 2
  ResumePct = 80
  NumDiffParents = 2
  MaxRetries = 1
  Faults = {"fetch"}
PROPERTY SessionEndsOrJams
CHECK_DEADLOCK FALSE
