SPECIFICATION Spec
CONSTANTS
  MaxHeaders = 2
  MaxData = 2
  Serves <- OneServer
  Unparsable = {}
  InitialBlocks = {0, 2}
  Entries = {"prior"}
  GapTags = {}
  MinBlocks = 2
  Wrap = 26
  MergeWrap = 8
  MergeDivisor = 2
  SubDivisor = 20
  LeafThreshold = 1
  LayerThreshold = 2
  MaxWorkers = 2
  MaxRetries = 2
  MaxSyncRounds = 4
  MaxSessions = 1
  Faults = {}
INVARIANT SynchronizedBlocksHaveBodies
CHECK_DEADLOCK FALSE
