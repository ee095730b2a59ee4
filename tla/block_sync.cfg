SPECIFICATION FairSpec
CONSTANTS
  MaxHeaders = 2
  MaxData = 2
  Serves <- LaggingPeer
  Unparsable = {3}
  InitialBlocks = {0, 2}
  Entries = {"prior", "catchup", "gap"}
  GapTags <- MixedGap
  MinBlocks = 2
  Wrap = 26
  MergeWrap = 8
  MergeDivisor = 2
  SubDivisor = 20
  LeafThreshold = 1
  LayerThreshold = 2
  MaxWorkers = 2
  MaxRetries = 2
  MaxSyncRounds = 2
  MaxSessions = 2
  Faults = {"net", "wal", "db", "crash"}
INVARIANT StoredIsLogged
INVARIANT BodiesInBatchOrder
INVARIANT SuccessIsComplete
INVARIANT BatchesPartitionTag
INVARIANT FailureIsLastResort
INVARIANT ConfirmedHeadersMatch
INVARIANT TagCoversDifference
PROPERTY SessionEndsAndPoolDrains
CHECK_DEADLOCK FALSE
