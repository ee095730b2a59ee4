SPECIFICATION FairSpec
CONSTANTS
  Writers = {"w1", "w2"}
  Plan <- EntryThenCheckpoint
  MaxBuffers = 3
INVARIANT TypeOK
INVARIANT BufferFIFO
INVARIANT EntryAccounted
INVARIANT OpenBufferRegistered
PROPERTY EntriesReachLog
PROPERTY WritersReturn
CHECK_DEADLOCK FALSE
