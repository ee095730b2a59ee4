SPECIFICATION FairSpec
CONSTANTS
  StartBlocks = 1
  MaxBlock = 3
  MaxSubs = 2
  MaxToggles = 1
  MaxRequests = 1
  MaxCut = 1
  ReadLimits = {0, 9}
  Faults = {"net", "wal", "crash", "reorg", "rotate"}
INVARIANT IndexMatchesLog
INVARIANT NoSilentHole
INVARIANT OnlyOldHolesRemain
PROPERTY SubscriptionsEnd
CHECK_DEADLOCK FALSE
