SPECIFICATION Spec
CONSTANTS
  BatchSize = 2
  MaxSnapshotLimit = 1
  MaxEvents = 3
  MaxCrashes = 1
  Faults = {}
INVARIANT ResumesAfterLog
CHECK_DEADLOCK FALSE
