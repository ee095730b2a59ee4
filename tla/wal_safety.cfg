SPECIFICATION Spec
CONSTANTS
  BatchSize = 2
  MaxSnapshotLimit = 1
  MaxEvents = 5
  MaxCrashes = 2
  Faults = {"serialize", "write", "meta", "marker", "readdir", "truncate", "remove"}
PROPERTY ImplementsDurableLog
INVARIANT CommittedSurvives
INVARIANT FlushedIsOnDisk
INVARIANT CheckpointReadable
PROPERTY RotationKeepsCheckpoints
CHECK_DEADLOCK FALSE
