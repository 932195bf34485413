SPECIFICATION Spec
CONSTANTS
  CheckpointThreshold = 2
  Retention = 1
  DefaultRetention = 10
  AlertAfter = 1
  SegmentOutcomes={"ok","fail","landed"}
  SnapshotOutcomes={"ok","fail","landed","empty"}
  PruneOutcomes={"deleted","kept","partial"}
  LongReaders = TRUE
  LocalErrors = TRUE
  QuietCheckpoints = FALSE
  MaxTime = 5
INVARIANTS TypeOK StampsCover CurrentGenerationKept NothingFromTheFuture
