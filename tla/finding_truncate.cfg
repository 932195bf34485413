SPECIFICATION Spec
CONSTANTS
  CheckpointThreshold = 2
  Retention = 30
  DefaultRetention = 30
  AlertAfter = 2
  SegmentOutcomes = {"ok"}
  SnapshotOutcomes = {"ok"}
  PruneOutcomes = {"deleted"}
  LongReaders = FALSE
  LocalErrors = FALSE
  QuietCheckpoints = FALSE
  MaxTime = 6
PROPERTY TruncatesOnlyShipped
