SPECIFICATION PSpec
CONSTANTS
  CheckpointThreshold = 3
  Retention = 3
  DefaultRetention = 30
  AlertAfter = 1
  SegmentOutcomes = {"ok", "fail"}
  SnapshotOutcomes = {"ok"}
  PruneOutcomes = {"deleted", "partial"}
  LongReaders = FALSE
  LocalErrors = FALSE
  QuietCheckpoints = TRUE
  MaxTime = 7
PROPERTIES RecoverableNeverShrinks EveryCommitBackedUp
