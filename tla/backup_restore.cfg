SPECIFICATION Spec
CONSTANTS
  CheckpointThreshold = 3
  Retention = 3
  DefaultRetention = 30
  AlertAfter = 1
  SegmentOutcomes = {"ok", "fail"}
  SnapshotOutcomes = {"ok"}
  PruneOutcomes = {"deleted", "partial"}
  LongReaders = TRUE
  LocalErrors = FALSE
  QuietCheckpoints = TRUE
  MaxTime = 7
INVARIANTS RestoreConsistent ShippedIsRecoverable SegmentsDisjoint
 
