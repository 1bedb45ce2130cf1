SPECIFICATION Spec
CONSTANTS
  VU = {v1, v2}
  HasThresholds = TRUE
  MayPause = TRUE
  MayCancel = TRUE
  MayFail = TRUE
  JoinExpires = FALSE
  MaxIterations = 1
  MaxReady = 2
INVARIANTS NoWorkAfterExecute FinalSnapshotCoversRun FinalSnapshotShown
PROPERTIES PassedRanInFull RunEnds ImplementsLifecycle
CHECK_DEADLOCK FALSE
