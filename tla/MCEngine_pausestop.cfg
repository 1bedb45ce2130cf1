SPECIFICATION Spec
CONSTANTS
  VU = {v1}
  HasThresholds = FALSE
  MayPause = TRUE
  MayCancel = FALSE
  MayFail = FALSE
  JoinExpires = FALSE
  MaxIterations = 1
  MaxReady = 1
PROPERTY StopEndsRun
CHECK_DEADLOCK FALSE
