SPECIFICATION Spec
CONSTANTS
  VU = {v1, v2, v3}
  NoVU = NoVU
  StartVUs = 1
  Stages <- UpAndDown
  MayCancel = TRUE
  MayFail = TRUE
INVARIANTS CleanExit NeverOvershoots
PROPERTIES RampEnds
CHECK_DEADLOCK FALSE
