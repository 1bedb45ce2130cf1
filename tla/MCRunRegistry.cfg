SPECIFICATION Spec
CONSTANTS
  Run = {r1, r2}
  MaxSize = 3
  MayRaise = TRUE
  MaxEvents = 2
INVARIANTS CompletedIsRecorded SignalsStopLoneRuns
PROPERTIES ToolsAgree RunsComplete
CHECK_DEADLOCK FALSE
