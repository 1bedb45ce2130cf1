SPECIFICATION ESpec
CONSTANTS
  Interval = 2
  Duration = 7
  StartRate = 5
  Stages <- UpAndDown
  TimeUnit = 2
  MaxVUs = 2
  MayCancel = TRUE
  MayFail = TRUE
  MaxTime = 13
INVARIANTS SemaphoreExact TicksAccounted OnSchedule RampOnSchedule
PROPERTIES ScenarioEnds
CHECK_DEADLOCK FALSE
