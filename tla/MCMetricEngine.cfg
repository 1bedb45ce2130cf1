SPECIFICATION Spec
CONSTANTS
  checks = checks
  custom = custom
  a = a
  b = b
  all = all
  AnyTag = all
  None = None
  Sample <- MCSample
  Builtin <- MCBuiltin
  SubSinks <- MCSubSinks
  Thresholds <- DistinctTexts
  FlushInterval = 1
  ThresholdInterval = 1
  DrainLimit = 1
  JoinTimeout = 2
  Uptime <- OneUptime
  MaxSamples = 3
  MaxTime = 3
INVARIANTS FinalSnapshotComplete
PROPERTIES GraceHonoured ThreadEnds ImplementsPipe
CHECK_DEADLOCK FALSE
