SPECIFICATION SinksSpec
CONSTANTS
  NoFilter = NoFilter
  a = a
  b = b
  AnyTag <- NoFilter
  Sample <- Samples
  Checked <- Checks
  Builtin <- Builtins
  Thresholds <- Limits
  Durations <- Lasted
  Inf = 1000000
  Half = 1024
  Widths <- PowersOfTwo
  MaxSamples = 3
INVARIANTS StatisticsFollowSamples VerdictsFollowSamples WithinPrecision
CHECK_DEADLOCK FALSE
