SPECIFICATION DSpec
CONSTANTS
  Workers = {1, 2, 3, 4, 5}
  Amounts = {0, 1, 2, 3, 4, 5, 6, 7, 10, 11, 13}
  BatchSize = 2
  MaxStreams = 2
  MaxSamples = 4
  MaxConns = 2
  MaxBreaks = 1
  MaxCasts = 1
  MaxReports = 1
INVARIANTS Partitioned SamplesConserved NeverTwice BroadcastReaches
PROPERTIES EverythingArrives
CHECK_DEADLOCK FALSE
