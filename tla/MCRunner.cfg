SPECIFICATION RSpec
CONSTANTS
  Log = log
  Progress = progress
  Consumer = {log, progress}
  Primary = Primary
  NoQueue = NoQueue
  MaxSize = 2
  MaxEvents = 3
  Outputs <- Three
  BatchSize = 2
  MaxSamples = 3
INVARIANTS StreamsAreFaithful SuccessMeansDelivered
PROPERTIES StreamEndsUnlessFull RunnerReturns
CHECK_DEADLOCK FALSE
