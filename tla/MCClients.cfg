SPECIFICATION ClientsSpec
SYMMETRY Interchangeable
CONSTANTS
  t1 = t1
  t2 = t2
  g1 = g1
  g2 = g2
  Task <- Tasks
  Target <- Targets
  MaxCalls = 2
INVARIANTS PhasesAddUp NothingLeftOpen
CHECK_DEADLOCK FALSE
