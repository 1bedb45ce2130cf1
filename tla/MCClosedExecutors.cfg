SPECIFICATION Spec
CONSTANTS
  pool = pool
  each = each
  p1 = p1
  p2 = p2
  e1 = e1
  e2 = e2
  Scenario <- MCScenario
  Shared = {pool}
  VU <- MCVU
  Home <- MCHome
  Budget <- MCBudget
  MayCancel = TRUE
  MayFail = TRUE
INVARIANTS RanExactly GaugesExact
CHECK_DEADLOCK FALSE
