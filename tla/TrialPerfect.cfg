SPECIFICATION Spec
CONSTANTS
  Maxtrials = 2
  MaxBreedings = 5
  Stagnation = 3
  Worst = 4
  Validating = TRUE
  EarlyLimit = 2
INVARIANTS PerfectEndsRun
CHECK_DEADLOCK FALSE
