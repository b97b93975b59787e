SPECIFICATION FairSpec
CONSTANTS
  Maxtrials = 2
  MaxBreedings = 5
  Stagnation = 3
  Worst = 4
  Validating = TRUE
  EarlyLimit = 2
INVARIANTS TypeOK BestSoFar OwnBest EarlyStopKeepsBest StagnatesInTime
PROPERTIES Terminates
CHECK_DEADLOCK FALSE
