SPECIFICATION Spec
CONSTANTS
  TestStop = 5
  TrainStart = 0
  TrainStop = 2
  ValidateStart = 2
  ValidateStop = 4
  Outputs <- MCOutputs
  Junk = {3}
  Maxtrials = 3
INVARIANTS TypeOK IndicatorFresh Diverse
PROPERTIES OnlyGrows NeverWorse
CHECK_DEADLOCK FALSE
