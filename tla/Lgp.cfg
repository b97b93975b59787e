SPECIFICATION Spec
CONSTANTS
  Popsize = 4
  Ndemes = 1
  MigrationPercent = 30
  Codelen = 30
  InitialErrors = {2}
  Maxtrials = 2
  MaxBreedings = 8
  Stagnation = 4
  Worst = 2
  Huge = 1
  Validating = TRUE
  EarlyLimit = 1
  MAXPLOTSIZE = 2
INVARIANTS BestSurvives PlotFresh
PROPERTIES BreedsLikeDemes JudgesLikeTrial AveragesExist
CHECK_DEADLOCK FALSE
