SPECIFICATION Spec
CONSTANTS
  Files <- MCFiles
  Options <- MCOptions
  Values <- MCValues
  Outcomes = {0, 1}
  CHUNKSIZE = 2
  MAXINPUTS = 4
  MaxOverrun = 1
  Maxtrials = 2
INVARIANTS TypeOK TidyFilesLoad OnlyLoaded Bootstrap SameError
CHECK_DEADLOCK FALSE
