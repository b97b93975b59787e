SPECIFICATION FairSpec
CONSTANTS
  Popsize = 9
  Ndemes = 2
  MigrationPercent = 50
  Errors = {1, 2}
  Codelens = {30}
  MaxBreedings = 10
INVARIANTS TypeOK
PROPERTIES Elitism RingMigration IntraDeme Completes
CHECK_DEADLOCK FALSE
