SPECIFICATION Spec
CONSTANTS
  Popsize = 4
  MinInstrs = 2
  MaxInstrs = 3
  InitInstrs = {2, 3}
  NRegisters = 2
  InitialFitness = TRUE
  MaxBreedings = 2
  Header <- MCHeader
  Footer <- MCFooter
  NoArg <- MCNoArg
  RegArg <- MCRegArg
  SixByte <- MCSixByte
  Addresses <- MCAddresses
INVARIANTS TypeOK Executable Admitted NoBoom
PROPERTIES Conservation
CONSTRAINT FewFounders
CHECK_DEADLOCK FALSE
