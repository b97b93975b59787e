SPECIFICATION Spec
CONSTANTS
  Popsize = 4
  MinInstrs = 2
  MaxInstrs = 3
  InitInstrs = {2, 3}
  NRegisters = 2
  InitialFitness = TRUE
  MaxBreedings = 1
  Header <- MCHeader
  Footer <- MCFooter
  NoArg <- MCNoArg
  RegArg <- MCRegArg
  SixByte <- MCSixByte
  Addresses <- MCAddresses
PROPERTIES ImplementsPrograms
CONSTRAINT FewFounders
CHECK_DEADLOCK FALSE
