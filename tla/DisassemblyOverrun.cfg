SPECIFICATION Spec
CONSTANTS
  Images <- MCImages
  Page = 8
  Tails <- MCTails
  Beyond <- MCBeyond
  Base = 0
  Offsets <- MCOffsets
  Lengths = {2, 5, 40}
  MaxRequests = 1
INVARIANTS InsideImage
CHECK_DEADLOCK FALSE
