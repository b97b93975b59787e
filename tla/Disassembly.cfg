SPECIFICATION FairSpec
CONSTANTS
  Images <- MCImages
  Page = 8
  Tails <- MCTails
  Beyond <- MCBeyond
  Base = 0
  Offsets <- MCOffsets
  Lengths = {2, 5, 40}
  MaxRequests = 2
INVARIANTS TypeOK InOrder RangeTiles StaysInside JumpsFollowed
PROPERTIES Finishes
CHECK_DEADLOCK FALSE
