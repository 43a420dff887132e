CONSTANTS
  M0 = 2
  N0 = 2
  M01 = 1
  N01 = 1
  GridDim = 4
  NumGroup = 2
SPECIFICATION FairSpec
INVARIANTS AllTilesWritten
