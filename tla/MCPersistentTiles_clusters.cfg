CONSTANTS
  M0 = 4
  N0 = 6
  M01 = 2
  N01 = 3
  GridDim = 5
  NumGroup = 1
SPECIFICATION Spec
INVARIANTS TypeOK NoTileTwice AllTilesWritten
