CONSTANTS
  SubWGSize = 2
  NumLdsStages = 3
  IssueCnt <- MixedIssue
  MaxRounds = 3
  NumTiles = 4
  BlockId = 1
  GridDim = 2
  EpiLoop = 2
SPECIFICATION FairSpec
INVARIANTS TypeOK NoLdsRace BarriersAligned LdsHandover SumIsOfTile
PROPERTIES KernelCompletes
