CONSTANTS
  SubWGSize = 2
  NumLdsStages = 2
  FilterUnroll = 1
  NumLoop = 4
  IssueCnt <- UnitIssue
  NumTiles = 4
  BlockId = 1
  GridDim = 2
  EpiLoop = 4
  OperandIssue = 2
SPECIFICATION PFairSpec
INVARIANTS PTypeOK LdsHandover NoRegionRace SlotsAgree SumIsOfTile OutputInOrder OperandsOfPart
PROPERTIES KernelCompletes
