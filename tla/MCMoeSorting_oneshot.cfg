CONSTANTS
  Inputs <- FewTokens
  Topk = 2
  UnitSize = 4
  SkipExpertsWithZeroTokens = TRUE
  BufWords = 34
  Row = 4
  NumWaves = 2
  GridSize = 3
  MeshChunk = 8
  Pack = 4
  SmallTokens = 20
  LdsWords = 360
  OneshotTokens = 40
  P23Experts = 5
  NumSorts = 1
SPECIFICATION Spec
INVARIANT SortedOnExit
