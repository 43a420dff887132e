CONSTANTS
  Compute = 2
  Comm = 1
  Total = 3
  Slots = 2
  MaxEpoch = 9
  ModeOf <- AllModes
SPECIFICATION FairSpec
INVARIANTS TypeOK OutputCorrect NoticeMeansVisible OneOwner NeverAborts
PROPERTIES AllEpochs StableWhileReduced
