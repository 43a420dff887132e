CONSTANTS
  SubWGSize = 2
  NumLdsStages = 2
  FilterUnroll = 1
  NumLoop = 6
  IssueCnt <- UnitIssue
SPECIFICATION Spec
INVARIANTS TypeOK NoLdsRace WgSyncAligned QuiescentAtExit
PROPERTIES CompletesForAll ImplementsContraction
