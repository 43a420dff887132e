CONSTANTS
  SubWGSize = 1
  NumLdsStages = 3
  FilterUnroll = 2
  NumLoop = 12
  IssueCnt <- MixedIssue
SPECIFICATION FairSpec
PROPERTIES ImplementsContraction Termination
