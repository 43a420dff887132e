CONSTANTS
  SubWGSize = 1
  NumLdsStages = 2
  FilterUnroll = 1
  NumLoop = 2
  IssueCnt <- UnitIssue
SPECIFICATION FairSpec
PROPERTIES ImplementsContraction
