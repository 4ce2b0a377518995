SPECIFICATION FairSpec
CONSTANTS
  Ranks <- MCRanks
  MaxDegree = 2
  Calls <- DissipationCalls
CHECK_DEADLOCK FALSE
PROPERTY AllReturn
