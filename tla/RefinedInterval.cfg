SPECIFICATION FairSpec
CONSTANTS
  Ranks <- MCRanks
  MaxDegree = 2
  Calls <- RefinedIntervalCalls
CHECK_DEADLOCK FALSE
INVARIANT ExactlyOnce
