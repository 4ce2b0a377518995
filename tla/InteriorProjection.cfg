SPECIFICATION Spec
CONSTANTS
  Ranks <- MCRanks
  MaxDegree = 2
  Calls <- InteriorProjectionCalls
CHECK_DEADLOCK FALSE
INVARIANT ProjectionIsOfNeighbor
