SPECIFICATION Spec
CONSTANTS
  Ranks <- MCRanks
  MaxDegree = 2
  Calls <- NeighborMappingCalls
CHECK_DEADLOCK FALSE
INVARIANT MappingIsOfCells
