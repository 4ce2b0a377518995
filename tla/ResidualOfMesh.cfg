SPECIFICATION FairSpec
CONSTANTS
  Ranks <- MCRanks
  MaxDegree = 2
  Calls <- MCCalls
CHECK_DEADLOCK FALSE
INVARIANT TypeOK
INVARIANT ExactlyOnce
INVARIANT AuxiliaryIsComplete
INVARIANT RanksAgree
INVARIANT BasisIsOfCells
INVARIANT EntriesInPattern
PROPERTY AllReturn
