SPECIFICATION Spec
CONSTANTS
  Cells <- MCCells
  MaxDegree = 2
  AdaptationParameters <- MCParameters
  MaxLevel = 1
  MaxFlagged = 1
  None = None
CHECK_DEADLOCK FALSE
INVARIANT DegreesExist
