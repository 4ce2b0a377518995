SPECIFICATION Spec
CONSTANTS
  LastPoint = 16
  HaltonNumbers = {0}
  SamplePoints <- MCSamplePoints
  MaxSnapshots = 5
  None = None
CHECK_DEADLOCK FALSE
INVARIANT NeighborsExist
