SPECIFICATION Spec
CONSTANTS
  LastPoint = 16
  HaltonNumbers = {0, 1}
  SamplePoints <- MCSamplePoints
  MaxSnapshots = 6
  None = None
CHECK_DEADLOCK FALSE
INVARIANT TypeOK
INVARIANT ErrorsOfCurrentBasis
INVARIANT PointsAreDistinct
