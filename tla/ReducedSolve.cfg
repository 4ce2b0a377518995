SPECIFICATION FairSpec
CONSTANTS
  s1 = s1
  s2 = s2
  s3 = s3
  n1 = n1
  Solutions = {s1, s2, s3}
  Nodes = {n1}
  Duals = {}
  Invalid <- MCInvalid
  None = None
  maxline = 2
  MaxIterations = 2
  Norms <- MCNorms
  Tolerance = 1
  Unit = 3
  NaN = NaN
CHECK_DEADLOCK FALSE
INVARIANTS ResidualIsOfSolution
PROPERTIES SearchBoundsResidual Terminates
