\* steady_state with the implicit solver, from its call to its return
SPECIFICATION FairSpec
CONSTANTS
  w1 = w1
  w2 = w2
  w3 = w3
  n1 = n1
  Solutions = {w1, w2, w3}
  Nodes = {n1}
  Duals = {}
  None = None
  NaN = NaN
  Invalid <- MCInvalid
  MaxLine = 2
  MaxIterations = 3
  CFLFloor <- MCFloor
  InverseCFL <- MCInverseCFL
  Norms <- MCNorms
  Unit = 4
  InverseTolerance = 2
  DivergedNorm = 8
  OnesNorm = 4
INVARIANTS
  TypeOK
  SystemHasResidual
  ConvergedReturn
  ReturnsUsableSolution
  ReturnsSteadyState
PROPERTIES
  SearchBoundsResidual
  Terminates
CHECK_DEADLOCK FALSE
