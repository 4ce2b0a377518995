\* output and restart files, crashes at any point, restarts from the latest files
SPECIFICATION FairSpec
CONSTANTS
  FinalTime = 5
  Horizon <- MCHorizon
  StepFunctions <- MCStepFunctions
  Options <- MCOptions
  MaxCrashes = 2
  LatestOnly = TRUE
  None = None
  Torn = Torn
INVARIANTS
  TypeOK
  MemoryIsConsistent
  RestartSetComplete
  EndsExactly
  ExactFixedTimesOutput
  IntervalsOutput
PROPERTIES
  MarchesAsPromised
  RunsEnd
CHECK_DEADLOCK FALSE
