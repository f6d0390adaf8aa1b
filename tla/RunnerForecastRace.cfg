SPECIFICATION RunnerSpec
CONSTANTS
  film = film
  a = a
  b = b
  s1 = s1
  s2 = s2
  gpu = gpu
  Executions = {film}
  Execution = film
  ExecutionOf <- OneExecution
  SegmentOf <- OwnSegment
  Tasks = {a, b}
  Ordinal <- Order12
  Parents <- TwinParents
  Shots = {s1, s2}
  ShotOf <- ChainShot
  Routes = {gpu}
  RouteOf <- OneRoute
  Worst <- TwoUnits
  Receipt <- TwoUnits
  FramesOf <- MixedFrames
  Essential = {a, b}
  TotalUnits = 5
  CleanupUnits = 1
  MaxFrames = 6
  RouteLimit <- WholeBudget
  MaxRepairRounds = 1
  ForecastRule = TRUE
  MaxAttempts = 2
  MaxInvalidations = 1
  ForecastInputs <- AnyForecast
  Explored <- AllExplored
  Gated = FALSE
  MaxEvaluations = 2
  MaxReplacements = 1
  MaxStops = 1
  Disturbances = {"invalidate"}
INVARIANTS
  ForecastIsBound
