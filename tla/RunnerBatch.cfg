SPECIFICATION FairRunnerSpec
CONSTANTS
  film = film
  a = a
  b = b
  s1 = s1
  s2 = s2
  gpu = gpu
  Executions = {film}
  Execution = film
  ExecutionOf <- OneExecution
  SegmentOf <- OwnSegment
  Tasks = {a, b}
  Ordinal <- Order12
  Parents <- TwinParents
  Shots = {s1, s2}
  ShotOf <- TwinShot
  Routes = {gpu}
  RouteOf <- OneRoute
  Worst <- OneUnit
  Receipt <- OneUnit
  FramesOf <- OneFrame
  Essential = {a, b}
  TotalUnits = 7
  CleanupUnits = 1
  MaxFrames = 6
  RouteLimit <- WholeBudget
  MaxRepairRounds = 1
  ForecastRule = FALSE
  MaxAttempts = 2
  MaxInvalidations = 1
  ForecastInputs <- AnyForecast
  Explored <- AllExplored
  Gated = TRUE
  MaxEvaluations = 1
  MaxReplacements = 1
  MaxStops = 1
  Disturbances = {"invalidate"}
PROPERTIES
  UsesStore SweepIsCurrent ProducedIsJudged
INVARIANTS
  PublishedIsJudged   RunningIsTracked
