SPECIFICATION FairPlansSpec
CHECK_DEADLOCK FALSE
CONSTANTS
  shot = shot
  check = check
  next = next
  cut = cut
  teaser = teaser
  recheck = recheck
  other = other
  proof = proof
  Listed <- ListedSteps
  Kind <- KindOf
  Deps <- DepsOf
  Target <- TargetOf
  Consumes <- ConsumesOf
  Source <- SourceOf
  Reviewed = {shot}
  Modes <- OneByOne
  MaxTries = 2
  MaxDispatches = 3
  MaxNewPerRun = 2
  MaxContents = 2
  MaxRuns = 2
  MaxRefusals = 1
  film = film
  t1 = t1
  t2 = t2
  t3 = t3
  s1 = s1
  s2 = s2
  s3 = s3
  gpu = gpu
  cpu = cpu
  Executions = {film}
  ExecutionOf <- OneExecution
  SegmentOf <- OwnSegment
  Tasks = {t1, t2, t3}
  Parents <- ChainParents
  Shots = {s1, s2, s3}
  ShotOf <- ChainShot
  Routes = {gpu}
  RouteOf <- OneRoute
  Worst <- OneUnit
  FramesOf <- ChainFrames
  Essential = {t1, t2, t3}
  TotalUnits = 4
  CleanupUnits = 1
  MaxFrames = 6
  RouteLimit <- WholeBudget
  MaxRepairRounds = 2
  ForecastRule = FALSE
  MaxAttempts = 2
  MaxInvalidations = 1
  ForecastInputs = {}
  Explored = {"pause", "hold", "revoke"}
INVARIANTS CompletedIsCurrent AskedOnce InputsInStep
PROPERTIES DeliveredIsReviewed RejectedIsReordered ImplementsOrder
