SPECIFICATION MachineSpec
CHECK_DEADLOCK FALSE
SYMMETRY Alike
CONSTANTS
  film = film
  t1 = t1
  t2 = t2
  t3 = t3
  s1 = s1
  s2 = s2
  s3 = s3
  gpu = gpu
  cpu = cpu
  Executions = {film}
  ExecutionOf <- OneExecution
  SegmentOf <- OwnSegment
  Tasks = {t1, t2}
  Parents <- RepairParents
  Shots = {s1}
  ShotOf <- RepairShot
  Routes = {gpu}
  RouteOf <- OneRoute
  Worst <- OneUnit
  FramesOf <- OneFrame
  Essential = {t1, t2}
  TotalUnits = 7
  CleanupUnits = 1
  MaxFrames = 6
  RouteLimit <- WholeBudget
  MaxRepairRounds = 2
  ForecastRule = FALSE
  MaxAttempts = 3
  MaxInvalidations = 1
  ForecastInputs = {}
  Explored = {"lease"}
  diskA = diskA
  diskB = diskB
  ann = ann
  bob = bob
  Disks = {diskA, diskB}
  SequenceWorkers = {ann, bob}
  Length = 2
  MaxFramesMade = 3
  MaxMishaps = 1
  Timelines <- MCAllTimelines
  MaxRevisions = 1
  MaxEdits = 1
  MaxAssemblyDeaths = 1
  Pids = {1, 2, 3}
  Root = 1
  Hosts <- MCAllHosts
  ShotIds <- MCShotIds
  ExecutorsUsed = {"kaggle", "api", "command"}
  Runners = {1, 2}
  MaxJobRuns = 3
  MaxInterference = 1
  Chunks = 2
  MaxVersions = 2
  MaxChunkMishaps = 2
INVARIANTS
  TypeOK
  RowsFollowRequests
  LiveInCurrentRound
  FilmIsAsPlanned
  FilmIsOneChain
  AssembledIsOneVersion
PROPERTIES
  StoppedTreeIsGone
  ReusedIsCurrent
