SPECIFICATION SpendingSpec
CHECK_DEADLOCK FALSE
CONSTANTS
  film = film
  t1 = t1
  t2 = t2
  t3 = t3
  s1 = s1
  s2 = s2
  s3 = s3
  gpu = gpu
  cpu = cpu
  Executions = {film}
  ExecutionOf <- OneExecution
  SegmentOf <- OwnSegment
  Tasks = {t1, t2}
  Parents <- MoneyParents
  Shots = {s1, s2}
  ShotOf <- MoneyShot
  Routes = {gpu, cpu}
  RouteOf <- MoneyRoute
  Worst <- MoneyWorst
  FramesOf <- MoneyFrames
  Essential = {t2}
  TotalUnits = 5
  CleanupUnits = 1
  MaxFrames = 2
  RouteLimit <- MoneyLimit
  MaxRepairRounds = 3
  ForecastRule = TRUE
  MaxAttempts = 2
  MaxInvalidations = 1
  ForecastInputs = {1}
  Explored = {"bill", "lapse"}
  a = a
  b = b
  c = c
  w = w
  big = big
  small = small
  svc = svc
  aux = aux
  m1 = m1
  m2 = m2
  TicketIds = {a, b, w, c}
  Ticket <- TicketOf
  DeviceOrder <- Preferred
  Vram <- Megabytes
  Total <- Megabytes
  Foreign <- Held
  Slots <- TwoOne
  MaxBypasses = 1
  MaxQueued = 2
  MaxResidentModels = 2
  MaxLease = 1
  MaxNow = 1
INVARIANTS
  LedgerBalanced
  Solvent
  ReservationsFit
  TasksAreReserved
PROPERTIES
  ImplementsBudget
  LapsedDeviceStaysClosed
  OvertakingIsCounted
