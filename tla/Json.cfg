CONSTANTS
  Tasks <- MCTasks
  Parents <- MCParents
  ShotOf <- MCShotOf
  Generated <- MCGenerated
  Worst <- MCWorst
  Bills <- MCBills
  Frames <- MCFrames
  Optional = {}
  TotalUnits = 10
  CleanupUnits = 2
  RouteLimit = 7
  MaxFrames = 4
  ReforecastPercent = 40
  MaxRounds = 2
  MaxAttempts = 2
  MaxEpoch = 3
  Cases <- MCCases
  Targets = {d1, d2}
  MaxCutovers = 2
SPECIFICATION MigrationSpec
INVARIANTS RequestsInStep OneAuthority
PROPERTIES LedgerImplementsBudget SweptIsAccepted
CHECK_DEADLOCK FALSE
SYMMETRY TargetsAlike
