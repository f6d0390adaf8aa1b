SPECIFICATION FairRemoteSpec
CONSTANTS
  Requests <- MCRequests
  WorkOf <- MCWorkOf
  ClaimOf <- MCClaimOf
  MaxSubmissions = 3
  MaxSeconds = 5
  PolicySeconds = 2
  PlanSeconds = 4
  MaxPerSegment = 2
  MaxTotal = 3
  MaxCancels = 1
  Cases <- MCAllCases
  Jobs <- MCJobs
  MaxDeaths = 1
  MaxRuns = 2
  Bundles = {"first", "second"}
  MaxLaneDeaths = 1
  MaxReruns = 1
  ApiRequests = {"p", "q"}
  MaxApiDeaths = 1
  MaxRechecks = 1
INVARIANTS
  OneLiveJob
  SpendIsRecorded
  DevicesNotOvercommitted
  CollectedIsWhole
  AcceptedRanOnce
  DoubtIsKept
PROPERTIES
  LaunchedIsSettled
CHECK_DEADLOCK FALSE
