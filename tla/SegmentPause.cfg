SPECIFICATION FairSegmentSpec
CONSTANTS
  Requests <- MCRequests
  WorkOf <- MCWorkOf
  ClaimOf <- MCClaimOf
  MaxSubmissions = 3
  MaxSeconds = 5
  PolicySeconds = 2
  PlanSeconds = 4
  MaxPerSegment = 2
  MaxTotal = 3
  MaxCancels = 1
  Cases <- PauseCase
PROPERTIES InflightIsCheckpointed
