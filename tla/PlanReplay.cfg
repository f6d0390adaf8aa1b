SPECIFICATION PlanSpec
CHECK_DEADLOCK FALSE
CONSTANTS
  shot = shot
  check = check
  next = next
  cut = cut
  teaser = teaser
  recheck = recheck
  other = other
  proof = proof
  Listed <- ListedSteps
  Kind <- KindOf
  Deps <- DepsOf
  Target <- TargetOf
  Consumes <- ConsumesOf
  Source <- SourceOf
  Reviewed = {shot}
  Modes <- TwoShots
  MaxTries = 2
  MaxDispatches = 4
  MaxNewPerRun = 2
  MaxContents = 2
  MaxRuns = 2
  MaxRefusals = 1
INVARIANTS NoBlindReplay
