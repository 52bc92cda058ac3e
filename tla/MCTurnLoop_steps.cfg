CONSTANTS
  Op <- AllTools
  NeedsApproval <- Write
  ReplaySafe <- Look
  Delivers <- Send
  Mutates <- Write
  MaxSteps = 3
  MaxToolCalls = 3
  SteeringLimit = 1
  MaxBatch = 1
  MaxMissed = 1
  MaxCrashes = 2
SPECIFICATION FairSpec
INVARIANT SpendingBounded
PROPERTY TurnEnds
CHECK_DEADLOCK FALSE
