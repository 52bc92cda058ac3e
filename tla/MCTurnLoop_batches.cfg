CONSTANTS
  Op <- AllTools
  NeedsApproval <- Write
  ReplaySafe <- Look
  Delivers <- Send
  Mutates <- Write
  MaxSteps = 2
  MaxToolCalls = 3
  SteeringLimit = 1
  MaxBatch = 2
  MaxMissed = 1
  MaxCrashes = 1
SPECIFICATION Spec
INVARIANTS EveryCallAnswered ConsentBeforeRunning NothingRunsAgain StoredOnce
CHECK_DEADLOCK FALSE
