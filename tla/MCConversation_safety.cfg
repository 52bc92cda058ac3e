CONSTANTS
  Text <- SameOrOther
  Reply <- OneReply
  MAX_ATTEMPTS = 2
  MaxUpdates = 3
  MaxCalls = 2
  MaxThreads = 2
  MaxBatch = 2
  MaxFaults = 2
SPECIFICATION Spec
INVARIANTS RanOnlyIfPressed StoredInOrder RepeatsArePaidFor
PROPERTY WithdrawnNeverRuns
CHECK_DEADLOCK FALSE
