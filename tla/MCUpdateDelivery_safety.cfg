SPECIFICATION Spec
CONSTANTS
  Update <- Messages
  Conversation <- OneConversation
  KeyOf <- SameKey
  Alone <- NoStop
  LeaseTerm = 3
  Worker = {w1, w2}
  MAX_ATTEMPTS = 2
  DrainTerm = 3
  WorkerTimeout = 4
  TurnLimit = 4
  MaxLosses = 1
  MaxFaults = 2
SYMMETRY Symmetry
INVARIANTS
  LeasesAreExclusive
  HandlerRunsBounded
PROPERTIES
  LeaseIsRespected
  ServedInOrder
CHECK_DEADLOCK FALSE
