SPECIFICATION FairSpec
CONSTANTS
  Update <- MessagesAndStop
  Conversation <- OneConversation
  KeyOf <- SameKey
  Alone <- Stop
  LeaseTerm = 2
  Worker = {w1, w2}
  MAX_ATTEMPTS = 2
  DrainTerm = 1
  WorkerTimeout = 3
  TurnLimit = 1
  MaxLosses = 1
  MaxFaults = 0
PROPERTIES
  EveryUpdateSettles
CHECK_DEADLOCK FALSE
