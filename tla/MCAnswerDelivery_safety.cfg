SPECIFICATION Spec
CONSTANTS
  short = short huge = huge None = None
  Body <- MCBody Long <- MCLong PiecesOf <- MCPieces
  Failures = {"refused", "lost"}
  Retries = 1 SteeringLimit = 1 MaxCompletions = 3 MaxFaults = 2 MaxDeaths = 1
INVARIANTS DeliveredWhole NothingHalfLeft
PROPERTY AnswersStay
