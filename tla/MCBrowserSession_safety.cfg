SPECIFICATION Spec
CONSTANTS
  Element = {button, field}
  Request = {page_itself, tracker}
  Served = {page_itself}
  Public = {}
  MaxCalls = 6
  MaxBehind = 1
  MaxChanges = 1
  MaxAttempts = 2
SYMMETRY Alike
INVARIANTS
  OwnReply
  EveryRequestDecided
  ActsOnShown
CHECK_DEADLOCK FALSE
