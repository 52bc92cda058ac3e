CONSTANTS
  Family = {"answer", "calls", "page"}
  Fragment <- Fragments
  Mark <- Marks
  MaxPieces = 5
  Character <- Characters
  MaxMessage = 12
  MaxCode = 4
  MaxInlineDepth = 2
  MaxTokens = 7
SPECIFICATION ReadersSpec
INVARIANTS ArrivesWhole CallsReadAsWritten
CHECK_DEADLOCK FALSE
