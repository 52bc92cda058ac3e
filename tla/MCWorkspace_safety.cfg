SPECIFICATION Spec
CONSTANTS
  Worker = {w1, w2} Runner = {r1}
  File = {notes, mode} Marker = mode None = None
  MaxWrites = 2 MaxTurns = 2 MaxDeaths = 1
INVARIANTS OneFilesystem EarlierWorkSeen ModeIsRecent
SYMMETRY Alike
CHECK_DEADLOCK FALSE
