CONSTANTS
  None = None Junk = Junk
  Tool <- MCTool Means <- MCMeans Accepts <- MCAccepts Required <- MCRequired
  Asks = {"run"} Deadline <- MCDeadline
  Answers <- MCAnswers Shapes <- MCShapes
  Family = {"calls", "polling", "store", "traces", "models", "graphs", "web", "history", "chat"}
  Chat = {c1, c2}
  MaxUpdates = 4
  MaxLives = 2
  MaxCalls = 4
  MaxHangups = 3
  Run = {r1}
  Kind = {"model", "tool", "step"}
  FlushAt = 3
  MaxBrackets = 2
  MaxAttempts = 2
  MaxFailures = 1
  StartupTimeout = 48
  StartReadyTimeout = 20
  WakeReadyTimeout = 14
  SleepTimeout = 8
  WarmupTimeout = 4
  WarmupRequests = 3
  PollInterval = 2
  HealthTimeout = 5
  Retries = 1
  RedirectHops = 1
  MaxBoots = 2
  Thread = {t1, t2}
  Ceiling = 100
  Chosen = 0
  MaxSwitches = 2
  MaxUses = 3
  MaxOpens = 2
  Url = {u1, u2}
  Public = {p1, p2}
  Private = {q}
  MaxRedirects = 2
  FallbackAgent = TRUE
  TextLimit = 2
  MaxStored = 6
  MaxTogether = 2
  PageChars = 2
  MaxText = 5
  MaxMessages = 5
  OpenAIAudio = {"wav"}
  OtherAudio = {"ogg"}
SPECIFICATION ServicesSpec
INVARIANTS OwnArguments ResultsBoundEffects PolledInOrder SettledUnlessFailed TracesAreTrue HooksFit OnlyRacesDiffer RequestsAreChecked ReadsOnWhole ListIsWhole
CHECK_DEADLOCK FALSE
