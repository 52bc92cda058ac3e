CONSTANTS
  KEEP_TURNS = 2
  KEEP_RESULTS = 1
  KEEP_STEPS = 2
  STUB_MIN = 1
  STUB_SIZE = 1
  MEDIA_SIZE = 1
  MEDIA_BUDGET = 1
  ALLOWANCE = 1
  Said <- ShortWords
  Written <- OneSize
  Returned <- LongOrPicture
  Summaries <- ShortOrWordy
  SUMMARIZE_AFTER = 5
  BUDGET = 5
  WINDOW = 6
  ERROR = 1
  MaxMessages = 8
  MaxCalls = 2
  MaxBatch = 2
  MaxCrashes = 1
  MaxLapses = 1
  MaxCompacts = 1
SPECIFICATION Spec
INVARIANTS FoldsAccounted NothingIsLost ProviderAccepts NewestStays
CHECK_DEADLOCK FALSE
