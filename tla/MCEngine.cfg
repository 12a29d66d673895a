SPECIFICATION MCSpec
CONSTANTS
  Reader = reader
  Cue = cue
  Test = test
  ProviderVoices = {v1, "none"}
  BREAKER_FIRST = 1
  BREAKER_MAX = 2
  QUOTA_BLOCK = 2
  RETRY_AFTER_MAX = 1
  RetryAfters = {0, 1, 2}
  MAX_ADAPTS = 2
  Length = 6
  Sentences = {0, 2, 4}
  CHARS_PER_SECOND = 2
  Paces = {1, 2, 4}
  ShortAnswers = {1}
  Pages = {1, 3}
  VOICES_MAX_PAGES = 2
  MaxEvents = 2
  Files <- PinnedFiles
  Size = 2
  FIRST_DELAY = 1
  MAX_DELAY = 2
  Batches = 1
  MaxCrashes = 1
  MaxCancels = 1
  Profile = {"a", "b", "c"}
  Address = {"x", "y"}
  ProviderAddress = "x"
  MAX_PROFILES = 2
  Thread = {t1, t2}
  MaxRequests = 2
  MaxEdits = 1
  MaxStarts = 2
  MaxSaveFails = 1
CHECK_DEADLOCK FALSE
INVARIANTS MessageHeard KeptWhole RefusalsSorted FilesWhole PreparationTold EditsKept KeysGoHome
