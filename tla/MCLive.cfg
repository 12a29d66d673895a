SPECIFICATION MCSpec
CONSTANTS
  None = None
  Texts <- Spoken
  Volumes = {100}
  Rates = {200}
  Voices = {"default"}
  MaxItems = 1
  MaxGen = 6
  Controls = {"Pause", "Play"}
  Lookahead = 1
  Streams = {TRUE}
  MaxParts = 1
  MaxCalls = 2
  Shuts = TRUE
  ch1 = ch1
  ch2 = ch2
  Reader = reader
  Cue = cue
  Test = test
  ProviderVoices = {v1}
  BREAKER_FIRST = 1
  BREAKER_MAX = 2
  QUOTA_BLOCK = 2
  RETRY_AFTER_MAX = 1
  RetryAfters = {0, 2}
  MAX_ADAPTS = 2
  Length = 6
  Sentences = {0, 3}
  CHARS_PER_SECOND = 2
  Paces = {2}
  ShortAnswers = {1}
  Pages = {1}
  VOICES_MAX_PAGES = 1
  MaxEvents = 1
CHECK_DEADLOCK FALSE
PROPERTIES WorkEnds Drains Recovers
