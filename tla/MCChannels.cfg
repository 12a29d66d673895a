CONSTANTS
  None = None
  ch1 = ch1
  ch2 = ch2
  Ids = {ch1, ch2}
  tab1 = tab1
  Tabs = {tab1}
  Announces = TRUE
  Unnamed = FALSE
  Chunks <- TextChunks
  MaxEntries = 3
  MaxItems = 6
  MaxCalls = 6
SPECIFICATION MCSpec
INVARIANTS RouterInv
PROPERTIES FloorKept CutReadAgain StoredQuiet
CHECK_DEADLOCK FALSE
