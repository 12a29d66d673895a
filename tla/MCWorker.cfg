SPECIFICATION MCSpec
CONSTANTS
  None = None
  Texts <- AllTexts
  Volumes = {0, 60}
  Rates = {200}
  Voices = {"default"}
  MaxItems = 3
  MaxGen = 6
  Controls = {"Pause", "Play", "Previous", "Skip", "Stop", "Mute", "Unmute", "NextLine"}
  Lookahead = 1
  Streams = {TRUE, FALSE}
  MaxParts = 2
  MaxCalls = 4
  Shuts = FALSE
  Setters = {setter1, setter2}
  MaxHappens = 4
  Changes <- Asked
  Pressed = {"up", "x"}
  QUEUE = 2
  MaxChanges = 3
  MaxCues = 2
INVARIANTS NoLostPlay AudioInStep ChordsFollow ClientCurrent
CHECK_DEADLOCK FALSE
