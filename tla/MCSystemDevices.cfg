CONSTANTS
  None = None
  app1 = app1
  app2 = app2
  dev1 = dev1
  dev2 = dev2
  tab1 = tab1
  tab2 = tab2
  web = web
  Chosen = {"Duck"}
  Listed <- InOrder
  AppOf <- OneApp
  Pids = {1}
  UserLevels = {60, 100}
  DuckLevels = {30}
  MaxEvents = 2
  MaxOps = 5
  Tabs <- BothTabs
  AppId <- Browser
  MaxAge = 1
  MaxTicks = 2
  MaxMedia = 2
  MaxPauses = 4
  Users = {user1, user2}
  Levels = {20, 30}
  MaxSays = 3
  MaxSets = 3
  MAX_QUEUE = 3
  PREFS_CAP = 2
  Channel = {1, 2, 3}
  Offers <- TwoEngines
  EditedKeys = {"minqueue", "read_mode", "voice", "future", "summaries"}
  MaxSettings = 2
  MaxEdits = 2
  MaxStarts = 3
  MaxFails = 1
  MaxClock = 3
  Pid = {1, 2, 3}
  Port = {10, 11}
  Hook = {hook1}
  MaxCrashes = 1
  MaxCommands = 1
SPECIFICATION MCSpec
PROPERTIES RightLevel
CHECK_DEADLOCK FALSE
