SPECIFICATION MCSpec
CONSTANTS
  Clients = {client1}
  Hotkeys = keys
  Levels = {0, 1}
  MaxCalls = 3
  MaxJobs = 1
  MaxRequests = 2
  Requests = {}
  Conns = {}
  IdleExit = 2
  MaxPresses = 0
  Lines = {line}
  Posts = {post}
  Talks = {t1}
  OwnNames = {u1}
  GivenNames = {n1, n2}
  Offered = {"channels", "agent", "system"}
  Foreign = {"other"}
  Summarizer = FALSE
  Styles = {s1, s2}
  Texts = {x1}
  NoName = none
  NoOne = nobody
  MaxAsked = 6
  Chosen = {"Refused"}
CHECK_DEADLOCK FALSE
INVARIANT NotDropped
