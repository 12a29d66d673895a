SPECIFICATION MCSpec
CONSTANTS
  Clients = {client1, client2}
  Hotkeys = keys
  Levels = {0, 1}
  MaxCalls = 3
  MaxJobs = 1
  MaxRequests = 2
  Requests = {req1, req2}
  Conns = {conn1}
  IdleExit = 2
  MaxPresses = 2
  Lines = {line}
  Posts = {post}
  Talks = {t1}
  OwnNames = {u1}
  GivenNames = {n1, n2}
  Offered = {"channels", "agent", "system"}
  Foreign = {"other"}
  Summarizer = FALSE
  Styles = {s1, s2}
  Texts = {x1}
  NoName = none
  NoOne = nobody
  MaxAsked = 6
  Chosen = {"Agent", "Core", "Locks", "Life", "Hello", "Names", "Sums"}
CHECK_DEADLOCK FALSE
INVARIANTS NotDropped HoldFollows EndsClean Promised InForce
PROPERTIES CallsReturn IdleEnds
