SPECIFICATION Spec
CONSTANTS
  s1 = s1
  s2 = s2
  None = None
  Sessions = {s1, s2}
  RETIRED_TURNS = 1
  SUMMARY_MIN_CHARS = 2
  Minqueue = 2
  Scripts <- MCScripts
  MaxTurn = 2
  MaxCalls = 3
CHECK_DEADLOCK FALSE
INVARIANT ContextFirst
