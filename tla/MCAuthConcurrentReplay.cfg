SPECIFICATION Spec
CONSTANTS
  r1 = r1
  r2 = r2
  MaxSessions = 1
  MaxTokens = 3
  Contexts <- OneContext
  NoHeader = NoHeader
  Threads = {r1, r2}
  Requests = {"login", "refresh", "logout"}
  MaxAborts = 0
SYMMETRY AnyThread
CHECK_DEADLOCK FALSE
INVARIANTS
  ReuseKillsSession
