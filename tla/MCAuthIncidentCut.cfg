SPECIFICATION FairSpec
CONSTANTS
  r1 = r1
  r2 = r2
  MaxSessions = 1
  MaxTokens = 2
  Contexts <- TwoDevices
  NoHeader = NoHeader
  Threads = {r1, r2}
  Requests = {"login", "refresh", "logout"}
  MaxAborts = 1
CHECK_DEADLOCK FALSE
PROPERTIES
  IncidentEscalated
