SPECIFICATION FairSpec
CONSTANTS
  r1 = r1
  r2 = r2
  MaxSessions = 2
  MaxTokens = 2
  Contexts <- TwoDevices
  NoHeader = NoHeader
  Threads = {r1, r2}
  Requests = {"login", "refresh"}
  MaxAborts = 0
CHECK_DEADLOCK FALSE
INVARIANTS
  LiveSessionHasToken
  IncidentsInHand
PROPERTIES
  IncidentEscalated
  ImplementsSessionLife
