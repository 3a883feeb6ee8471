SPECIFICATION FairSpec
CONSTANTS
  c1 = c1
  c2 = c2
  Callers = {c1, c2}
  MaxFaults = 1
INVARIANTS
  SchemaTypeOK
  ReadyMeansComplete
  ClaimedCanFail
PROPERTIES
  LosesOnce
  EveryoneStarts
