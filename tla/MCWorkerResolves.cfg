SPECIFICATION FairSpec
CONSTANTS
  a1 = a1
  a2 = a2
  p1 = p1
  p2 = p2
  w1 = w1
  w2 = w2
  Alerts = {a1, a2}
  DelaySeconds <- MCDelaySeconds
  WorkerNames = {w1}
  Unlocked = Unlocked
  NoAlert = NoAlert
  MaxAttempts = 2
  BatchSize = 2
  LockTTL = 60
  StartTime = 43200
  ClockSteps = {}
  Horizon = 43200
  MaxId = 3
  Workers = {p1}
  NameOf <- OneWorker
  Supervised = {p1}
  AlertType <- LoginAndReuse
  MaxFaults = 1
  MaxStops = 1
PROPERTIES
  EventuallyResolved
