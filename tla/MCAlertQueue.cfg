SPECIFICATION MetricsSpec
CONSTANTS
  a1 = a1
  a2 = a2
  w1 = w1
  w2 = w2
  Alerts = {a1, a2}
  DelaySeconds <- MCDelaySeconds
  WorkerNames = {w1, w2}
  Unlocked = Unlocked
  NoAlert = NoAlert
  MaxAttempts = 2
  BatchSize = 1
  LockTTL = 60
  StartTime = 86390
  ClockSteps <- MCClockSteps
  Horizon = 86410
  MaxId = 4
SYMMETRY AnyWorker
INVARIANTS
  QueueTypeOK
  NothingLost
  OnePlace
  LeaseDiscipline
  RetryBudget
  UnresolvedAreReported
