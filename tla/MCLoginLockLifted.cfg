SPECIFICATION Spec
CONSTANTS
  r1 = r1
  r2 = r2
  ip = ip
  Threads = {r1, r2}
  Addresses = {}
  NoAddress = NoAddress
  RateMax = 2
  Window = 2
  MaxAttemptsBeforeLock = 2
  BaseLock = 1
  MaxLock = 2
  MaxRequests = 3
  MaxClock = 2
SYMMETRY AnyThread
PROPERTIES
  LockStands
