SPECIFICATION FairSpec
CONSTANTS
  j1 = j1
  j2 = j2
  j3 = j3
  w1 = w1
  w2 = w2
  d1 = d1
  d2 = d2
  Jobs = {j1}
  Workers = {w1, w2}
  Watchdogs = {d1}
  Lane <- MCDurable
  MaxAttempts = 2
  Slots = 1
  Faults = {"api", "publish", "crash"}
  MaxFaults = 2
  MaxTask = 6
  MaxCopies = 2
  MaxRetries = 0
  MaxRequests = 1
PROPERTIES
  JobSettles
  SlotFreed
CHECK_DEADLOCK FALSE
