SPECIFICATION Spec
CONSTANTS
  j1 = j1
  j2 = j2
  j3 = j3
  w1 = w1
  w2 = w2
  d1 = d1
  d2 = d2
  Jobs = {j1, j2, j3}
  Workers = {w1, w2}
  Watchdogs = {d1}
  Lane <- MCLanes
  MaxAttempts = 2
  Slots = 1
  Faults = {"api", "publish", "retry", "requeue", "crash", "timeout", "watchdog", "db", "redis"}
  MaxFaults = 1
  MaxTask = 4
  MaxCopies = 2
  MaxRetries = 1
  MaxRequests = 1
SYMMETRY MCSymmetry
INVARIANTS
  AtMostOneRunner
  RunsBounded
  NoStrandedJob
PROPERTIES
  TerminalIsFinal
CHECK_DEADLOCK FALSE
