SPECIFICATION FairSpec
CONSTANTS
  m1 = m1
  m2 = m2
  c1 = c1
  c2 = c2
  Memories = {m1, m2}
  Universal = {m2}
  Collections = {"memories", "small"}
  Default = "memories"
  Cycles = {c1, c2}
  BatchSize = 2
  ChunkSize = 1
  MaxAttempts = 2
  RepairLimit = 1
  Faults = {"qdrant", "crash", "reconcile"}
  MaxFaults = 2
  MaxRows = 4
  MaxWrites = 2
  MaxVersion = 2
  Operations = {"update", "archive", "decay", "supersede", "erase"}
  NightlyDrained = TRUE
INVARIANTS
  ClaimedOnce
  AttemptsRespected
  OnlyDisorderSpoils

  
CHECK_DEADLOCK FALSE
