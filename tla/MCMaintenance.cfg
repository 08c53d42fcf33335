SPECIFICATION Spec
CONSTANTS
  Ids = {1, 2, 3}
  BatchSize = 2
  Scripts <- MCScripts
  MaxFaults = 1
INVARIANTS
  
  
  
  NewestWins
PROPERTIES
  WinnerKept
CHECK_DEADLOCK FALSE
