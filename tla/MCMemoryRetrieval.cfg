CONSTANTS
  Processes = {1, 2}
  MemoryIds = {1, 2, 3}
  Limit = 3
  PageSize = 1
  Scripts <- MCScripts
SPECIFICATION RetrievalSpec
INVARIANTS
  CurrentWhenRead

  
  
CHECK_DEADLOCK FALSE
