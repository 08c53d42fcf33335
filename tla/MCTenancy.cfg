SPECIFICATION Spec
CONSTANTS
  Keys = {"k1", "k2"}
  Queries = {"q1", "q2"}
  CallLimit <- MCCallLimit
  UserRate <- MCUserRate
  KeyRate = 2
  TenantRate = 3
  Scripts <- MCScripts
INVARIANTS
  Admission
  
PROPERTIES
  StaysOut
CHECK_DEADLOCK FALSE
