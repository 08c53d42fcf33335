SPECIFICATION Spec
CONSTANTS
  Events <- MCEvents
  Ev <- MCEv
  Contents = {"x", "y"}
  Profiles = {"p", "q"}
  Writers = {"w", "v"}
  Legacy = {7}
  MaxEvents = 3
  MaxManual = 1
INVARIANTS
  
  Accounted
PROPERTIES
  ChangesAsDecided
CHECK_DEADLOCK FALSE
