CONSTANTS
  Slots <- MCSlots
  Agents = {"a"}
  Claims = {"c", "d"}
  Values = {1, 2}
  Categories = {"fact", "goal"}
  Scenarios <- MCScenarios
  OtpLimit = 2
  SendLimit = 1
  MaxRetries = 2
  MaxOpen = 3
  MaxEvents = 2
SPECIFICATION PassportSpec
INVARIANTS
  
  ClaimsKept
  
