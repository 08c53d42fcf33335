CONSTANTS
  Processes = {"a", "b"}
  Calls = {1, 2}
  Services = {"x", "y"}
  Plans <- MCPlans
  Threshold = 3
  Window = 1
  Recovery = 2
  StoreOff = 1
  Limit = 1
  Timeout = 1
  SlotTtl = 1
  Slack = 1
  MaxRetries = 2
SPECIFICATION Spec
PROPERTIES
  SlotsHold
  CallsEnd
  Recovers
