SPECIFICATION Spec
CONSTANTS
  Jobs = {1, 2}
  Workers = {w1, w2}
  Values = {"a", "b"}
  Replies <- MCReplies
  Policy <- MCPolicy
  Started <- MCStarted
  PlansFor <- MCPlans
  Copies <- MCCopies
  MaxContext = 3
  MaxPage = 8
  MaxVersion = 3
  MaxEvents = 1
SYMMETRY WorkerSymmetry
INVARIANTS
  NothingUnsettled
  LaneKept
PROPERTIES
  AppliedAsDecided
CHECK_DEADLOCK FALSE
