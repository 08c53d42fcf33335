SPECIFICATION QueueFairSpec
CONSTANTS
  t1 = t1
  t2 = t2
  j1 = j1
  j2 = j2
  j3 = j3
  h1 = h1
  h2 = h2
  free = free
  starter = starter
  freeQ = freeQ
  starterQ = starterQ
  Tenants = {t1, t2}
  Changers = {t1}
  JobIds <- MCJobs
  Owner <- MCOwner
  Handlers = {h1}
  Plans <- MCPlans
  Queues <- MCQueues
  PLAN_QUEUE_MAP <- MCQueueMap
  PLAN_QUEUE_LIMITS <- MCLimits
  NoTenant = NoTenant
  NoPlan = NoPlan
  NoQueue = NoQueue
INVARIANTS
  CounterNeverOvercounts
  BreakdownMatchesJobs
  DepthWithinLimit
PROPERTIES
  PlanCacheConverges
