CONSTANTS
  a = a
  b = b
  c = c
  d = d
  s1 = s1
  s2 = s2
  r = r
  Jobs = {a, b, c, d}
  Scopes = {s1, s2}
  Resources = {r}
  NoJob = NoJob
  BudgetChoices <- MCChoices
  MaxBufferedJobs = 3
  Capacity <- MCCapacity
  InitialBudgets <- MCBudgets
  Offered <- MCOffered
SPECIFICATION FairSpec
INVARIANTS DependenciesFirst HaltHasCause ExclusiveAlone CapacityKept
PROPERTIES RefillsFreeSlots ClosedScopeStartsNothing GroundedJobsSettle
CHECK_DEADLOCK FALSE
