CONSTANTS
  sei = sei
  owner = owner
  verification = verification
  report = report
  run = run
  engine = engine
  k1 = k1
  k2 = k2
  Jobs <- TheJobs
  Scopes = {run}
  Resources = {engine}
  Capacity <- TheCapacity
  InitialBudgets <- TheBudgets
  BudgetChoices <- NoChoices
  MaxBufferedJobs = 32
  Offered <- TheOffers
  NoJob = NoJob
  Run = run
  TaskOf <- TheTasks
  PlanOrder <- TheOrder
  Reusable <- TheReusable
  Mode <- TheMode
  MaxRetries <- TheRetries
  Keys = {k1, k2}
  Plans <- ThePlans
  MaxRuns = 2
  NoResult = NoResult
  NoState = NoState
SPECIFICATION FairPlanSpec
INVARIANTS EventsAgreeWithPool CompleteMeansComplete ReuseIsSound
PROPERTIES SpentBudgetStartsNothing RunReturns
CHECK_DEADLOCK FALSE
