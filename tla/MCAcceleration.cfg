CONSTANTS
  a = a
  b = b
  c = c
  d = d
  s = s
  e1 = e1
  e2 = e2
  r = r
  p1 = p1
  p2 = p2
  p3 = p3
  Tasks <- TheTasks
  TaskList <- TheList
  Task <- TheTask
  Resources = {r}
  Classes = {"command", "agent", "synthesis"}
  MaxParallel = 2
  Budgets <- TheBudgets
  Calls <- TheCalls
  Procs = {p1, p2, p3}
  Entries = {e1, e2}
  ProcOf <- TheProcs
  EntryOf <- TheEntries
  Free = Free
  Unowned = Unowned
  Unwritable <- TheUnwritable
  Here = p1
  Others <- TheOthers
SPECIFICATION FairAccelerationSpec
INVARIANTS ComputedOnce WorkIsApart BlockedHasCause
PROPERTIES PoolReturns
CHECK_DEADLOCK FALSE
