CONSTANTS
  Procs = {p1, p2, p3}
  host = host
  Host <- MCHost
  NoOwner = NoOwner
  NoDir = NoDir
SPECIFICATION FairLockSpec
INVARIANTS MutualExclusion TakeoverOnlyFromDead
PROPERTIES ImplementsMutex CrashedOwnerIsReplaced
CHECK_DEADLOCK FALSE
