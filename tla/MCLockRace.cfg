CONSTANTS
  Procs = {p1, p2, p3}
  host = host
  Host <- MCHost
  NoOwner = NoOwner
  NoDir = NoDir
SPECIFICATION LockSpec
INVARIANTS HeldByOne
CHECK_DEADLOCK FALSE
