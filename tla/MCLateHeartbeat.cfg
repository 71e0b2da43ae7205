CONSTANTS
  Procs = {w1, w2}
  Nobody = Nobody
  NoLease = NoLease
  NoFence = NoFence
  Ttl = 2
  MaxTime = 4
  MaxIssued = 3
SPECIFICATION Spec
PROPERTIES ExpiredStaysExpired
