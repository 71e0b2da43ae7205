------------------------------- MODULE Mutex -------------------------------
(***************************************************************************)
(* What withFileLock of skills/agent-executor-pool/file-lock.js promises   *)
(* its callers: at most one process at a time is inside.  FileLock         *)
(* implements it, with the directory at the lock path for the holder; the  *)
(* stores are built on it.  A holder that crashes leaves: it takes no      *)
(* further step, and its lock is removed by whoever comes next.            *)
(***************************************************************************)
CONSTANTS Procs, Nobody
VARIABLE holder

MutexInit == holder = Nobody

Enter(p) == holder = Nobody /\ holder' = p

Leave(p) == holder = p /\ holder' = Nobody

MutexNext == \E p \in Procs : Enter(p) \/ Leave(p)
===========================================================================
