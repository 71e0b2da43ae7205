--------------------------- MODULE MCWorkerLease ---------------------------
(* Two process slots compete for the lease of one assignment.  A lease      *)
(* lasts two ticks of four, so that it can expire and a second one can run  *)
(* out too, and three tokens are enough for two recoveries.                 *)
EXTENDS WorkerLease
===========================================================================
