-------------------------- MODULE MCAttemptStore --------------------------
(* Two workers, and budgets that shrink and grow from call to call.         *)
EXTENDS AttemptStore
===========================================================================
