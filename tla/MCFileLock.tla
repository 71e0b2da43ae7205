---------------------------- MODULE MCFileLock ----------------------------
(* Three processes of one host compete for one lock.                        *)
EXTENDS FileLock
CONSTANT host
MCHost == [p \in Procs |-> host]
===========================================================================
