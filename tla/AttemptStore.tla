---------------------------- MODULE AttemptStore ----------------------------
(***************************************************************************)
(* skills/agent-executor-pool/attempt-store.js for one task of a campaign: *)
(* numbered attempts with their evidence, a budget that each caller names, *)
(* and a status, rewritten as one file under the lock of the task.  Every  *)
(* operation reads the file, decides and writes it at most once, all under *)
(* that lock (Mutex), so each is one step; a crash before its write leaves *)
(* the file as it was.                                                     *)
(***************************************************************************)
EXTENDS Naturals, Sequences

CONSTANTS
  Workers,     \* callers; they hold the id of the attempt that begin gave them
  Budgets,     \* the values of max_attempts that callers pass
  MaxEvidence  \* bound on the evidence of one attempt

ASSUME AttemptAssumption == Budgets \subseteq Nat \ {0} /\ MaxEvidence \in Nat

Statuses == {"pending", "running", "retryable", "hard-stop", "succeeded"}
Outcomes == {"succeeded", "retryable-failure", "hard-stop"}
Answers  == {"STARTED", "ALREADY_SUCCEEDED", "RETRY_BUDGET_EXHAUSTED", "ATTEMPT_IN_FLIGHT"}

\* outcome is "none" while the attempt runs; evidence is how much is recorded.
Attempts == [status : {"running", "failed", "succeeded"},
             outcome : Outcomes \cup {"none", "orphaned-recovered"},
             evidence : Nat]

VARIABLES
  status, max_attempts, attempts,  \* the file; "pending" also when there is none
  ticket,  \* the number of the attempt that each worker was given, 0 for none
  answer   \* what the last call answered, "NONE" if it was not begin

vars == <<status, max_attempts, attempts, ticket, answer>>

Init ==
  /\ status = "pending"
  /\ max_attempts = 0
  /\ attempts = <<>>
  /\ ticket = [w \in Workers |-> 0]
  /\ answer = "NONE"

---------------------------------------------------------------------------
Number == Len(attempts)

Active == {i \in 1..Number : attempts[i].status = "running"}

\* The checks of begin, in their order.
Succeeded == status = "succeeded"

\* Fault: the budget alone counts, as if a hard stop were not recorded.
ExhaustedByCount(max) == ~Succeeded /\ Number >= max

\* Fault: one attempt too many.
ExhaustedAfter(max) == ~Succeeded /\ (status = "hard-stop" \/ Number > max)

Exhausted(max) == ~Succeeded /\ (status = "hard-stop" \/ Number >= max)

InFlight(max, recover) == ~Succeeded /\ ~Exhausted(max) /\ Active # {} /\ ~recover

Refuse(max, recover) ==
  /\ \/ Succeeded              /\ answer' = "ALREADY_SUCCEEDED"
     \/ Exhausted(max)         /\ answer' = "RETRY_BUDGET_EXHAUSTED"
     \/ InFlight(max, recover) /\ answer' = "ATTEMPT_IN_FLIGHT"
  /\ UNCHANGED <<status, max_attempts, attempts, ticket>>

\* Fault: recovery starts the attempt's record afresh.
ClosedErasing(a) ==
  IF a.status = "running"
  THEN [status |-> "failed", outcome |-> "orphaned-recovered", evidence |-> 0] ELSE a

\* Fault: recovery forgets to close the running attempt.
ClosedNot(a) == a

\* recover_running closes the running attempt and keeps what it recorded.
Closed(a) ==
  IF a.status = "running" THEN [a EXCEPT !.status = "failed", !.outcome = "orphaned-recovered"]
                          ELSE a

Recovered == [i \in 1..Number |-> Closed(attempts[i])]

Start(w, max, recover) ==
  /\ ~Succeeded /\ ~Exhausted(max) /\ ~InFlight(max, recover)
  /\ attempts' = Append(Recovered, [status |-> "running", outcome |-> "none", evidence |-> 0])
  /\ max_attempts' = max
  /\ status' = "running"
  /\ ticket' = [ticket EXCEPT ![w] = Number + 1]
  /\ answer' = "STARTED"

\* ATTEMPT_NOT_CURRENT is thrown, and nothing written, unless it is running.
Current(w) == ticket[w] \in Active

AppendEvidence(w) ==
  /\ Current(w)
  /\ attempts[ticket[w]].evidence < MaxEvidence
  /\ attempts' = [attempts EXCEPT ![ticket[w]].evidence = @ + 1]
  /\ answer' = "NONE"
  /\ UNCHANGED <<status, max_attempts, ticket>>

Finish(w, outcome) ==
  /\ Current(w)
  /\ attempts' = [attempts EXCEPT
       ![ticket[w]].status  = IF outcome = "succeeded" THEN "succeeded" ELSE "failed",
       ![ticket[w]].outcome = outcome]
  /\ status' = IF outcome = "succeeded" THEN "succeeded"
               ELSE IF outcome = "hard-stop" \/ Number >= max_attempts THEN "hard-stop"
               ELSE "retryable"
  /\ answer' = "NONE"
  /\ UNCHANGED <<max_attempts, ticket>>

\* The worker stops, and whoever takes its place does not know its attempt.
Crash(w) ==
  /\ ticket[w] # 0
  /\ ticket' = [ticket EXCEPT ![w] = 0]
  /\ answer' = "NONE"
  /\ UNCHANGED <<status, max_attempts, attempts>>

Begin(w) ==
  \E max \in Budgets, recover \in BOOLEAN : Refuse(max, recover) \/ Start(w, max, recover)

Next ==
  \E w \in Workers :
    \/ Begin(w)
    \/ AppendEvidence(w)
    \/ \E outcome \in Outcomes : Finish(w, outcome)
    \/ Crash(w)

Spec == Init /\ [][Next]_vars
---------------------------------------------------------------------------
(* Properties.                                                             *)

TypeOK ==
  /\ status \in Statuses
  /\ max_attempts \in Nat
  /\ attempts \in Seq(Attempts)
  /\ ticket \in [Workers -> Nat]
  /\ answer \in Answers \cup {"NONE"}

\* The status that callers decide by tells the truth about the attempts: only
\* the last attempt can be running or have succeeded, and the status says so,
\* through crashes, recoveries and workers that finish late.
StatusIsTrue ==
  /\ \A i \in 1..Number : attempts[i].status # "failed" => i = Number
  /\ status = "running"   <=> \E i \in 1..Number : attempts[i].status = "running"
  /\ status = "succeeded" <=> \E i \in 1..Number : attempts[i].status = "succeeded"

\* The budget is explicit and capped: no more attempts than the budget in force,
\* and a task that is left retryable does have an attempt left.
BudgetIsKept ==
  /\ Number <= max_attempts
  /\ status = "retryable" => Number < max_attempts

\* Nothing recorded is erased or rewritten: attempts are only added, evidence
\* only grows, and an attempt that is over never changes, whoever was given it.
HistoryIsKept ==
  [][/\ Len(attempts') >= Number
     /\ \A i \in 1..Number :
          /\ attempts'[i].evidence >= attempts[i].evidence
          /\ attempts[i].status # "running" => attempts'[i] = attempts[i]]_attempts

\* Success and hard stop are final: no begin, recovery or late finish, under
\* any budget, reopens the task or adds an attempt.
FinalIsFinal ==
  [][status \notin {"succeeded", "hard-stop"}]_<<status, attempts>>

\* "Exhaustion records RETRY_BUDGET_EXHAUSTED" (EXECUTION-MODEL.md:35): a task
\* refused as exhausted is recorded so, once the budget it was begun under is
\* spent and the worker of its last attempt, which could still record it, is gone.
ExhaustionIsRecorded ==
  /\ answer = "RETRY_BUDGET_EXHAUSTED"
  /\ Number >= max_attempts
  /\ ~\E w \in Workers : Current(w)
  => status = "hard-stop"
===========================================================================
