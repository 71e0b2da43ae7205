------------------------ MODULE AttemptStoreProofs ------------------------
(***************************************************************************)
(* Proofs about the attempts of a task for any workers, any budgets and    *)
(* any amount of evidence.                                                 *)
(***************************************************************************)
EXTENDS AttemptStore, TLAPS

Inv == TypeOK /\ StatusIsTrue /\ BudgetIsKept

\* Where one attempt ends up when all of them pass through recovery.
LEMMA RecoveredFacts ==
  ASSUME TypeOK, NEW max, NEW recover, ~Succeeded, ~InFlight(max, recover),
         ~Exhausted(max), StatusIsTrue
  PROVE  /\ Recovered \in Seq(Attempts) /\ Len(Recovered) = Number /\ Number \in Nat
         /\ \A i \in 1..Number :
              /\ Recovered[i].status = "failed"
              /\ Recovered[i].evidence = attempts[i].evidence
              /\ attempts[i].status # "running" => Recovered[i] = attempts[i]
<1>1. Number \in Nat /\ \A i \in 1..Number : attempts[i] \in Attempts
  BY DEF TypeOK, Number
<1>2. ASSUME NEW i \in 1..Number
      PROVE  /\ Closed(attempts[i]) \in Attempts
             /\ Closed(attempts[i]).status = "failed"
             /\ Closed(attempts[i]).evidence = attempts[i].evidence
             /\ attempts[i].status # "running" => Closed(attempts[i]) = attempts[i]
  <2>1. attempts[i].status # "succeeded"
    BY <1>1 DEF StatusIsTrue, Succeeded
  <2> QED
    BY <1>1, <2>1 DEF Closed, Attempts
<1>3. Recovered \in Seq(Attempts) /\ Len(Recovered) = Number
  BY <1>1, <1>2 DEF Recovered
<1> QED
  BY <1>1, <1>2, <1>3 DEF Recovered

\* A worker's current attempt is the last one.
LEMMA CurrentIsLast ==
  ASSUME TypeOK, StatusIsTrue, NEW w \in Workers, Current(w)
  PROVE  /\ ticket[w] = Number /\ Number \in 1..Number /\ Number \in Nat
         /\ attempts[Number].status = "running" /\ status = "running"
         /\ attempts[Number] \in Attempts
  BY DEF TypeOK, StatusIsTrue, Current, Active, Number

\* Evidence is counted by a number.
LEMMA EvidenceIsCounted ==
  ASSUME TypeOK, NEW i \in 1..Number
  PROVE  attempts[i].evidence \in Nat
<1>1. attempts[i] \in Attempts
  BY DEF TypeOK, Number
<1> QED
  BY <1>1 DEF Attempts

\* The invariant holds for a task without a file.
LEMMA InvInit == Init => Inv
  BY DEF Init, Inv, TypeOK, StatusIsTrue, BudgetIsKept, Number, Statuses, Answers

\* Starting an attempt keeps the invariant and changes no finished attempt.
LEMMA StartStep ==
  ASSUME AttemptAssumption, Inv, NEW w \in Workers, NEW max \in Budgets, NEW recover \in BOOLEAN,
         Start(w, max, recover)
  PROVE  /\ Inv'
         /\ Len(attempts') >= Number
         /\ \A i \in 1..Number :
              /\ attempts'[i].evidence >= attempts[i].evidence
              /\ attempts[i].status # "running" => attempts'[i] = attempts[i]
<1> DEFINE fresh == [status |-> "running", outcome |-> "none", evidence |-> 0]
<1>1. fresh \in Attempts /\ fresh.status = "running"
  BY DEF Attempts
<1> HIDE DEF fresh
<1>2. /\ Recovered \in Seq(Attempts) /\ Len(Recovered) = Number /\ Number \in Nat
      /\ \A i \in 1..Number :
           /\ Recovered[i].status = "failed"
           /\ Recovered[i].evidence = attempts[i].evidence
           /\ attempts[i].status # "running" => Recovered[i] = attempts[i]
  BY RecoveredFacts DEF Inv, Start
<1>3. attempts' = Append(Recovered, fresh) /\ max_attempts' = max /\ status' = "running"
      /\ ticket' = [ticket EXCEPT ![w] = Number + 1] /\ answer' = "STARTED" /\ Number < max
  BY <1>2, AttemptAssumption DEF Start, fresh, Exhausted, Inv
<1>4. /\ attempts' \in Seq(Attempts) /\ Len(attempts') = Number + 1
      /\ \A i \in 1..Number : attempts'[i] = Recovered[i]
      /\ attempts'[Number + 1] = fresh
  BY <1>1, <1>2, <1>3
<1>5. TypeOK'
  BY <1>2, <1>3, <1>4, AttemptAssumption DEF Inv, TypeOK, Statuses, Answers
<1>6. StatusIsTrue'
  <2>1. \A i \in 1..(Number + 1) : attempts'[i].status = (IF i = Number + 1 THEN "running" ELSE "failed")
    BY <1>1, <1>2, <1>4
  <2>2. Number' = Number + 1
    BY <1>4 DEF Number
  <2>3. Number + 1 \in 1..(Number + 1)
    BY <1>2
  <2> QED
    BY <1>3, <2>1, <2>2, <2>3 DEF StatusIsTrue
<1>7. BudgetIsKept'
  BY <1>2, <1>3, <1>4, AttemptAssumption DEF BudgetIsKept, Number
<1>8. \A i \in 1..Number : attempts[i].evidence \in Nat
  BY EvidenceIsCounted DEF Inv
<1> QED
  BY <1>2, <1>4, <1>5, <1>6, <1>7, <1>8 DEF Inv

\* So does recording evidence for the current attempt.
LEMMA EvidenceStep ==
  ASSUME Inv, NEW w \in Workers, AppendEvidence(w)
  PROVE  /\ Inv'
         /\ Len(attempts') >= Number
         /\ \A i \in 1..Number :
              /\ attempts'[i].evidence >= attempts[i].evidence
              /\ attempts[i].status # "running" => attempts'[i] = attempts[i]
<1>1. /\ ticket[w] = Number /\ Number \in 1..Number /\ Number \in Nat
      /\ attempts[Number].status = "running" /\ status = "running"
      /\ attempts[Number] \in Attempts
  BY CurrentIsLast DEF Inv, AppendEvidence
<1> DEFINE more == [attempts[Number] EXCEPT !.evidence = @ + 1]
<1>2. more \in Attempts /\ more.status = "running" /\ more.evidence >= attempts[Number].evidence
  BY <1>1 DEF Attempts
<1>3. attempts' = [attempts EXCEPT ![Number] = more]
  BY <1>1 DEF AppendEvidence
<1> HIDE DEF more
<1>4. /\ attempts' \in Seq(Attempts) /\ Len(attempts') = Number
      /\ attempts'[Number] = more
      /\ \A i \in 1..Number : i # Number => attempts'[i] = attempts[i]
  BY <1>1, <1>2, <1>3 DEF Inv, TypeOK, Number
<1>5. /\ UNCHANGED <<status, max_attempts, ticket>> /\ answer' = "NONE" /\ Number' = Number
  BY <1>4 DEF AppendEvidence, Number
<1>6. TypeOK'
  BY <1>4, <1>5 DEF Inv, TypeOK
<1>7. \A i \in 1..Number : attempts'[i].status = attempts[i].status
  BY <1>1, <1>2, <1>4
<1>8. StatusIsTrue'
  BY <1>5, <1>7 DEF Inv, StatusIsTrue
<1>9. BudgetIsKept'
  BY <1>5 DEF Inv, BudgetIsKept
<1>10. \A i \in 1..Number : attempts[i].evidence \in Nat
  BY EvidenceIsCounted DEF Inv
<1> QED
  BY <1>1, <1>2, <1>4, <1>6, <1>8, <1>9, <1>10 DEF Inv

\* So does finishing the current attempt.
LEMMA FinishStep ==
  ASSUME Inv, NEW w \in Workers, NEW outcome \in Outcomes, Finish(w, outcome)
  PROVE  /\ Inv'
         /\ Len(attempts') >= Number
         /\ \A i \in 1..Number :
              /\ attempts'[i].evidence >= attempts[i].evidence
              /\ attempts[i].status # "running" => attempts'[i] = attempts[i]
<1>1. /\ ticket[w] = Number /\ Number \in 1..Number /\ Number \in Nat
      /\ attempts[Number].status = "running" /\ status = "running"
      /\ attempts[Number] \in Attempts
  BY CurrentIsLast DEF Inv, Finish
<1> DEFINE over == [attempts[Number] EXCEPT
                      !.status = IF outcome = "succeeded" THEN "succeeded" ELSE "failed",
                      !.outcome = outcome]
<1>2. over \in Attempts /\ over.evidence = attempts[Number].evidence
      /\ over.status = (IF outcome = "succeeded" THEN "succeeded" ELSE "failed")
  BY <1>1 DEF Attempts, Outcomes
<1>3. attempts' = [attempts EXCEPT ![Number] = over]
  BY <1>1 DEF Finish
<1> HIDE DEF over
<1>4. /\ attempts' \in Seq(Attempts) /\ Len(attempts') = Number
      /\ attempts'[Number] = over
      /\ \A i \in 1..Number : i # Number => attempts'[i] = attempts[i]
  BY <1>1, <1>2, <1>3 DEF Inv, TypeOK, Number
<1>5. /\ UNCHANGED <<max_attempts, ticket>> /\ answer' = "NONE" /\ Number' = Number
      /\ status' = IF outcome = "succeeded" THEN "succeeded"
                   ELSE IF outcome = "hard-stop" \/ Number >= max_attempts THEN "hard-stop"
                   ELSE "retryable"
  BY <1>4 DEF Finish, Number
<1>6. TypeOK'
  BY <1>4, <1>5 DEF Inv, TypeOK, Statuses, Outcomes
<1>7. \A i \in 1..Number : i # Number => attempts'[i].status = "failed"
  BY <1>4 DEF Inv, StatusIsTrue
<1>8. StatusIsTrue'
  BY <1>1, <1>2, <1>4, <1>5, <1>7 DEF StatusIsTrue, Outcomes
<1>9. BudgetIsKept'
  BY <1>1, <1>5 DEF Inv, TypeOK, BudgetIsKept
<1>10. \A i \in 1..Number : attempts[i].evidence \in Nat
  BY EvidenceIsCounted DEF Inv
<1> QED
  BY <1>1, <1>2, <1>4, <1>6, <1>8, <1>9, <1>10 DEF Inv

\* A step that leaves the file alone, and a refusal, keep everything.
LEMMA QuietStep ==
  ASSUME Inv, UNCHANGED <<status, max_attempts, attempts>>,
         ticket' \in [Workers -> Nat], answer' \in Answers \cup {"NONE"}
  PROVE  Inv'
  BY DEF Inv, TypeOK, StatusIsTrue, BudgetIsKept, Number

\* Every step is one of those.
LEMMA StepKeeps ==
  ASSUME AttemptAssumption, Inv, [Next]_vars
  PROVE  /\ Inv'
         /\ attempts' # attempts =>
              /\ Len(attempts') >= Number
              /\ \A i \in 1..Number :
                   /\ attempts'[i].evidence >= attempts[i].evidence
                   /\ attempts[i].status # "running" => attempts'[i] = attempts[i]
<1>1. ASSUME NEW max \in Budgets, NEW recover \in BOOLEAN, Refuse(max, recover)
      PROVE  Inv' /\ attempts' = attempts
  BY <1>1, QuietStep DEF Refuse, Answers, Inv, TypeOK
<1>2. ASSUME NEW w \in Workers, Crash(w)
      PROVE  Inv' /\ attempts' = attempts
  BY <1>2, QuietStep DEF Crash, Inv, TypeOK
<1>3. CASE UNCHANGED vars
  BY <1>3, QuietStep DEF vars, Inv, TypeOK
<1>4. CASE Next
  BY <1>1, <1>2, <1>4, StartStep, EvidenceStep, FinishStep, AttemptAssumption DEF Next, Begin
<1> QED
  BY <1>3, <1>4

\* The invariant holds in every reachable state.
LEMMA InvHolds == Spec => []Inv
  BY AttemptAssumption, InvInit, StepKeeps, PTL DEF Spec

\* The types hold for any workers and budgets.
THEOREM AttemptTypeCorrect == Spec => []TypeOK
<1>1. Inv => TypeOK
  BY DEF Inv
<1> QED
  BY <1>1, InvHolds, PTL

\* The status tells the truth about the attempts, under any budgets.
THEOREM AttemptStatusIsTrue == Spec => []StatusIsTrue
<1>1. Inv => StatusIsTrue
  BY DEF Inv
<1> QED
  BY <1>1, InvHolds, PTL

\* The budget in force is never exceeded, and retryable means that it is not used up.
THEOREM AttemptBudgetIsKept == Spec => []BudgetIsKept
<1>1. Inv => BudgetIsKept
  BY DEF Inv
<1> QED
  BY <1>1, InvHolds, PTL

\* No evidence is erased and no finished attempt rewritten.
THEOREM AttemptHistoryIsKept == Spec => HistoryIsKept
<1>1. Inv /\ [Next]_vars =>
        [/\ Len(attempts') >= Number
         /\ \A i \in 1..Number :
              /\ attempts'[i].evidence >= attempts[i].evidence
              /\ attempts[i].status # "running" => attempts'[i] = attempts[i]]_attempts
  BY StepKeeps, AttemptAssumption
<1> QED
  BY <1>1, InvHolds, PTL DEF Spec, HistoryIsKept

\* Success and hard stop are final.
THEOREM AttemptFinalIsFinal == Spec => FinalIsFinal
<1>1. ASSUME Inv, [Next]_vars, status \in {"succeeded", "hard-stop"}
      PROVE  UNCHANGED <<status, attempts>>
  <2>1. ASSUME NEW w \in Workers PROVE ~Current(w)
    BY <1>1, <2>1, CurrentIsLast DEF Inv
  <2> QED
    BY <1>1, <2>1 DEF Next, Begin, Refuse, Start, AppendEvidence, Finish, Crash, Succeeded,
       Exhausted, vars
<1>2. Inv /\ [Next]_vars => [status \notin {"succeeded", "hard-stop"}]_<<status, attempts>>
  BY <1>1
<1> QED
  BY <1>2, InvHolds, PTL DEF Spec, FinalIsFinal
===========================================================================
