--------------------------- MODULE MCExecutePlan ---------------------------
(***************************************************************************)
(* A plan cut down to the shape of buildExecutionPlan: an SEI snapshot     *)
(* with one retry, an owner that needs it and may degrade, a strict        *)
(* verification beside them, and a report that is only observed.  The plan *)
(* lists the report before the verification that it depends on, as         *)
(* buildExecutionPlan does with report-data and sei-telemetry-summary.     *)
(***************************************************************************)
EXTENDS ExecutePlan

CONSTANTS sei, owner, verification, report, run, engine, k1, k2

TheJobs == {sei, owner, verification, report}
TheTask(c, deps, pri, res) ==
  [class |-> c, scope |-> run, dependencies |-> deps, priority |-> pri,
   executor_depth |-> 0, resources |-> res]
Needs(r) == <<[id |-> r, mode |-> "shared", permits |-> 1]>>
TheTasks ==
  [t \in TheJobs |->
     CASE t = sei          -> TheTask("validation", {}, 150, <<>>)
       [] t = owner        -> TheTask("implementation", {sei}, 130, Needs(engine))
       [] t = verification -> TheTask("validation", {}, 145, Needs(engine))
       [] t = report       -> TheTask("read_only", {owner, verification}, 80, <<>>)]
TheOrder    == [t \in TheJobs |-> CASE t = sei -> 1 [] t = owner -> 2
                                    [] t = report -> 3 [] t = verification -> 4]
TheMode     == [t \in TheJobs |-> CASE t = owner -> "degrade" [] t = report -> "observe"
                                    [] OTHER -> "strict"]
TheRetries  == [t \in TheJobs |-> IF t = sei THEN 1 ELSE 0]
TheReusable == {sei, owner, verification}
TheOffers   == [t \in TheJobs |-> {TheTasks[t]}]
TheCapacity == [r \in {engine} |-> 1]
TheBudgets  == [c \in Classes |->
                  IF c \in {"integration", "publication"} THEN 0 ELSE IF c = "validation" THEN 2 ELSE 1]
NoChoices   == [c \in Classes |-> {}]

Auto == [t \in TheJobs |-> "auto"]
Keyed(a, b) == [t \in TheJobs |-> IF t \in {sei, owner} THEN a ELSE b]
ThePlans ==
  {[policy |-> Auto, cache_key |-> Keyed(k1, k2), allowed |-> TheJobs, allow_degraded |-> TRUE],
   [policy |-> [Auto EXCEPT ![sei] = "rerun"], cache_key |-> Keyed(k1, k2),
    allowed |-> TheJobs, allow_degraded |-> FALSE],
   [policy |-> [Auto EXCEPT ![owner] = "require-reuse"], cache_key |-> Keyed(k2, k1),
    allowed |-> TheJobs \ {report}, allow_degraded |-> TRUE]}
============================================================================
