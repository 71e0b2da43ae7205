-------------------------- MODULE MCExecutorPool --------------------------
(* A small instance of ExecutorPool: a chain, a fan-in and a competitor     *)
(* over one resource of capacity 2, two classes in use and two scopes.      *)
EXTENDS ExecutorPool, TLC

CONSTANTS a, b, c, d, s1, s2, r

Use(mode, permits) == [id |-> r, mode |-> mode, permits |-> permits]
Job(cl, sc, deps, prio, depth, res) ==
  [class |-> cl, scope |-> sc, dependencies |-> deps, priority |-> prio,
   executor_depth |-> depth, resources |-> res]

MCCapacity == [x \in {r} |-> 2]
MCBudgets  == [x \in Classes |-> IF x \in {"integration", "publication"} THEN 1 ELSE 2]

MCChoices  == [x \in Classes |-> IF x \in {"read_only", "implementation"} THEN {1, 2} ELSE {}]

MCOffered ==
  (a :> {Job("read_only", s1, {}, 0, 2, <<Use("shared", 1)>>),
         Job("implementation", s1, {}, 1, 2, <<>>)})
  @@ (b :> {Job("read_only", s1, {a}, 1, 0, <<Use("shared", 2)>>),
            Job("implementation", s2, {}, 0, 1, <<Use("exclusive", 1)>>)})
  @@ (c :> {Job("read_only", s2, {b}, 0, 0, <<Use("shared", 1)>>),
            Job("read_only", s2, {}, 1, 0, <<>>)})
  @@ (d :> {Job("implementation", s2, {a}, 1, 0, <<Use("shared", 1)>>)})
===========================================================================
