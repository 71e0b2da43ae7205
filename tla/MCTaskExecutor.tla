-------------------------- MODULE MCTaskExecutor --------------------------
(* Four tasks in every valid graph of a chosen family, two workers, a class *)
(* with room for one, a group with room for one and memory for three.       *)
EXTENDS TaskExecutor
CONSTANTS cpu, io, git, none
MCTasks == 1..4
MCGraphs == [MCTasks -> SUBSET MCTasks]
MCClasses == {cpu, io}
MCClass == [t \in MCTasks |-> IF t \in {1, 2} THEN cpu ELSE io]
MCGroup == [t \in MCTasks |-> IF t \in {2, 3} THEN git ELSE none]
MCWeight == [t \in MCTasks |-> IF t = 4 THEN 2 ELSE 1]
MCResourceLimits == [c \in MCClasses |-> IF c = cpu THEN 1 ELSE 2]
MCGroupLimits == [g \in {git} |-> 1]
===========================================================================
