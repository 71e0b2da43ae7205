---------------------------- MODULE MCPublication ----------------------------
(***************************************************************************)
(* Two runs and a purge.  Both runs have the snapshot s; their reports x   *)
(* and y have one name.  The second run has the same bundle as the first   *)
(* under another key (another configuration), or the other report.  The    *)
(* two promotions share the object o1; a run may publish besides.  The     *)
(* operator may take a run with the first key for dead, the report x may   *)
(* go without a copy, and the file system may refuse the close of q.       *)
(***************************************************************************)
EXTENDS Publication

CONSTANTS r1, r2, q, s, x, y, snapshot, report, k1, k2, k3, k4, m1, m2, o1

TheNames   == [a \in {s, x, y} |-> IF a = s THEN snapshot ELSE report]
TheBundles ==
  [k \in {k1, k2, k3, k4} |-> CASE k = k3 -> {s, y} [] k = k4 -> {s} [] OTHER -> {s, x}]
TheObjects == [m \in {m1, m2} |-> {o1}]

Each(a, b) == [w \in {r1, r2, q} |-> CASE w = r1 -> a [] w = r2 -> b [] w = q -> NoKey]
Made(a, b) == [w \in {r1, r2, q} |-> CASE w = r1 -> a [] w = r2 -> b [] w = q -> NoPromotion]
TheScenarios ==
  {[key |-> Each(k1, k2), outputRoot |-> FALSE, promotion |-> Made(NoPromotion, NoPromotion)],
   [key |-> Each(k1, k3), outputRoot |-> FALSE, promotion |-> Made(NoPromotion, NoPromotion)],
   [key |-> Each(NoKey, NoKey), outputRoot |-> TRUE, promotion |-> Made(m1, m2)],
   [key |-> Each(k4, NoKey), outputRoot |-> TRUE, promotion |-> Made(m1, NoPromotion)]}
=============================================================================
