--------------------------- MODULE MCAcceleration ---------------------------
(***************************************************************************)
(* Five tasks over two entries: a and b ask for one entry, b and c use one *)
(* resource, d depends on b and c, and s salvages what d leaves, also if d *)
(* failed or was blocked.  The list runs against the dependencies.  Two    *)
(* other processes ask for the entry of a and b and may die, so that a     *)
(* dead lock has two contenders.  Under the second class budget a and d    *)
(* can never start.  The second attempt of a may fail to record that it    *)
(* owns the lock.                                                          *)
(***************************************************************************)
EXTENDS Acceleration

CONSTANTS a, b, c, d, s, e1, e2, r, p1, p2, p3

TheTasks == {a, b, c, d, s}
TheList  == <<s, d, c, b, a>>
Normal(deps, res, class, weight, ms, retries, salvage) ==
  [depends_on |-> deps, resources |-> res, executor_class |-> class, weight |-> weight,
   priority |-> 0, expected_ms |-> ms, retries |-> retries, timeout |-> TRUE,
   retry_on_timeout |-> retries > 0, allow_failed_dependencies |-> salvage]
TheTask ==
  [t \in TheTasks |->
     CASE t = a -> Normal({}, {}, "command", 2, 1, 1, FALSE)
       [] t = b -> Normal({}, {r}, "command", 1, 1, 0, FALSE)
       [] t = c -> Normal({}, {r}, "agent", 1, 2, 0, FALSE)
       [] t = d -> Normal({b, c}, {}, "synthesis", 2, 1, 0, FALSE)
       [] t = s -> Normal({d}, {}, "command", 1, 1, 0, TRUE)]
TheBudgets ==
  {[k \in {"command", "agent", "synthesis"} |-> 2],
   [k \in {"command", "agent", "synthesis"} |-> 1]}
Other1   == <<p2, 1>>
Other2   == <<p3, 1>>
TheOthers == {Other1, Other2}
TheUnwritable == {<<a, 2>>}
TheCalls == {<<a, 1>>, <<a, 2>>, <<b, 1>>, <<c, 1>>, <<d, 1>>, <<s, 1>>} \cup TheOthers
TheProcs == [k \in TheCalls |-> IF k = Other1 THEN p2 ELSE IF k = Other2 THEN p3 ELSE p1]
TheEntries == [k \in TheCalls |-> IF k[1] \in {c, d, s} THEN e2 ELSE e1]
=============================================================================
