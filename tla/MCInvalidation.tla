--------------------------- MODULE MCInvalidation ---------------------------
(***************************************************************************)
(* Four files under two module roots: p3 and p4 get the same module id.    *)
(* Contents that import nothing, module 1, or module 2 make chains, cycles *)
(* and shared dependencies; the other roots give every file a new id.      *)
(* The patterns call nothing generated, or p2.  Nothing tells p3 from p4,  *)
(* or one version from the other.                                          *)
(***************************************************************************)
EXTENDS Invalidation, TLC

CONSTANTS p1, p2, p3, p4, n1, n2, n3, o1, o2, o3, alone, uses1, uses2, broken, v1, v2

ThePaths   == {p1, p2, p3, p4}
TheImports == [c \in {alone, uses1, uses2, broken} |->
                 CASE c = uses1 -> {n1} [] c = uses2 -> {n2} [] OTHER -> {}]
TheRoots   ==
  {[p \in ThePaths |-> CASE p = p1 -> n1 [] p = p2 -> n2 [] OTHER -> n3],
   [p \in ThePaths |-> CASE p = p1 -> o1 [] p = p2 -> o2 [] OTHER -> o3]}

ThePatterns == {{}, {p2}}

Symmetry == Permutations({p3, p4}) \cup Permutations({v1, v2})
=============================================================================
