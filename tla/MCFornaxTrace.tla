--------------------------- MODULE MCFornaxTrace ---------------------------
(* A nested run with one node, below a root run. *)
EXTENDS FornaxTrace, TLC

CONSTANTS r1, r2, n1

MCRunOf == n1 :> r2

Symmetry == Permutations(Models) \cup Permutations(Tools)
=============================================================================
