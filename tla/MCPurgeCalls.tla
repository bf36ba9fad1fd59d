---------------------------- MODULE MCPurgeCalls ----------------------------
(* Small instances of PurgeCalls for TLC. *)
EXTENDS PurgeCalls, TLC

CONSTANTS o1, wf1, small, large, p1, p2

NoLease == {[at |-> 0, duration |-> 0]}
Unconfirmed == {[confirmed |-> 0, pending |-> FALSE]}

Bytes == [p \in Payloads |-> IF p = large THEN 2 ELSE 1]

PurgerSymmetry == Permutations(Purgers)
SweeperSymmetry == Permutations(Sweepers)
=============================================================================
