----------------------------- MODULE MCDBStore -----------------------------
(* Small instances of DBStore for TLC. *)
EXTENDS DBStore, TLC

CONSTANTS r1, r2, o1, o2, wf1, wf2, small, large

\* Lease requests: the runtime's TTLs, and explicit expiries (0 is no expiry).
TTLsAndExpiry ==
  {[at |-> 0, duration |-> 1], [at |-> 0, duration |-> 2], [at |-> 3, duration |-> 0]}
OneTTL == {[at |-> 0, duration |-> 1]}

Unconfirmed == {[confirmed |-> 0, pending |-> FALSE]}
Confirming ==
  {[confirmed |-> 0, pending |-> TRUE], [confirmed |-> 1, pending |-> FALSE],
   [confirmed |-> 2, pending |-> FALSE]}
ConfirmingOne ==
  {[confirmed |-> 0, pending |-> FALSE], [confirmed |-> 1, pending |-> FALSE]}

Bytes == [p \in Payloads |-> IF p = large THEN 2 ELSE 1]

WorkerSymmetry == Permutations(Owners) \cup Permutations(Identities)
=============================================================================
