----------------------------- MODULE JudgedWork -----------------------------
(***************************************************************************)
(* What the bounded agents (planexec, supervisor, loop) promise: units of  *)
(* work done one after the other, never more than the allowance the run    *)
(* began with; after each a judgement whether to go on; and an answer only *)
(* when the judgement of the last unit said so.  No crash, interrupt or    *)
(* resume shows here: no unit is taken back or counted twice, and no       *)
(* judgement is skipped.                                                   *)
(***************************************************************************)
EXTENDS Naturals

VARIABLES
  left,      \* units of work the run may still do
  verdict,   \* the judgement of the last of them: "none" yet, "go" or "stop"
  outcome    \* "running", "done" or "failed"

vars == <<left, verdict, outcome>>

Init == left \in Nat /\ verdict \in {"none", "go"} /\ outcome = "running"

Work ==
  /\ outcome = "running"
  /\ verdict = "go"
  /\ left > 0
  /\ left' = left - 1
  /\ verdict' = "none"
  /\ UNCHANGED outcome

Judge ==
  /\ outcome = "running"
  /\ verdict = "none"
  /\ verdict' \in {"go", "stop"}
  /\ UNCHANGED <<left, outcome>>

Deliver ==
  /\ outcome = "running"
  /\ verdict = "stop"
  /\ outcome' = "done"
  /\ verdict' = "none"
  /\ UNCHANGED left

Fail ==
  /\ outcome = "running"
  /\ outcome' = "failed"
  /\ verdict' = "none"
  /\ UNCHANGED left

Next == Work \/ Judge \/ Deliver \/ Fail

Spec == Init /\ [][Next]_vars

=============================================================================
