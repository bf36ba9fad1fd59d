---------------------------- MODULE Conversation ----------------------------
(***************************************************************************)
(* What a run of agents/react/react.go promises whoever reads its          *)
(* transcript: it grows by whole turns, each of which answers every call   *)
(* it makes; there are never more turns or calls than the limits allow;    *)
(* and what was said is never taken back, whatever crashes or interrupts   *)
(* happen while a turn is worked on.                                       *)
(***************************************************************************)
EXTENDS Integers, Sequences, SequencesExt

CONSTANTS MaxTurns, MaxToolCalls, CallLists

VARIABLES
  turns,    \* the calls of each whole turn, in order
  status    \* "running", "done" or "failed"

TotalCalls(ts) == FoldLeft(LAMBDA sum, calls : sum + Len(calls), 0, ts)

Init == turns = <<>> /\ status = "running"

Turn ==
  /\ status = "running"
  /\ Len(turns) < MaxTurns
  /\ \E calls \in CallLists :
       /\ TotalCalls(turns) + Len(calls) <= MaxToolCalls
       /\ turns' = Append(turns, calls)
  /\ UNCHANGED status

\* The answer is a turn of its own, which is not counted in turns.
Answer ==
  /\ status = "running"
  /\ Len(turns) < MaxTurns
  /\ status' = "done"
  /\ UNCHANGED turns

Fail == status = "running" /\ status' = "failed" /\ UNCHANGED turns

Next == Turn \/ Answer \/ Fail

Spec == Init /\ [][Next]_<<turns, status>>

=============================================================================
