----------------------------- MODULE LoopAgent -----------------------------
(***************************************************************************)
(* agents/loop/loop.go: one child runs again and again, each time on its   *)
(* own last response, until a condition stops it.                          *)
(*                                                                         *)
(* The child node is a closure around the child: an interrupted or crashed *)
(* child is called through it again, from its first line.  What a child    *)
(* answers is one of Responses, whatever it was asked.                     *)
(***************************************************************************)
EXTENDS Integers, Sequences, SequencesExt

CONSTANTS
  Responses,       \* what a child may answer
  MaxIterations,
  MaxCrashes,      \* bound on the crashes of one run
  MaxInterrupts    \* bound on the interrupts of one run

First == "request"   \* what the caller asked

VARIABLES
  state,        \* loopContext, as last committed
  at,           \* the node that runs next, or how the run ended
  request,      \* what the child node was given
  response,     \* what the condition or finish node was given
  child,        \* "idle", "running", "waiting"
  judged,       \* what the condition saw, for the properties
  crashes,
  interrupts

vars == <<state, at, request, response, child, judged, crashes, interrupts>>

Nodes == {"child", "condition", "finish"}
Ended == {"done", "failed"}
Decided == {"continue", "stop", "unknown"}

Init ==
  /\ state = [iteration |-> 0, request |-> First]
  /\ at = "child"
  /\ request = First
  /\ response = First
  /\ child = "idle"
  /\ judged = <<>>
  /\ crashes = 0
  /\ interrupts = 0

\* requestFromResponse: the message of the response is all the next child gets.
RequestFromResponse(answer) == answer

EnterChild ==
  /\ at = "child"
  /\ child \in {"idle", "waiting"}
  /\ IF state.iteration >= MaxIterations
     THEN at' = "failed" /\ child' = "idle"
     ELSE at' = at /\ child' = "running"
  /\ UNCHANGED <<state, request, response, judged, crashes, interrupts>>

\* (mutant) the iteration is counted, the request it was for is not kept
ChildReturnsUnkept(answer) ==
  /\ child = "running"
  /\ at' = "condition"
  /\ child' = "idle"
  /\ response' = answer
  /\ state' = [state EXCEPT !.iteration = @ + 1]
  /\ UNCHANGED <<request, judged, crashes, interrupts>>

ChildReturns(answer) ==
  /\ child = "running"
  /\ at' = "condition"
  /\ child' = "idle"
  /\ response' = answer
  /\ state' = [iteration |-> state.iteration + 1, request |-> request]
  /\ UNCHANGED <<request, judged, crashes, interrupts>>

ChildFails ==
  /\ child = "running"
  /\ at' = "failed"
  /\ child' = "idle"
  /\ UNCHANGED <<state, request, response, judged, crashes, interrupts>>

ChildInterrupts ==
  /\ child = "running"
  /\ interrupts < MaxInterrupts
  /\ interrupts' = interrupts + 1
  /\ child' = "waiting"
  /\ UNCHANGED <<state, at, request, response, judged, crashes>>

\* The condition node and its route.
Condition(decision) ==
  /\ at = "condition"
  /\ at' = CASE decision = "continue" /\ state.iteration < MaxIterations -> "child"
             [] decision = "stop" -> "finish"
             [] OTHER -> "failed"
  /\ request' = IF at' = "child" THEN RequestFromResponse(response) ELSE request
  /\ judged' = Append(judged, [number |-> state.iteration, request |-> state.request,
                               response |-> response, decision |-> decision])
  /\ UNCHANGED <<state, response, child, crashes, interrupts>>

ConditionFails ==
  /\ at = "condition"
  /\ at' = "failed"
  /\ UNCHANGED <<state, request, response, child, judged, crashes, interrupts>>

Finish ==
  /\ at = "finish"
  /\ at' = "done"
  /\ UNCHANGED <<state, request, response, child, judged, crashes, interrupts>>

\* Another process continues from the last checkpoint.
Crash ==
  /\ at \in Nodes
  /\ crashes < MaxCrashes
  /\ crashes' = crashes + 1
  /\ child' = IF child = "running" THEN "idle" ELSE child
  /\ UNCHANGED <<state, at, request, response, judged, interrupts>>

NodeStep ==
  \/ EnterChild \/ ConditionFails \/ Finish
  \/ \E decision \in Decided : Condition(decision)

ChildStep ==
  \/ \E answer \in Responses : ChildReturns(answer)
  \/ ChildFails \/ ChildInterrupts

Next == NodeStep \/ ChildStep \/ Crash

Spec == Init /\ [][Next]_vars

-----------------------------------------------------------------------------
(* Properties *)

TypeOK ==
  /\ state \in [iteration : 0..MaxIterations, request : Responses \cup {First}]
  /\ at \in Nodes \cup Ended
  /\ request \in Responses \cup {First}
  /\ response \in Responses \cup {First}
  /\ child \in {"idle", "running", "waiting"}
  /\ child # "idle" => at = "child"
  /\ Len(judged) \in 0..MaxIterations
  /\ crashes \in 0..MaxCrashes
  /\ interrupts \in 0..MaxInterrupts

\* The condition is asked once for each iteration, in order, with the request
\* and the response of that iteration, and each request but the first is the
\* response before it.  A child that was called again after a crash must not
\* leave half of an older call (loop.go:138, 151).
IterationsAreChained ==
  \A n \in DOMAIN judged :
    /\ judged[n].number = n
    /\ judged[n].request = IF n = 1 THEN First ELSE judged[n - 1].response
    /\ n < Len(judged) => judged[n].decision = "continue"

\* What the loop answers is the response the condition stopped at.
AnswerIsWhatStopped ==
  at = "done" => /\ judged # <<>>
                 /\ Last(judged).decision = "stop"
                 /\ response = Last(judged).response

=============================================================================
