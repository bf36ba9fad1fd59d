----------------------------- MODULE Supervisor -----------------------------
(***************************************************************************)
(* agents/supervisor/supervisor.go: a decider delegates to children until  *)
(* it gives a final response.  A node of the workflow commits its output   *)
(* and the State it set in one checkpoint; a child may interrupt, and a    *)
(* crash of the process leaves it to be called again.                      *)
(***************************************************************************)
EXTENDS Integers, Sequences, SequencesExt

CONSTANTS
  Directory,      \* names of the children
  Decisions,      \* decisions a Decider may return
  MaxRounds,
  MaxCrashes,     \* bound on the crashes of one run
  MaxInterrupts   \* bound on the interrupts of one run

\* response tells whether there is one; request stands for its content.
Decision == [kind : STRING, child : STRING, request : Nat, response : BOOLEAN]

VARIABLES
  state,       \* State, as last committed: rounds and results
  at,          \* the node that runs next, or how the run ended
  decision,    \* the decision that was accepted last
  asked,       \* delegations accepted so far, for the properties
  child,       \* the delegate: "idle", "running", "waiting"
  crashes,
  interrupts

vars == <<state, at, decision, asked, child, crashes, interrupts>>

Nodes == {"start", "decide", "delegate", "record", "finish"}
Ended == {"done", "failed"}
NoDecision == [kind |-> "", child |-> "", request |-> 0, response |-> FALSE]

Init ==
  /\ state = [round |-> 0, results |-> <<>>]
  /\ at = "start"
  /\ decision = NoDecision
  /\ asked = <<>>
  /\ child = "idle"
  /\ crashes = 0
  /\ interrupts = 0

Move(node, next) ==
  /\ at = node
  /\ at' = next
  /\ UNCHANGED <<crashes, interrupts>>

Start == Move("start", "decide") /\ UNCHANGED <<state, decision, asked, child>>

\* Decision.validate: a decision is either a delegation or an answer.
WellFormed(d) ==
  \/ d.kind = "delegate" /\ d.child # "" /\ ~d.response
  \/ d.kind = "final" /\ d.response /\ d.child = ""

\* validateDecision: the limit bounds delegations, never the answer.
ValidDecision(d) ==
  /\ WellFormed(d)
  /\ d.kind = "delegate" => state.round < MaxRounds /\ d.child \in Directory

Decide(d) ==
  /\ ValidDecision(d)
  /\ Move("decide", IF d.kind = "delegate" THEN "delegate" ELSE "finish")
  /\ decision' = d
  /\ asked' = IF d.kind = "delegate" THEN Append(asked, d) ELSE asked
  /\ UNCHANGED <<state, child>>

DecisionRefused(d) ==
  /\ ~ValidDecision(d)
  /\ Move("decide", "failed")
  /\ UNCHANGED <<state, decision, asked, child>>

DeciderFails == Move("decide", "failed") /\ UNCHANGED <<state, decision, asked, child>>

-----------------------------------------------------------------------------
(* delegate: delegationDispatcher.Invoke *)

InDelegate(status) == at = "delegate" /\ child = status

StartChild ==
  /\ InDelegate("idle")
  /\ child' = "running"
  /\ UNCHANGED <<state, at, decision, asked, crashes, interrupts>>

ChildReturns ==
  /\ InDelegate("running")
  /\ Move("delegate", "record")
  /\ child' = "idle"
  /\ UNCHANGED <<state, decision, asked>>

ChildFails ==
  /\ InDelegate("running")
  /\ Move("delegate", "failed")
  /\ child' = "idle"
  /\ UNCHANGED <<state, decision, asked>>

ChildInterrupts ==
  /\ InDelegate("running")
  /\ interrupts < MaxInterrupts
  /\ interrupts' = interrupts + 1
  /\ child' = "waiting"
  /\ UNCHANGED <<state, at, decision, asked, crashes>>

\* The caller resumes: the same child run goes on.
ResumeChild ==
  /\ InDelegate("waiting")
  /\ child' = "running"
  /\ UNCHANGED <<state, at, decision, asked, crashes, interrupts>>

\* A result is of the child and the request its decision named.
ResultOf(d) == [child |-> d.child, request |-> d.request]

Record ==
  /\ Move("record", "decide")
  /\ state' = [round |-> state.round + 1, results |-> Append(state.results, ResultOf(decision))]
  /\ UNCHANGED <<decision, asked, child>>

Finish == Move("finish", "done") /\ UNCHANGED <<state, decision, asked, child>>

\* Another process continues from the last checkpoint.
Crash ==
  /\ at \in Nodes
  /\ crashes < MaxCrashes
  /\ crashes' = crashes + 1
  /\ child' = IF child = "running" THEN "idle" ELSE child
  /\ UNCHANGED <<state, at, decision, asked, interrupts>>

NodeStep ==
  \/ Start
  \/ \E d \in Decisions : Decide(d) \/ DecisionRefused(d)
  \/ DeciderFails \/ StartChild \/ Record \/ Finish

ChildStep == ChildReturns \/ ChildFails \/ ChildInterrupts

Next == NodeStep \/ ChildStep \/ ResumeChild \/ Crash

Spec == Init /\ [][Next]_vars

-----------------------------------------------------------------------------
(* Properties *)

TypeOK ==
  /\ state.round \in 0..MaxRounds
  /\ state.results \in Seq([child : Directory, request : Nat])
  /\ at \in Nodes \cup Ended
  /\ decision \in Decisions \cup {NoDecision}
  /\ asked \in Seq(Decisions)
  /\ child \in {"idle", "running", "waiting"}
  /\ child # "idle" => at = "delegate"
  /\ crashes \in 0..MaxCrashes
  /\ interrupts \in 0..MaxInterrupts

\* The results the decider judges are those of the delegations it was allowed,
\* each once and in their order, none missing but the one at work, and as many
\* as the rounds the limit counts (supervisor.go:162).
ResultsAreTheDelegations ==
  /\ state.round = Len(state.results)
  /\ state.results = [i \in 1..state.round |-> ResultOf(asked[i])]
  /\ Len(asked) = state.round + (IF at \in {"delegate", "record"} THEN 1
                                 ELSE IF at = "failed" THEN Len(asked) - state.round ELSE 0)

=============================================================================
