---------------------------- MODULE Composition ----------------------------
(***************************************************************************)
(* The agents that call their children once: agents/sequential, parallel   *)
(* and router, and the adapter of agents/agenttool.  A run is a series of  *)
(* stages, each a set of children that run side by side:                   *)
(*   sequential   one stage for each child, on the response before it      *)
(*   parallel     one stage of all children, then a merge                  *)
(*   router       one stage of the child a selector chose                  *)
(*   tool         one stage of one child between two adapters              *)
(* A value is the list of what worked on it, so that a response tells      *)
(* where it comes from.  The workflow runtime is external: results are     *)
(* committed, but a crash loses those that no checkpoint holds yet.        *)
(***************************************************************************)
EXTENDS Integers, Sequences, SequencesExt, FiniteSets

CONSTANTS
  Children,         \* the children of a directory, in the order of a parallel agent
  Sequence,         \* those of a sequential agent; it may name one more than once
  MaxParallelism,
  Selections,       \* what a Selector may return, "" and unknown names too
  ToolName,         \* the name in the spec of the tool
  CallNames,        \* names in the calls the tool may get
  MaxCrashes,       \* bound on the crashes of one run
  MaxInterrupts     \* bound on the interrupts of one run

ChildNames == ToSet(Children)

Shapes == {"sequential", "parallel", "router", "tool"}

VARIABLES
  shape,
  at,          \* "begin", "stage", "merge", "suspended", or how the run ended
  stage,       \* children of the current stage, in the order of declaration
  given,       \* what each child of the stage is given
  branch,      \* child of the stage -> its status and response
  answer,
  crashes,
  interrupts

vars == <<shape, at, stage, given, branch, answer, crashes, interrupts>>

Ended == {"done", "failed"}
Request == <<"request">>
NoAnswer == <<>>

Start(children) == [c \in ToSet(children) |-> [status |-> "ready", response |-> NoAnswer]]
With(status) == {c \in ToSet(stage) : branch[c].status = status}

Init ==
  /\ shape \in Shapes
  /\ at = "begin"
  /\ stage = <<>>
  /\ given = Request
  /\ branch = Start(<<>>)
  /\ answer = NoAnswer
  /\ crashes = 0
  /\ interrupts = 0

Enter(children, value) ==
  /\ at' = "stage"
  /\ stage' = children
  /\ given' = value
  /\ branch' = Start(children)
  /\ UNCHANGED <<shape, answer, crashes, interrupts>>

End(how, value) ==
  /\ at' = how
  /\ answer' = value
  /\ UNCHANGED <<shape, stage, given, branch, crashes, interrupts>>

-----------------------------------------------------------------------------
(* What comes before the first child *)

BeginSequential ==
  /\ shape = "sequential"
  /\ at = "begin"
  /\ Enter(<<Head(Sequence)>>, given)

\* The plan node gives every child a copy of the request.
BeginParallel ==
  /\ shape = "parallel"
  /\ at = "begin"
  /\ Enter(Children, given)

\* The select node; what was selected is noted in the value.
Select(selection) ==
  /\ shape = "router"
  /\ at = "begin"
  /\ selection \in ChildNames
  /\ Enter(<<selection>>, Append(given, selection))

SelectionRefused(selection) ==
  /\ shape = "router"
  /\ at = "begin"
  /\ selection \notin ChildNames
  /\ End("failed", NoAnswer)

\* Tool.Invoke: validateCall, then Adapter.Input.
AdaptInput(name) ==
  /\ shape = "tool"
  /\ at = "begin"
  /\ name = ToolName
  /\ Enter(<<Head(Children)>>, Append(given, "input"))

CallRefused(name) ==
  /\ shape = "tool"
  /\ at = "begin"
  /\ name # ToolName
  /\ End("failed", NoAnswer)

\* A selector or an adapter fails.
BeginFails == shape \in {"router", "tool"} /\ at = "begin" /\ End("failed", NoAnswer)

-----------------------------------------------------------------------------
(* The children of a stage *)

Update(c, branch1) ==
  /\ branch' = [branch EXCEPT ![c] = branch1]
  /\ UNCHANGED <<shape, at, stage, given, answer, crashes>>

\* A branch starts when a slot is free and no other branch has failed.
StartChild(c) ==
  /\ at = "stage"
  /\ c \in With("ready")
  /\ With("failed") = {}
  /\ Cardinality(With("running")) < MaxParallelism
  /\ Update(c, [branch[c] EXCEPT !.status = "running"])
  /\ UNCHANGED interrupts

ChildReturns(c) ==
  /\ at = "stage"
  /\ c \in With("running")
  /\ Update(c, [status |-> "settled", response |-> Append(given, c)])
  /\ UNCHANGED interrupts

ChildFails(c) ==
  /\ at = "stage"
  /\ c \in With("running")
  /\ Update(c, [branch[c] EXCEPT !.status = "failed"])
  /\ UNCHANGED interrupts

ChildInterrupts(c) ==
  /\ at = "stage"
  /\ c \in With("running")
  /\ interrupts < MaxInterrupts
  /\ interrupts' = interrupts + 1
  /\ Update(c, [branch[c] EXCEPT !.status = "waiting"])

Settled == at = "stage" /\ With("settled") = ToSet(stage)

\* SettleAll: an interrupted stage waits until nothing of it runs.
Suspend ==
  /\ at = "stage"
  /\ With("waiting") # {}
  /\ With("running") \cup With("ready") \cup With("failed") = {}
  /\ at' = "suspended"
  /\ UNCHANGED <<shape, stage, given, branch, answer, crashes, interrupts>>

StageFails ==
  /\ at = "stage"
  /\ With("failed") # {}
  /\ With("running") = {}
  /\ End("failed", NoAnswer)

\* (mutant) the resumed run starts its stage anew
ResumeStage ==
  /\ at = "suspended"
  /\ at' = "stage"
  /\ branch' = Start(stage)
  /\ UNCHANGED <<shape, stage, given, answer, crashes, interrupts>>

\* The caller resumes.  Tool.Invoke runs its input adapter again, which must
\* give what it gave before; the child run goes on.
Resume ==
  /\ at = "suspended"
  /\ at' = "stage"
  /\ branch' = [c \in ToSet(stage) |->
       IF branch[c].status = "waiting" THEN [branch[c] EXCEPT !.status = "ready"] ELSE branch[c]]
  /\ UNCHANGED <<shape, stage, given, answer, crashes, interrupts>>

-----------------------------------------------------------------------------
(* What comes after the children *)

\* The place of the child at work in the sequence: those before it are in what
\* it is given, after the request.
Place == Len(given)

\* requestFromResponse, and the edge to the next child.
NextInSequence ==
  /\ shape = "sequential"
  /\ Settled
  /\ Place < Len(Sequence)
  /\ Enter(<<Sequence[Place + 1]>>, branch[Head(stage)].response)

\* (mutant) the exit is the last child but one
EndSequenceEarly ==
  /\ shape = "sequential"
  /\ Settled
  /\ Place + 1 >= Len(Sequence)
  /\ End("done", branch[Head(stage)].response)

EndSequence ==
  /\ shape = "sequential"
  /\ Settled
  /\ Place = Len(Sequence)
  /\ End("done", branch[Head(stage)].response)

\* The merge node; the reducer is given the results in the order of Children.
Merge ==
  /\ shape = "parallel"
  /\ Settled
  /\ End("done", [i \in DOMAIN stage |-> branch[stage[i]].response])

ReducerFails == shape = "parallel" /\ Settled /\ End("failed", NoAnswer)

EndRoute ==
  /\ shape = "router"
  /\ Settled
  /\ End("done", branch[Head(stage)].response)

\* Adapter.Output.
AdaptOutput ==
  /\ shape = "tool"
  /\ Settled
  /\ End("done", Append(branch[Head(stage)].response, "output"))

OutputFails == shape = "tool" /\ Settled /\ End("failed", NoAnswer)

-----------------------------------------------------------------------------

\* Another process continues from the last checkpoint.
Crash(kept) ==
  /\ at \notin Ended \cup {"suspended"}
  /\ crashes < MaxCrashes
  /\ crashes' = crashes + 1
  /\ branch' = [c \in ToSet(stage) |->
       IF c \in kept \/ branch[c].status = "waiting" THEN branch[c]
       ELSE [status |-> "ready", response |-> NoAnswer]]
  /\ UNCHANGED <<shape, at, stage, given, answer, interrupts>>

NodeStep ==
  \/ BeginSequential \/ BeginParallel \/ BeginFails
  \/ \E selection \in Selections : Select(selection) \/ SelectionRefused(selection)
  \/ \E name \in CallNames : AdaptInput(name) \/ CallRefused(name)
  \/ NextInSequence \/ EndSequence \/ Merge \/ ReducerFails \/ EndRoute \/ AdaptOutput \/ OutputFails
  \/ Suspend \/ StageFails

ChildStep(c) == StartChild(c) \/ ChildReturns(c) \/ ChildFails(c) \/ ChildInterrupts(c)

CrashStep == \E kept \in SUBSET With("settled") : Crash(kept)

Next == NodeStep \/ (\E c \in ChildNames : ChildStep(c)) \/ Resume \/ CrashStep

Spec == Init /\ [][Next]_vars

-----------------------------------------------------------------------------
(* Properties *)

TypeOK ==
  /\ shape \in Shapes
  /\ at \in {"begin", "stage", "suspended"} \cup Ended
  /\ ToSet(stage) \subseteq ChildNames
  /\ DOMAIN branch = ToSet(stage)
  /\ \A c \in DOMAIN branch :
       /\ branch[c].status \in {"ready", "running", "settled", "failed", "waiting"}
       /\ (branch[c].response # NoAnswer) = (branch[c].status = "settled")
  /\ at = "suspended" => With("running") = {}
  /\ Cardinality(With("running")) <= MaxParallelism
  /\ crashes \in 0..MaxCrashes
  /\ interrupts \in 0..MaxInterrupts

\* The children chained in their order; all of them side by side in their
\* order; the one selected; or the child between the two adapters
\* (sequential.go:71, parallel.go:118, router.go:98, agenttool.go:107).
AnswerIsOfShape ==
  at = "done" =>
    answer = CASE shape = "sequential" -> Request \o Sequence
               [] shape = "parallel" -> [i \in DOMAIN Children |-> Append(Request, Children[i])]
               [] shape = "router" -> Request \o <<answer[2], answer[2]>>
               [] shape = "tool" -> Request \o <<"input", Head(Children), "output">>

=============================================================================
