------------------------------ MODULE PlanExec ------------------------------
(***************************************************************************)
(* agents/planexec/planexec.go: plan, execute a step, replan, report.      *)
(*                                                                         *)
(* A node of the workflow commits its output and the State it set in one   *)
(* checkpoint.  The agent a step names runs as a child, which may          *)
(* interrupt, and which a crash of the process leaves to be called again.  *)
(***************************************************************************)
EXTENDS Integers, Sequences

CONSTANTS
  Agents,           \* names in the directory
  Plans,            \* plans a planner or a replanner may return
  MaxTransitions,
  MaxCrashes,       \* bound on the crashes of one run
  MaxInterrupts     \* bound on the interrupts of one run

Statuses == {"", "pending", "completed"}

\* An empty id stands for whichever required field of a step is missing.
Plan == [version : Int, steps : Seq([id : STRING, agent : STRING, status : Statuses])]

NoPlan == [version |-> 0, steps |-> <<>>]

ASSUME PlanExecAssumption ==
  /\ Agents \subseteq STRING
  /\ Plans \subseteq Plan
  /\ MaxTransitions \in Nat \ {0}
  /\ MaxCrashes \in Nat
  /\ MaxInterrupts \in Nat

VARIABLES
  state,       \* State, as last committed; next counts the completed steps
  at,          \* the node that runs next, or how the run ended
  given,       \* the plan or the step the next node was given
  child,       \* the step's agent: "idle", "running", "waiting"
  crashes,
  interrupts

vars == <<state, at, given, child, crashes, interrupts>>

Nodes == {"plan", "accept", "continue", "dispatch", "execute", "record", "replan", "report"}
Ended == {"done", "failed"}

Init ==
  /\ state = [plan |-> NoPlan, next |-> 0, transitions |-> 0, results |-> <<>>, ready |-> FALSE]
  /\ at = "plan"
  /\ given = NoPlan
  /\ child = "idle"
  /\ crashes = 0
  /\ interrupts = 0

Commit(node, next, state1, given1) ==
  /\ at = node
  /\ at' = next
  /\ state' = state1
  /\ given' = given1
  /\ UNCHANGED <<child, crashes, interrupts>>

Fail(node) == Commit(node, "failed", state, given)

CreatePlan == \E plan \in Plans : Commit("plan", "accept", state, plan)

\* Plan.validate and the directory: what acceptPlan checks of any plan.
ValidPlan(plan) ==
  LET steps == plan.steps
  IN  /\ plan.version > 0
      /\ steps # <<>>
      /\ \A i \in DOMAIN steps :
           /\ steps[i].id # ""
           /\ steps[i].status \in {"", "pending"}
           /\ steps[i].agent \in Agents
      /\ \A i, j \in DOMAIN steps : steps[i].id = steps[j].id => i = j

Newer(plan) == state.plan.version = 0 \/ plan.version > state.plan.version

\* accept-plan and accept-replan.
AcceptPlan ==
  /\ at = "accept"
  /\ ValidPlan(given)
  /\ Newer(given)
  /\ Commit("accept", "continue",
       [state EXCEPT !.plan = [given EXCEPT !.steps =
          [i \in DOMAIN given.steps |-> [given.steps[i] EXCEPT !.status = "pending"]]],
                     !.next = 0], NoPlan)

\* (mutant) a stale version is not accepted, but not refused either
RefuseInvalidPlan == at = "accept" /\ ~ValidPlan(given) /\ Fail("accept")

RefusePlan == at = "accept" /\ ~(ValidPlan(given) /\ Newer(given)) /\ Fail("accept")

Exhausted == state.next >= Len(state.plan.steps)

\* (mutant) at the limit the agent reports, though nobody called the plan done
ContinueToReport ==
  IF state.ready \/ state.transitions = MaxTransitions THEN Commit("continue", "report", state, given)
  ELSE Commit("continue", "dispatch", state, given)

Continue ==
  IF state.ready THEN Commit("continue", "report", state, given)
  ELSE IF Exhausted THEN Fail("continue")
  ELSE Commit("continue", "dispatch", state, given)

DispatchStep ==
  IF Exhausted THEN Fail("dispatch")
  ELSE Commit("dispatch", "execute", state, state.plan.steps[state.next + 1])

-----------------------------------------------------------------------------
(* execute-step: stepDispatcher.Invoke *)

InExecute(status) == at = "execute" /\ child = status

StartStep ==
  /\ InExecute("idle")
  /\ child' = "running"
  /\ UNCHANGED <<state, at, given, crashes, interrupts>>

StepCompletes ==
  /\ InExecute("running")
  /\ at' = "record"
  /\ given' = [given EXCEPT !.status = "completed"]
  /\ child' = "idle"
  /\ UNCHANGED <<state, crashes, interrupts>>

StepFails ==
  /\ InExecute("running")
  /\ at' = "failed"
  /\ child' = "idle"
  /\ UNCHANGED <<state, given, crashes, interrupts>>

StepInterrupts ==
  /\ InExecute("running")
  /\ interrupts < MaxInterrupts
  /\ interrupts' = interrupts + 1
  /\ child' = "waiting"
  /\ UNCHANGED <<state, at, given, crashes>>

\* The caller resumes: the same child run goes on.
ResumeStep ==
  /\ InExecute("waiting")
  /\ child' = "running"
  /\ UNCHANGED <<state, at, given, crashes, interrupts>>

-----------------------------------------------------------------------------
(* record-step, replan, report *)

\* A result remembers the version of its plan for the properties.
RecordStep ==
  /\ at = "record"
  /\ IF Exhausted \/ state.plan.steps[state.next + 1].id # given.id THEN Fail("record")
     ELSE Commit("record", "replan",
         [state EXCEPT !.plan.steps[state.next + 1] = given,
                       !.results = Append(@, [version |-> state.plan.version, step |-> given]),
                       !.next = @ + 1], given)

\* The replanner keeps the plan, whose next step is still to be done.
ReplanAgain ==
  /\ state.transitions < MaxTransitions
  /\ ~Exhausted
  /\ Commit("replan", "continue", [state EXCEPT !.transitions = @ + 1, !.ready = FALSE], NoPlan)

ReplanReplaces ==
  /\ state.transitions < MaxTransitions
  /\ \E plan \in Plans :
       Commit("replan", "accept", [state EXCEPT !.transitions = @ + 1, !.ready = FALSE], plan)

ReplanDone ==
  /\ state.transitions < MaxTransitions
  /\ Commit("replan", "continue", [state EXCEPT !.transitions = @ + 1, !.ready = TRUE], NoPlan)

\* The limit, an exhausted plan that is kept, a decision that is both done
\* and a replacement, an error of the replanner.
ReplanFails == Fail("replan")

Report == Commit("report", "done", state, given)

\* The planner, or the reporter, fails.
CallFails == Fail("plan") \/ Fail("report")

-----------------------------------------------------------------------------

\* Another process continues from the last checkpoint.
Crash ==
  /\ at \in Nodes
  /\ crashes < MaxCrashes
  /\ crashes' = crashes + 1
  /\ child' = IF child = "running" THEN "idle" ELSE child
  /\ UNCHANGED <<state, at, given, interrupts>>

NodeStep ==
  \/ CreatePlan \/ AcceptPlan \/ RefusePlan \/ Continue \/ DispatchStep
  \/ StartStep \/ RecordStep
  \/ ReplanAgain \/ ReplanReplaces \/ ReplanDone \/ ReplanFails
  \/ Report \/ CallFails

ChildStep == StepCompletes \/ StepFails \/ StepInterrupts

Next == NodeStep \/ ChildStep \/ ResumeStep \/ Crash

Spec == Init /\ [][Next]_vars

-----------------------------------------------------------------------------
(* Properties *)

TypeOK ==
  /\ state.plan = NoPlan \/ ValidPlan([state.plan EXCEPT !.steps =
       [i \in DOMAIN state.plan.steps |-> [state.plan.steps[i] EXCEPT !.status = "pending"]]])
  /\ state.next \in 0..Len(state.plan.steps)
  /\ state.transitions \in 0..MaxTransitions
  /\ \A i \in DOMAIN state.results : state.results[i].step.status = "completed"
  /\ state.ready \in BOOLEAN
  /\ at \in Nodes \cup Ended
  /\ child \in {"idle", "running", "waiting"}
  /\ child # "idle" => at = "execute"
  /\ crashes \in 0..MaxCrashes
  /\ interrupts \in 0..MaxInterrupts

\* The replanner and the reporter see a plan and results that agree: the
\* completed steps of the plan are exactly its first ones, and the newest
\* results are theirs, in order; the step at work is the first of the others.
\* Replacements, interrupts and crashes between must not part them
\* (planexec.go:259).
ResultsFollowPlan ==
  LET steps == state.plan.steps
      older == Len(state.results) - state.next
  IN  /\ older >= 0
      /\ \A i \in DOMAIN steps :
           steps[i].status = IF i <= state.next THEN "completed" ELSE "pending"
      /\ \A i \in 1..state.next :
           state.results[older + i] = [version |-> state.plan.version, step |-> steps[i]]
      /\ at \in {"execute", "record"} =>
           /\ ~Exhausted
           /\ steps[state.next + 1].id = given.id

\* No step of one version of the plan has two results, however often plans
\* replace each other: a version tells whose result it is (planexec.go:401).
OneResultPerStep ==
  \A i, j \in DOMAIN state.results :
    (/\ state.results[i].version = state.results[j].version
     /\ state.results[i].step.id = state.results[j].step.id) => i = j

=============================================================================
