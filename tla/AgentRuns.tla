----------------------------- MODULE AgentRuns -----------------------------
(***************************************************************************)
(* One run of one agent that calls other agents.  Three of them repeat a   *)
(* unit of work until somebody judges it good: planexec executes steps and *)
(* asks a replanner, supervisor delegates and asks a decider, loop calls   *)
(* its child and asks a condition.  The fourth kind calls its children     *)
(* once, in the shapes of Composition.  They share the fairness of the     *)
(* runtime; the three that judge also share the promise JudgedWork.        *)
(***************************************************************************)
EXTENDS PlanExec

CONSTANTS
  Directory, Decisions, MaxRounds,     \* of Supervisor
  Responses, MaxIterations,            \* of LoopAgent
  Children, Sequence, MaxParallelism, Selections, ToolName, CallNames   \* of Composition

VARIABLES
  agent,                         \* the agent that runs
  decision, asked,               \* of Supervisor
  request, response, judged,     \* of LoopAgent
  shape, stage, branch, answer   \* of Composition

ownOfSupervisor == <<decision, asked>>
ownOfLoop == <<request, response, judged>>
ownOfComposition == <<shape, stage, branch, answer>>
agentVars == <<agent, vars, ownOfSupervisor, ownOfLoop, ownOfComposition>>

S == INSTANCE Supervisor
L == INSTANCE LoopAgent
C == INSTANCE Composition

ASSUME SupervisorAssumption ==
  /\ Directory \subseteq STRING \ {""}
  /\ Decisions \subseteq S!Decision
  /\ MaxRounds \in Nat \ {0}

ASSUME LoopAssumption == MaxIterations \in Nat \ {0}

ASSUME CompositionAssumption ==
  /\ Children \in Seq(STRING \ {""})
  /\ Children # <<>>
  /\ \A i, j \in DOMAIN Children : Children[i] = Children[j] => i = j
  /\ Sequence \in Seq(C!ChildNames)
  /\ Sequence # <<>>
  /\ MaxParallelism \in Nat \ {0}

NotSupervisor == decision = S!NoDecision /\ asked = <<>>
NotLoop == request = L!First /\ response = L!First /\ judged = <<>>
NotComposition ==
  shape = "sequential" /\ stage = <<>> /\ branch = C!Start(<<>>) /\ answer = C!NoAnswer

AgentInit ==
  \/ agent = "planexec" /\ Init /\ NotSupervisor /\ NotLoop /\ NotComposition
  \/ agent = "supervisor" /\ S!Init /\ given = NoPlan /\ NotLoop /\ NotComposition
  \/ agent = "loop" /\ L!Init /\ given = NoPlan /\ NotSupervisor /\ NotComposition
  \/ agent = "composition" /\ C!Init /\ state = NoPlan /\ child = "idle" /\ NotSupervisor /\ NotLoop

\* A step of the agent that runs.
StepOf(planStep, supervisorStep, loopStep, compositionStep) ==
  /\ \/ /\ agent = "planexec"
        /\ planStep
        /\ UNCHANGED <<ownOfSupervisor, ownOfLoop, ownOfComposition>>
     \/ /\ agent = "supervisor"
        /\ supervisorStep
        /\ UNCHANGED <<given, ownOfLoop, ownOfComposition>>
     \/ /\ agent = "loop"
        /\ loopStep
        /\ UNCHANGED <<given, ownOfSupervisor, ownOfComposition>>
     \/ /\ agent = "composition"
        /\ compositionStep
        /\ UNCHANGED <<state, child, ownOfSupervisor, ownOfLoop>>
  /\ UNCHANGED agent

AgentNode == StepOf(NodeStep, S!NodeStep, L!NodeStep, C!NodeStep)
AgentChild ==
  StepOf(ChildStep, S!ChildStep, L!ChildStep, \E c \in C!ChildNames : C!ChildStep(c))
\* A loop resumes by its child node.
AgentResume ==
  /\ \/ agent = "planexec" /\ ResumeStep /\ UNCHANGED <<ownOfSupervisor, ownOfComposition>>
     \/ agent = "supervisor" /\ S!ResumeChild /\ UNCHANGED <<given, ownOfComposition>>
     \/ agent = "composition" /\ C!Resume /\ UNCHANGED <<state, child, ownOfSupervisor>>
  /\ UNCHANGED <<agent, ownOfLoop>>
AgentCrash == StepOf(Crash, S!Crash, L!Crash, C!CrashStep)

AgentNext == AgentNode \/ AgentChild \/ AgentResume \/ AgentCrash

\* A ready node runs, a child that runs returns in the end, and a caller
\* resumes what waits for it.
AgentSpec ==
  /\ AgentInit
  /\ [][AgentNext]_agentVars
  /\ WF_agentVars(AgentNode)
  /\ WF_agentVars(AgentChild)
  /\ WF_agentVars(AgentResume)

-----------------------------------------------------------------------------
(* Properties *)

\* What the replanner, the decider and the condition judge, and what the run
\* tells in the end, is what was done, each piece once and in its order, over
\* replacements of the plan, crashes and resumed children (planexec.go:259,
\* supervisor.go:162, loop.go:138).
RecordsAreWhatWasDone ==
  CASE agent = "planexec" -> TypeOK /\ ResultsFollowPlan /\ OneResultPerStep
    [] agent = "supervisor" -> S!TypeOK /\ S!ResultsAreTheDelegations
    [] agent = "loop" -> L!TypeOK /\ L!IterationsAreChained /\ L!AnswerIsWhatStopped
    [] OTHER -> TRUE

\* The answer of a run is what its shape promises, whichever child settled
\* first, failed before, interrupted or was run again (parallel.go:118).
AnswerFollowsShape == agent = "composition" => C!TypeOK /\ C!AnswerIsOfShape

\* Within its stage, which what is given tells, a child whose result was
\* settled does not run again after an interrupt: only a crash may repeat what
\* it did (parallel.go:141).
SettledIsNotRepeated ==
  [][\A c \in DOMAIN branch :
       (given' = given /\ branch[c].status = "settled" /\ c \in DOMAIN branch' /\ branch'[c].status # "settled")
          => crashes' # crashes]_agentVars

\* Every run ends, though the judge may always ask for more, and though one
\* branch of a stage may fail or interrupt beside the others.
RunEnds == <>(at \in Ended)

J == INSTANCE JudgedWork WITH
       left <- CASE agent = "planexec" -> MaxTransitions + 1 - Len(state.results)
                 [] agent = "supervisor" -> MaxRounds - state.round
                 [] agent = "loop" -> MaxIterations - state.iteration
                 [] agent = "composition" -> 0,
       verdict <- CASE agent = "planexec" ->
                         IF at \in Ended \cup {"replan"} THEN "none"
                         ELSE IF state.ready THEN "stop" ELSE "go"
                    [] agent = "supervisor" ->
                         IF at \in {"delegate", "record"} THEN "go"
                         ELSE IF at = "finish" THEN "stop" ELSE "none"
                    [] agent = "loop" ->
                         IF at = "child" THEN "go" ELSE IF at = "finish" THEN "stop" ELSE "none"
                    [] agent = "composition" -> "none",
       outcome <- IF at \in Ended /\ agent # "composition" THEN at ELSE "running"

\* Steps, delegations and iterations are the units of work, and replans,
\* decisions and conditions their judgements: no unit escapes its judgement,
\* none comes after the allowance is used up, and an answer rests on a
\* judgement that saw the last unit, whatever crashes and is resumed between.
\* A composition judges nothing and maps to a run that does not begin.
ImplementsJudgedWork == J!Spec

=============================================================================
