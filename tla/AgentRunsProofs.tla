-------------------------- MODULE AgentRunsProofs --------------------------
(***************************************************************************)
(* What an agent that runs others records, for every value of the          *)
(* constants.  Each agent has an invariant of its own; AgentInv is that of *)
(* the agent that runs.                                                    *)
(***************************************************************************)
EXTENDS AgentRuns, Recursion, SequenceTheorems

-----------------------------------------------------------------------------
(* PlanExec *)

StepRecord == [id : STRING, agent : STRING, status : Statuses]
ResultRecord == [version : Int, step : StepRecord]
StateRecord ==
  [plan : Plan, next : Nat, transitions : 0..MaxTransitions, results : Seq(ResultRecord), ready : BOOLEAN]

\* What acceptPlan checked holds of the plan, whatever was done of it since.
Sound(plan) ==
  /\ plan.version > 0
  /\ plan.steps # <<>>
  /\ \A i \in DOMAIN plan.steps : plan.steps[i].id # "" /\ plan.steps[i].agent \in Agents
  /\ \A i, j \in DOMAIN plan.steps : plan.steps[i].id = plan.steps[j].id => i = j

PlanTyped ==
  /\ state \in StateRecord
  /\ at \in Nodes \cup Ended
  /\ child \in {"idle", "running", "waiting"}
  /\ child # "idle" => at = "execute"
  /\ crashes \in 0..MaxCrashes
  /\ interrupts \in 0..MaxInterrupts

PlanAccepted == Sound(state.plan) \/ (state.plan = NoPlan /\ state.results = <<>>)

\* The node that runs next was given what it is about.
PlanGiven ==
  /\ at = "accept" => given \in Plans
  /\ at = "execute" => ~Exhausted /\ given = state.plan.steps[state.next + 1]
  /\ at = "record" =>
       ~Exhausted /\ given = [state.plan.steps[state.next + 1] EXCEPT !.status = "completed"]

\* The steps done so far, and their results behind the older ones.
PlanFollowed ==
  LET steps == state.plan.steps
      older == Len(state.results) - state.next
  IN  /\ state.next <= Len(steps)
      /\ older >= 0
      /\ \A i \in 1..Len(steps) : steps[i].status = IF i <= state.next THEN "completed" ELSE "pending"
      /\ \A i \in 1..state.next :
           state.results[older + i] = [version |-> state.plan.version, step |-> steps[i]]
      /\ \A i \in 1..older : state.results[i].version < state.plan.version

PlanResults ==
  /\ \A i \in 1..Len(state.results) : state.results[i].step.status = "completed"
  /\ OneResultPerStep

\* Each result but the newest was judged; the plan is called done in between only.
PlanCounted ==
  /\ at \in Nodes => Len(state.results) = state.transitions + (IF at = "replan" THEN 1 ELSE 0)
  /\ state.ready => at \in {"continue", "report"} \cup Ended
  /\ at = "report" => state.ready

PlanInv ==
  PlanTyped /\ PlanAccepted /\ PlanGiven /\ PlanFollowed /\ PlanResults /\ PlanCounted

-----------------------------------------------------------------------------
(* Supervisor *)

RoundRecord == [child : Directory, request : Nat]

SupervisorTyped ==
  /\ state.round \in 0..MaxRounds
  /\ state = [round |-> state.round, results |-> state.results]
  /\ state.results \in Seq(RoundRecord)
  /\ at \in S!Nodes \cup Ended
  /\ decision \in Decisions \cup {S!NoDecision}
  /\ asked \in Seq(Decisions)
  /\ child \in {"idle", "running", "waiting"}
  /\ child # "idle" => at = "delegate"
  /\ crashes \in 0..MaxCrashes
  /\ interrupts \in 0..MaxInterrupts

\* The decision at work is a delegation within the limit, and was asked last.
SupervisorDelegates ==
  at \in {"delegate", "record"} =>
    /\ decision \in Decisions
    /\ decision.child \in Directory
    /\ state.round < MaxRounds
    /\ asked # <<>>
    /\ decision = asked[Len(asked)]

SupervisorInv == SupervisorTyped /\ SupervisorDelegates /\ S!ResultsAreTheDelegations

-----------------------------------------------------------------------------
(* LoopAgent *)

Message == Responses \cup {L!First}
JudgedRecord == [number : Nat, request : Message, response : Message, decision : L!Decided]
LoopRecord == [iteration : 0..MaxIterations, request : Message]

LoopTyped ==
  /\ state \in LoopRecord
  /\ at \in L!Nodes \cup Ended
  /\ request \in Message
  /\ response \in Message
  /\ child \in {"idle", "running", "waiting"}
  /\ child # "idle" => at = "child"
  /\ judged \in Seq(JudgedRecord)
  /\ crashes \in 0..MaxCrashes
  /\ interrupts \in 0..MaxInterrupts

\* What the next child is asked: the last response that was judged.
NextRequest == IF judged = <<>> THEN L!First ELSE judged[Len(judged)].response

\* Each iteration was judged but the one under way, and all those before it
\* went on.
LoopStages ==
  /\ Len(judged) <= state.iteration
  /\ at = "child" => /\ state.iteration < MaxIterations
                     /\ Len(judged) = state.iteration
                     /\ request = NextRequest
  /\ at = "condition" => /\ state.iteration = Len(judged) + 1
                         /\ state.request = NextRequest
  /\ at \in {"child", "condition"} =>
       \A n \in 1..Len(judged) : judged[n].decision = "continue"
  /\ at \in {"finish", "done"} =>
       /\ judged # <<>>
       /\ judged[Len(judged)].decision = "stop"
       /\ response = judged[Len(judged)].response

LoopInv == LoopTyped /\ LoopStages /\ L!IterationsAreChained

-----------------------------------------------------------------------------
(* Composition *)

\* Who may have worked on a value.
Workers == C!ChildNames \cup {"request", "input"}
Names == Seq(Workers)
BranchRecord == [status : {"ready", "running", "settled", "failed", "waiting"}, response : Names]

\* What a child of the stage has is what it was given and itself, once it is settled.
BranchSound ==
  /\ branch \in [C!ToSet(stage) -> BranchRecord]
  /\ \A c \in C!ToSet(stage) :
       branch[c].response = IF branch[c].status = "settled" THEN Append(given, c) ELSE C!NoAnswer

CompositionTyped ==
  /\ shape \in C!Shapes
  /\ at \in {"begin", "stage", "suspended"} \cup Ended
  /\ stage \in Names
  /\ C!ToSet(stage) \subseteq C!ChildNames
  /\ given \in Names
  /\ crashes \in 0..MaxCrashes
  /\ interrupts \in 0..MaxInterrupts

CompositionSlots ==
  /\ at = "suspended" => C!With("running") = {}
  /\ Cardinality(C!With("running")) <= MaxParallelism

\* Which children the stage has, and who worked on what they are given.
StageGiven ==
  CASE shape = "sequential" ->
         \E k \in 1..Len(Sequence) :
           stage = <<Sequence[k]>> /\ given = C!Request \o SubSeq(Sequence, 1, k - 1)
    [] shape = "parallel" -> stage = Children /\ given = C!Request
    [] shape = "router" ->
         \E c \in C!ChildNames : stage = <<c>> /\ given = <<"request", c>>
    [] shape = "tool" -> stage = <<Head(Children)>> /\ given = <<"request", "input">>

CompositionStages ==
  /\ at = "begin" => given = C!Request /\ stage = <<>>
  /\ at \in {"stage", "suspended"} => StageGiven

CompositionInv ==
  CompositionTyped /\ BranchSound /\ CompositionSlots /\ CompositionStages /\ C!AnswerIsOfShape

-----------------------------------------------------------------------------

AgentInv ==
  \/ agent = "planexec" /\ PlanInv /\ NotComposition
  \/ agent = "supervisor" /\ SupervisorInv /\ NotComposition
  \/ agent = "loop" /\ LoopInv /\ NotComposition
  \/ agent = "composition" /\ CompositionInv

-----------------------------------------------------------------------------
(* What PlanExec keeps *)

\* The set of plans, with a name for that of steps.
LEMMA PlanIs == Plan = [version : Int, steps : Seq(StepRecord)]
BY DEF Plan, StepRecord

\* What a plan is made of.
LEMMA PlanFields ==
  ASSUME NEW p \in Plan
  PROVE /\ p.version \in Int
        /\ p.steps \in Seq(StepRecord)
        /\ Len(p.steps) \in Nat
        /\ DOMAIN p.steps = 1..Len(p.steps)
        /\ \A i \in 1..Len(p.steps) : p.steps[i] \in StepRecord
<1> p \in [version : Int, steps : Seq(StepRecord)]
  BY PlanIs
<1>1. p.version \in Int /\ p.steps \in Seq(StepRecord)
  OBVIOUS
<1>2. Len(p.steps) \in Nat /\ DOMAIN p.steps = 1..Len(p.steps)
      /\ \A i \in 1..Len(p.steps) : p.steps[i] \in StepRecord
  BY <1>1
<1> QED BY <1>1, <1>2

\* No plan is a plan without steps.
LEMMA NoPlanIs == NoPlan \in Plan /\ NoPlan.version = 0 /\ Len(NoPlan.steps) = 0
<1>1. <<>> \in Seq(StepRecord)
  OBVIOUS
<1>2. NoPlan \in [version : Int, steps : Seq(StepRecord)]
  BY <1>1 DEF NoPlan
<1> QED BY <1>2, PlanIs DEF NoPlan

\* What a step is made of.
LEMMA StepFields ==
  ASSUME NEW s \in StepRecord
  PROVE /\ s.id \in STRING /\ s.agent \in STRING /\ s.status \in Statuses
        /\ \A status \in Statuses :
             /\ [s EXCEPT !.status = status] \in StepRecord
             /\ [s EXCEPT !.status = status].id = s.id
             /\ [s EXCEPT !.status = status].agent = s.agent
             /\ [s EXCEPT !.status = status].status = status
BY DEF StepRecord

\* What the State of planexec is made of.
LEMMA StateFields ==
  ASSUME PlanTyped
  PROVE /\ state.plan \in Plan
        /\ state.next \in Nat
        /\ state.transitions \in 0..MaxTransitions
        /\ state.transitions \in Nat
        /\ state.results \in Seq(ResultRecord)
        /\ Len(state.results) \in Nat
        /\ DOMAIN state.results = 1..Len(state.results)
        /\ \A i \in 1..Len(state.results) : state.results[i] \in ResultRecord
        /\ state.ready \in BOOLEAN
<1>1. state \in StateRecord
  BY DEF PlanTyped
<1>2. /\ state.plan \in Plan /\ state.next \in Nat /\ state.transitions \in 0..MaxTransitions
      /\ state.results \in Seq(ResultRecord) /\ state.ready \in BOOLEAN
  BY <1>1 DEF StateRecord
<1>3. /\ Len(state.results) \in Nat /\ DOMAIN state.results = 1..Len(state.results)
      /\ \A i \in 1..Len(state.results) : state.results[i] \in ResultRecord
  BY <1>2
<1> QED BY <1>2, <1>3, PlanExecAssumption

\* What a result is made of.
LEMMA ResultFields ==
  ASSUME NEW r \in ResultRecord
  PROVE r.version \in Int /\ r.step \in StepRecord
BY DEF ResultRecord

\* What the records say rests on the plan, the completed steps and the results only.
LEMMA RecordsKept ==
  ASSUME PlanAccepted, PlanFollowed, PlanResults,
         state'.plan = state.plan, state'.next = state.next, state'.results = state.results
  PROVE PlanAccepted' /\ PlanFollowed' /\ PlanResults'
<1>1. PlanAccepted'
  BY DEF PlanAccepted
<1>2. PlanFollowed'
  BY DEF PlanFollowed
<1>3. PlanResults'
  BY DEF PlanResults, OneResultPerStep
<1> QED BY <1>1, <1>2, <1>3

\* A node that fails leaves the records as they are.
LEMMA FailKeepsPlan ==
  ASSUME PlanInv, NEW node \in Nodes, Fail(node), node = "execute" => child = "idle"
  PROVE PlanInv'
<1> USE DEF Fail, Commit
<1>1. PlanTyped'
  BY DEF PlanInv, PlanTyped, Nodes, Ended
<1>2. PlanGiven' /\ PlanCounted'
  BY DEF PlanInv, PlanGiven, PlanCounted, Nodes, Ended
<1>3. PlanAccepted' /\ PlanFollowed' /\ PlanResults'
  BY RecordsKept DEF PlanInv
<1> QED BY <1>1, <1>2, <1>3 DEF PlanInv

\* The planner's plan is the first, and nothing was done of it.
LEMMA CreateKeepsPlan ==
  ASSUME PlanInv, CreatePlan
  PROVE PlanInv'
<1>1. PICK plan \in Plans : Commit("plan", "accept", state, plan)
  BY DEF CreatePlan
<1>2. PlanTyped'
  BY <1>1 DEF Commit, PlanInv, PlanTyped, Nodes, Ended
<1>3. PlanGiven' /\ PlanCounted'
  BY <1>1 DEF Commit, PlanInv, PlanGiven, PlanCounted, Nodes, Ended
<1>4. PlanAccepted' /\ PlanFollowed' /\ PlanResults'
  BY <1>1, RecordsKept DEF Commit, PlanInv
<1> QED BY <1>2, <1>3, <1>4 DEF PlanInv

\* The workflow goes on to a step, or to the report when the plan is done.
LEMMA ContinueKeepsPlan ==
  ASSUME PlanInv, Continue \/ DispatchStep
  PROVE PlanInv'
<1>1. CASE \E node \in {"continue", "dispatch"} : Fail(node)
  <2>1. PICK node \in {"continue", "dispatch"} : Fail(node)
    BY <1>1
  <2> QED BY <2>1, FailKeepsPlan DEF Nodes
<1>2. CASE state.ready /\ Commit("continue", "report", state, given)
  <2>1. PlanTyped'
    BY <1>2 DEF Commit, PlanInv, PlanTyped, Nodes, Ended
  <2>2. PlanGiven' /\ PlanCounted'
    BY <1>2 DEF Commit, PlanInv, PlanGiven, PlanCounted, Nodes, Ended
  <2>3. PlanAccepted' /\ PlanFollowed' /\ PlanResults'
    BY <1>2, RecordsKept DEF Commit, PlanInv
  <2> QED BY <2>1, <2>2, <2>3 DEF PlanInv
<1>3. CASE ~state.ready /\ ~Exhausted /\ Commit("continue", "dispatch", state, given)
  <2>1. PlanTyped'
    BY <1>3 DEF Commit, PlanInv, PlanTyped, Nodes, Ended
  <2>2. PlanGiven' /\ PlanCounted'
    BY <1>3 DEF Commit, PlanInv, PlanGiven, PlanCounted, Nodes, Ended
  <2>3. PlanAccepted' /\ PlanFollowed' /\ PlanResults'
    BY <1>3, RecordsKept DEF Commit, PlanInv
  <2> QED BY <2>1, <2>2, <2>3 DEF PlanInv
<1>4. CASE ~Exhausted /\ Commit("dispatch", "execute", state, state.plan.steps[state.next + 1])
  <2>1. PlanTyped'
    BY <1>4 DEF Commit, PlanInv, PlanTyped, Nodes, Ended
  <2>2. PlanGiven' /\ PlanCounted'
    BY <1>4 DEF Commit, PlanInv, PlanGiven, PlanCounted, Nodes, Ended, Exhausted
  <2>3. PlanAccepted' /\ PlanFollowed' /\ PlanResults'
    BY <1>4, RecordsKept DEF Commit, PlanInv
  <2> QED BY <2>1, <2>2, <2>3 DEF PlanInv
<1> QED BY <1>1, <1>2, <1>3, <1>4 DEF Continue, DispatchStep

\* The agent of a step starts, completes, fails, interrupts, is resumed or
\* lost, and leaves the State to the node after it.
LEMMA ChildKeepsPlan ==
  ASSUME PlanInv, StartStep \/ StepCompletes \/ StepFails \/ StepInterrupts \/ ResumeStep \/ Crash
  PROVE PlanInv'
<1> USE DEF StartStep, StepCompletes, StepFails, StepInterrupts, ResumeStep, Crash, InExecute
<1>1. PlanTyped'
  <2>1. crashes \in 0..MaxCrashes /\ interrupts \in 0..MaxInterrupts /\ MaxCrashes \in Nat /\ MaxInterrupts \in Nat
    BY PlanExecAssumption DEF PlanInv, PlanTyped
  <2>2. crashes' \in 0..MaxCrashes /\ interrupts' \in 0..MaxInterrupts
    BY <2>1
  <2>3. at' \in Nodes \cup Ended /\ child' \in {"idle", "running", "waiting"} /\ (child' # "idle" => at' = "execute")
    BY DEF PlanInv, PlanTyped, Nodes, Ended
  <2> QED BY <2>2, <2>3 DEF PlanInv, PlanTyped
<1>2. PlanGiven'
  BY DEF PlanInv, PlanGiven, Exhausted
<1>3. PlanCounted'
  BY DEF PlanInv, PlanCounted, Nodes, Ended
<1>4. PlanAccepted' /\ PlanFollowed' /\ PlanResults'
  BY RecordsKept DEF PlanInv
<1> QED BY <1>1, <1>2, <1>3, <1>4 DEF PlanInv

\* A plan that is accepted is sound, and so is every plan made of its steps.
LEMMA AcceptedIsSound ==
  ASSUME NEW p \in Plan, ValidPlan(p)
  PROVE Sound(p)
BY PlanFields, StepFields DEF ValidPlan, Sound

\* The steps of an accepted plan, none of them done.
LEMMA PendingSteps ==
  ASSUME NEW p \in Plan, NEW q,
         q = [p EXCEPT !.steps = [i \in DOMAIN p.steps |-> [p.steps[i] EXCEPT !.status = "pending"]]]
  PROVE /\ q \in Plan
        /\ q.version = p.version
        /\ Len(q.steps) = Len(p.steps)
        /\ \A i \in 1..Len(p.steps) :
             /\ q.steps[i].id = p.steps[i].id
             /\ q.steps[i].agent = p.steps[i].agent
             /\ q.steps[i].status = "pending"
<1> DEFINE s == [i \in DOMAIN p.steps |-> [p.steps[i] EXCEPT !.status = "pending"]]
           n == Len(p.steps)
<1>1. n \in Nat /\ DOMAIN p.steps = 1..n /\ \A i \in 1..n : p.steps[i] \in StepRecord
  BY PlanFields
<1>2. "pending" \in Statuses
  BY DEF Statuses
<1>3. \A i \in 1..n :
        /\ s[i] \in StepRecord
        /\ s[i].id = p.steps[i].id
        /\ s[i].agent = p.steps[i].agent
        /\ s[i].status = "pending"
  BY <1>1, <1>2, StepFields
<1>4. DOMAIN s = 1..n
  BY <1>1
<1>5. s \in [1..n -> StepRecord]
  BY <1>1, <1>3, <1>4
<1> HIDE DEF s
<1>6. s \in Seq(StepRecord) /\ Len(s) = n
  BY <1>1, <1>5
<1>7. q = [p EXCEPT !.steps = s]
  BY DEF s
<1>8. q \in Plan /\ q.steps = s /\ q.version = p.version
  <2>1. p \in [version : Int, steps : Seq(StepRecord)]
    BY PlanIs
  <2>2. q \in [version : Int, steps : Seq(StepRecord)] /\ q.steps = s /\ q.version = p.version
    BY <1>6, <1>7, <2>1
  <2> QED BY <2>2, PlanIs
<1> QED BY <1>3, <1>6, <1>8

\* A plan stays sound as long as version, agents and identifiers do.
LEMMA SoundKept ==
  ASSUME NEW p \in Plan, NEW q \in Plan, Sound(p), q.version = p.version, Len(q.steps) = Len(p.steps),
         \A i \in 1..Len(p.steps) : q.steps[i].id = p.steps[i].id /\ q.steps[i].agent = p.steps[i].agent
  PROVE Sound(q)
<1>1. /\ DOMAIN p.steps = 1..Len(p.steps) /\ DOMAIN q.steps = 1..Len(q.steps)
      /\ p.steps \in Seq(StepRecord) /\ q.steps \in Seq(StepRecord)
  BY PlanFields
<1>2. p.steps # <<>>
  BY DEF Sound
<1>3. q.steps # <<>>
  BY <1>1, <1>2, EmptySeq
<1> QED BY <1>1, <1>3 DEF Sound

\* accept-plan and accept-replan: all results become older ones, of lower versions.
LEMMA AcceptKeepsPlan ==
  ASSUME PlanInv, AcceptPlan
  PROVE PlanInv'
<1> DEFINE p == state'.plan
           n == Len(state.results)
<1>1. /\ at = "accept" /\ at' = "continue" /\ given \in Plans /\ given \in Plan /\ ValidPlan(given)
      /\ state \in StateRecord /\ Newer(given)
      /\ child' = child /\ crashes' = crashes /\ interrupts' = interrupts /\ given' = NoPlan
  BY PlanExecAssumption DEF AcceptPlan, Commit, PlanInv, PlanTyped, PlanGiven
<1>2. /\ state' = [state EXCEPT !.plan = p, !.next = 0]
      /\ p = [given EXCEPT !.steps = [i \in DOMAIN given.steps |-> [given.steps[i] EXCEPT !.status = "pending"]]]
  BY <1>1 DEF AcceptPlan, Commit, StateRecord
<1>3. /\ p \in Plan /\ p.version = given.version /\ Len(p.steps) = Len(given.steps)
      /\ \A i \in 1..Len(p.steps) :
           /\ p.steps[i].id = given.steps[i].id
           /\ p.steps[i].agent = given.steps[i].agent
           /\ p.steps[i].status = "pending"
  <2> HIDE DEF p
  <2> QED BY <1>1, <1>2, PendingSteps
<1>4. Sound(p)
  <2>1. Sound(given)
    BY <1>1, AcceptedIsSound
  <2> HIDE DEF p
  <2> QED BY <1>1, <1>3, <2>1, SoundKept
<1>5. /\ state' \in StateRecord /\ state'.next = 0 /\ state'.results = state.results
      /\ state'.transitions = state.transitions /\ state'.ready = state.ready
  <2> HIDE DEF p
  <2> QED BY <1>1, <1>2, <1>3 DEF StateRecord
<1> HIDE DEF p
<1>6. \A i \in 1..n : state.results[i].version < p.version
  <2>1. CASE state.plan = NoPlan /\ state.results = <<>>
    BY <2>1
  <2>2. CASE Sound(state.plan)
    <3>1. state.plan.version \in Int /\ p.version \in Int /\ state.plan.version < p.version
      <4>1. state.plan \in Plan
        BY StateFields DEF PlanInv
      <4>2. state.plan.version \in Int /\ p.version \in Int
        BY <1>3, <4>1, PlanFields
      <4>3. state.plan.version > 0
        BY <2>2 DEF Sound
      <4>4. state.plan.version = 0 \/ p.version > state.plan.version
        BY <1>1, <1>3 DEF Newer
      <4> QED BY <4>2, <4>3, <4>4
    <3>2. ASSUME NEW i \in 1..n PROVE state.results[i].version <= state.plan.version
      <4>1. n \in Nat /\ state.next \in Nat /\ n - state.next >= 0
        BY StateFields DEF PlanInv, PlanFollowed
      <4>2. CASE i <= n - state.next
        <5>1. i \in 1..(n - state.next) /\ state.results[i].version \in Int
          BY <4>1, <4>2, StateFields, ResultFields DEF PlanInv
        <5> QED BY <5>1, <3>1 DEF PlanInv, PlanFollowed
      <4>3. CASE i > n - state.next
        <5> DEFINE j == i - (n - state.next)
        <5>1. j \in 1..state.next /\ (n - state.next) + j = i
          BY <4>1, <4>3
        <5> HIDE DEF j
        <5>2. state.results[(n - state.next) + j] = [version |-> state.plan.version, step |-> state.plan.steps[j]]
          BY <5>1 DEF PlanInv, PlanFollowed
        <5> QED BY <5>1, <5>2, <3>1
      <4> QED BY <4>1, <4>2, <4>3
    <3> QED BY <3>1, <3>2, StateFields, ResultFields DEF PlanInv
  <2> QED BY <2>1, <2>2 DEF PlanInv, PlanAccepted
<1>7. PlanTyped'
  BY <1>1, <1>5 DEF PlanInv, PlanTyped, Nodes
<1>8. PlanGiven' /\ PlanAccepted'
  BY <1>1, <1>4 DEF PlanGiven, PlanAccepted, p
<1>9. PlanFollowed'
  <2>1. n \in Nat /\ Len(p.steps) \in Nat
    BY <1>3, PlanFields, StateFields DEF PlanInv
  <2>2. \A i \in 1..Len(p.steps) : p.steps[i].status = IF i <= 0 THEN "completed" ELSE "pending"
    BY <1>3, <2>1
  <2>3. /\ state'.plan = p /\ Len(state'.results) = n /\ n - 0 = n
        /\ \A i \in 1..(n - 0) : state'.results[i].version < p.version
    BY <1>5, <1>6, <2>1 DEF p
  <2>4. \A i \in 1..0 : FALSE
    OBVIOUS
  <2> QED BY <1>5, <2>1, <2>2, <2>3, <2>4 DEF PlanFollowed
<1>10. PlanResults' /\ PlanCounted'
  BY <1>1, <1>5 DEF PlanInv, PlanResults, OneResultPerStep, PlanCounted, Nodes, Ended
<1> QED BY <1>7, <1>8, <1>9, <1>10 DEF PlanInv

\* What lies behind the first n - k of n elements.
LEMMA Behind ==
  ASSUME NEW n \in Nat, NEW k \in Nat, n - k >= 0, NEW i \in 1..n
  PROVE /\ i <= n - k => i \in 1..(n - k)
        /\ ~(i <= n - k) => i - (n - k) \in 1..k /\ (n - k) + (i - (n - k)) = i
        /\ \A j \in 1..(n - k) : j \in 1..n
OBVIOUS

\* The last k of n elements.
LEMMA Within ==
  ASSUME NEW n \in Nat, NEW k \in Nat, n - k \in Nat, NEW i \in 1..k
  PROVE (n - k) + i \in 1..n
OBVIOUS

\* One element more.
LEMMA OneMore ==
  ASSUME NEW n \in Nat
  PROVE /\ \A k \in Nat : (n + 1) - (k + 1) = n - k
        /\ \A i \in 1..(n + 1) : i = n + 1 \/ i \in 1..n
OBVIOUS

\* The newest result is not of an older plan, nor of a step done before.
LEMMA ResultIsNew ==
  ASSUME PlanInv, ~Exhausted, NEW i \in 1..Len(state.results),
         state.results[i].version = state.plan.version
  PROVE state.results[i].step.id # state.plan.steps[state.next + 1].id
<1> DEFINE older == Len(state.results) - state.next
           j == i - older
<1>1. /\ state.next \in Nat /\ Len(state.results) \in Nat /\ older >= 0 /\ older \in Nat
      /\ state.plan \in Plan
  BY StateFields DEF PlanInv, PlanFollowed
<1>2. state.plan.version \in Int /\ state.results[i].version \in Int
  BY <1>1, StateFields, ResultFields, PlanFields DEF PlanInv
<1>3. ~(i <= older)
  <2>1. i <= older => i \in 1..older
    BY <1>1
  <2>2. i \in 1..older => state.results[i].version < state.plan.version
    BY DEF PlanInv, PlanFollowed
  <2> QED BY <1>2, <2>1, <2>2
<1>4. j \in 1..state.next /\ older + j = i
  BY ONLY <1>1, <1>3, i \in 1..Len(state.results), Behind
<1>5. state.results[older + j] = [version |-> state.plan.version, step |-> state.plan.steps[j]]
  BY <1>4 DEF PlanInv, PlanFollowed
<1>6. state.results[i].step = state.plan.steps[j]
  BY <1>4, <1>5
<1>7. Sound(state.plan)
  <2>1. state.results # <<>>
    BY <1>1
  <2> QED BY <2>1 DEF PlanInv, PlanAccepted
<1>8. Len(state.plan.steps) \in Nat /\ DOMAIN state.plan.steps = 1..Len(state.plan.steps)
  BY <1>1, PlanFields
<1>9. state.next + 1 \in DOMAIN state.plan.steps /\ j \in DOMAIN state.plan.steps /\ j # state.next + 1
  <2>1. state.next < Len(state.plan.steps)
    BY <1>1, <1>8 DEF Exhausted
  <2> HIDE DEF j
  <2>2. j \in Nat /\ 1 <= j /\ j <= state.next
    BY <1>1, <1>4
  <2> QED BY ONLY <1>1, <1>8, <2>1, <2>2
<1> QED BY <1>6, <1>7, <1>9 DEF Sound

\* record-step: the step at work is completed, and its result is the newest.
LEMMA RecordKeepsPlan ==
  ASSUME PlanInv, RecordStep
  PROVE PlanInv'
<1>1. CASE Fail("record")
  BY <1>1, FailKeepsPlan DEF Nodes
<1>2. CASE ~Exhausted /\ state.plan.steps[state.next + 1].id = given.id /\ ~Fail("record")
  <2> DEFINE k == state.next + 1
             p == state.plan
             q == [p EXCEPT !.steps[k] = given]
             r == [version |-> p.version, step |-> given]
             n == Len(state.results)
             older == n - state.next
  <2>1. /\ at = "record" /\ at' = "replan" /\ given' = given
        /\ child' = child /\ crashes' = crashes /\ interrupts' = interrupts
        /\ state' = [state EXCEPT !.plan = q, !.results = Append(@, r), !.next = k]
    BY <1>2 DEF RecordStep, Commit
  <2>2. /\ state \in StateRecord /\ p \in Plan /\ p.steps \in Seq(StepRecord) /\ Len(p.steps) \in Nat
        /\ state.next \in Nat /\ n \in Nat /\ older \in Nat /\ state.results \in Seq(ResultRecord)
        /\ state.transitions \in Nat /\ p.version \in Int
    <3>1. PlanTyped /\ older >= 0
      BY DEF PlanInv, PlanFollowed
    <3>2. state \in StateRecord
      BY <3>1 DEF PlanTyped
    <3> QED BY <3>1, <3>2, StateFields, PlanFields
  <2>3. k \in 1..Len(p.steps) /\ k \in Nat /\ p.steps[k] \in StepRecord
    <3>1. k \in 1..Len(p.steps) /\ k \in Nat
      BY <1>2, <2>2 DEF Exhausted
    <3> QED BY <2>2, <3>1
  <2>4. /\ given \in StepRecord /\ given.status = "completed"
        /\ given.id = p.steps[k].id /\ given.agent = p.steps[k].agent
    <3>1. given = [p.steps[k] EXCEPT !.status = "completed"]
      BY <2>1 DEF PlanInv, PlanGiven
    <3>2. "completed" \in Statuses
      BY DEF Statuses
    <3> QED BY <2>3, <3>1, <3>2, StepFields
  <2>5. /\ q \in Plan /\ q.version = p.version /\ Len(q.steps) = Len(p.steps)
        /\ q.steps[k] = given
        /\ \A i \in 1..Len(p.steps) : i # k => q.steps[i] = p.steps[i]
    <3>1. p \in [version : Int, steps : Seq(StepRecord)]
      BY <2>2, PlanIs
    <3>2. q = [p EXCEPT !.steps = [p.steps EXCEPT ![k] = given]]
      BY <3>1
    <3> DEFINE s == [p.steps EXCEPT ![k] = given]
    <3>3. /\ s \in Seq(StepRecord) /\ Len(s) = Len(p.steps) /\ s[k] = given
          /\ \A i \in 1..Len(p.steps) : i # k => s[i] = p.steps[i]
      BY <2>2, <2>3, <2>4
    <3> HIDE DEF s
    <3>4. q = [p EXCEPT !.steps = s]
      BY <3>2 DEF s
    <3> HIDE DEF q
    <3>5. q \in [version : Int, steps : Seq(StepRecord)] /\ q.steps = s /\ q.version = p.version
      BY <3>1, <3>3, <3>4
    <3> QED BY <3>3, <3>5, PlanIs
  <2>6. r \in ResultRecord /\ r.version = p.version /\ r.step = given
    BY <2>2, <2>4 DEF ResultRecord
  <2> HIDE DEF q, r
  <2>7. /\ state' \in StateRecord /\ state'.plan = q /\ state'.next = k
        /\ state'.results = Append(state.results, r)
        /\ state'.transitions = state.transitions /\ state'.ready = state.ready
    <3>1. Append(state.results, r) \in Seq(ResultRecord)
      BY <2>2, <2>6
    <3> QED BY <2>1, <2>2, <2>3, <2>5, <3>1 DEF StateRecord
  <2>8. /\ Len(state'.results) = n + 1
        /\ state'.results[n + 1] = r
        /\ \A i \in 1..n : state'.results[i] = state.results[i]
        /\ DOMAIN state'.results = 1..(n + 1)
    BY <2>2, <2>6, <2>7
  <2>9. Sound(q)
    <3>1. Sound(p)
      <4>1. p # NoPlan
        BY <2>2, <2>3, NoPlanIs
      <4> QED BY <4>1 DEF PlanInv, PlanAccepted
    <3>2. \A i \in 1..Len(p.steps) : q.steps[i].id = p.steps[i].id /\ q.steps[i].agent = p.steps[i].agent
      BY <2>4, <2>5
    <3> QED BY <2>2, <2>5, <3>1, <3>2, SoundKept
  <2>10. PlanTyped'
    BY <2>1, <2>7 DEF PlanInv, PlanTyped, Nodes
  <2>11. PlanGiven' /\ PlanAccepted'
    BY <2>1, <2>7, <2>9 DEF PlanGiven, PlanAccepted
  <2>12. PlanFollowed'
    <3>1. /\ \A i \in 1..Len(p.steps) : p.steps[i].status = IF i <= state.next THEN "completed" ELSE "pending"
          /\ \A i \in 1..state.next : state.results[older + i] = [version |-> p.version, step |-> p.steps[i]]
          /\ \A i \in 1..older : state.results[i].version < p.version
      BY DEF PlanInv, PlanFollowed
    <3>2. /\ k <= Len(q.steps) /\ (n + 1) - k = older /\ older >= 0
      <4>1. k <= Len(q.steps)
        BY <2>2, <2>3, <2>5
      <4>2. (n + 1) - k = older
        BY <2>2, OneMore
      <4>3. older >= 0
        BY ONLY <2>2
      <4> QED BY <4>1, <4>2, <4>3
    <3>3. \A i \in 1..Len(q.steps) : q.steps[i].status = IF i <= k THEN "completed" ELSE "pending"
      <4> SUFFICES ASSUME NEW i \in 1..Len(p.steps)
                   PROVE q.steps[i].status = IF i <= k THEN "completed" ELSE "pending"
        BY <2>5
      <4>1. CASE i = k
        BY <2>2, <2>4, <2>5, <4>1
      <4>2. CASE i # k
        <5>1. q.steps[i].status = IF i <= state.next THEN "completed" ELSE "pending"
          BY <2>5, <3>1, <4>2
        <5>2. i <= k <=> i <= state.next
          BY <2>2, <4>2
        <5> QED BY <5>1, <5>2
      <4> QED BY <4>1, <4>2
    <3>4. \A i \in 1..k : state'.results[older + i] = [version |-> q.version, step |-> q.steps[i]]
      <4> SUFFICES ASSUME NEW i \in 1..k
                   PROVE state'.results[older + i] = [version |-> p.version, step |-> q.steps[i]]
        BY <2>5
      <4>1. CASE i = k
        <5>1. older + i = n + 1
          BY <2>2, <4>1
        <5> QED BY <2>5, <2>8, <4>1, <5>1 DEF r
      <4>2. CASE i # k
        <5>1. i \in 1..state.next /\ older + i \in 1..n /\ i \in 1..Len(p.steps)
          <6>1. i \in 1..state.next /\ i \in 1..Len(p.steps)
            BY <2>2, <2>3, <4>2
          <6>2. older + i \in 1..n
            BY <2>2, <6>1, Within
          <6> QED BY <6>1, <6>2
        <5>2. state'.results[older + i] = state.results[older + i]
          BY <2>8, <5>1
        <5> QED BY <2>5, <3>1, <4>2, <5>1, <5>2
      <4> QED BY <4>1, <4>2
    <3>5. \A i \in 1..older : state'.results[i].version < q.version
      <4> SUFFICES ASSUME NEW i \in 1..older PROVE state'.results[i].version < p.version
        BY <2>5
      <4>1. i \in 1..n
        BY ONLY i \in 1..older, <2>2
      <4> QED BY <2>8, <3>1, <4>1
    <3> QED BY <2>7, <2>8, <3>2, <3>3, <3>4, <3>5 DEF PlanFollowed
  <2>13. PlanResults'
    <3>1. /\ \A i \in 1..n : state.results[i].step.status = "completed"
          /\ OneResultPerStep /\ DOMAIN state.results = 1..n
      BY <2>2 DEF PlanInv, PlanResults
    <3>2. \A i \in 1..(n + 1) : state'.results[i].step.status = "completed"
      <4> SUFFICES ASSUME NEW i \in 1..(n + 1) PROVE state'.results[i].step.status = "completed"
        OBVIOUS
      <4>1. i = n + 1 \/ i \in 1..n
        BY <2>2, OneMore
      <4> QED BY <2>4, <2>6, <2>8, <3>1, <4>1
    <3>3. ASSUME NEW i \in 1..n
          PROVE ~(state.results[i].version = p.version /\ state.results[i].step.id = given.id)
      BY <1>2, <2>4, ResultIsNew
    <3>4. OneResultPerStep'
      <4> SUFFICES ASSUME NEW i \in 1..(n + 1), NEW j \in 1..(n + 1),
                          state'.results[i].version = state'.results[j].version,
                          state'.results[i].step.id = state'.results[j].step.id
                   PROVE i = j
        BY <2>8 DEF OneResultPerStep
      <4>1. (i = n + 1 \/ i \in 1..n) /\ (j = n + 1 \/ j \in 1..n)
        BY <2>2, OneMore
      <4>2. CASE i \in 1..n /\ j \in 1..n
        BY <2>8, <3>1, <4>2 DEF OneResultPerStep
      <4>3. CASE i \in 1..n /\ j = n + 1
        BY <2>6, <2>8, <3>3, <4>3
      <4>4. CASE i = n + 1 /\ j \in 1..n
        BY <2>6, <2>8, <3>3, <4>4
      <4> QED BY <4>1, <4>2, <4>3, <4>4
    <3> QED BY <2>8, <3>2, <3>4 DEF PlanResults
  <2>14. PlanCounted'
    <3>1. n = state.transitions /\ ~state.ready
      BY <2>1, <2>2 DEF PlanInv, PlanCounted, Nodes, Ended
    <3> QED BY <2>1, <2>2, <2>7, <2>8, <3>1 DEF PlanCounted
  <2> QED BY <2>10, <2>11, <2>12, <2>13, <2>14 DEF PlanInv
<1> QED BY <1>1, <1>2 DEF RecordStep

\* replan: the newest result is judged, and the records stay.
LEMMA ReplanKeepsPlan ==
  ASSUME PlanInv, ReplanAgain \/ ReplanReplaces \/ ReplanDone
  PROVE PlanInv'
<1>1. /\ at = "replan" /\ state.transitions < MaxTransitions
      /\ child' = child /\ crashes' = crashes /\ interrupts' = interrupts
  BY DEF ReplanAgain, ReplanReplaces, ReplanDone, Commit
<1>2. PICK ready \in BOOLEAN : state' = [state EXCEPT !.transitions = @ + 1, !.ready = ready]
      /\ \/ at' = "continue"
         \/ at' = "accept" /\ ~ready /\ given' \in Plans
  BY DEF ReplanAgain, ReplanReplaces, ReplanDone, Commit
<1>3. state \in StateRecord /\ state.transitions \in Nat /\ MaxTransitions \in Nat /\ Len(state.results) \in Nat
  BY PlanExecAssumption, StateFields DEF PlanInv, PlanTyped
<1>4. /\ state' \in StateRecord /\ state'.plan = state.plan /\ state'.next = state.next
      /\ state'.results = state.results /\ state'.transitions = state.transitions + 1 /\ state'.ready = ready
  <2>1. state.transitions + 1 \in 0..MaxTransitions
    BY <1>1, <1>3
  <2> QED BY <1>2, <1>3, <2>1 DEF StateRecord
<1>5. PlanTyped'
  BY <1>1, <1>2, <1>4 DEF PlanInv, PlanTyped, Nodes
<1>6. PlanGiven'
  BY <1>2 DEF PlanGiven
<1>7. PlanCounted'
  BY <1>1, <1>2, <1>3, <1>4 DEF PlanInv, PlanCounted, Nodes, Ended
<1>8. PlanAccepted' /\ PlanFollowed' /\ PlanResults'
  BY <1>4, RecordsKept DEF PlanInv
<1> QED BY <1>5, <1>6, <1>7, <1>8 DEF PlanInv

\* The report ends the run.
LEMMA ReportKeepsPlan ==
  ASSUME PlanInv, Report
  PROVE PlanInv'
<1> USE DEF Report, Commit
<1>1. PlanTyped'
  BY DEF PlanInv, PlanTyped, Nodes, Ended
<1>2. PlanGiven' /\ PlanCounted'
  BY DEF PlanInv, PlanGiven, PlanCounted, Nodes, Ended
<1>3. PlanAccepted' /\ PlanFollowed' /\ PlanResults'
  BY RecordsKept DEF PlanInv
<1> QED BY <1>1, <1>2, <1>3 DEF PlanInv

\* Every step of planexec keeps its invariant.
LEMMA PlanInvKept ==
  ASSUME PlanInv, NodeStep \/ ChildStep \/ ResumeStep \/ Crash
  PROVE PlanInv'
<1>1. CASE RefusePlan \/ ReplanFails \/ CallFails
  BY <1>1, FailKeepsPlan DEF RefusePlan, ReplanFails, CallFails, Nodes
<1> QED BY <1>1, CreateKeepsPlan, AcceptKeepsPlan, ContinueKeepsPlan, ChildKeepsPlan, RecordKeepsPlan,
           ReplanKeepsPlan, ReportKeepsPlan DEF NodeStep, ChildStep

\* A run of planexec begins with nothing recorded.
LEMMA PlanInvBegins ==
  ASSUME Init
  PROVE PlanInv
<1> USE DEF Init
<1>1. state \in StateRecord
  <2>1. <<>> \in Seq(ResultRecord) /\ NoPlan \in Plan /\ MaxTransitions \in Nat
    BY NoPlanIs, PlanExecAssumption
  <2> QED BY <2>1 DEF StateRecord
<1>2. state.plan = NoPlan /\ state.next = 0 /\ state.transitions = 0 /\ state.results = <<>> /\ ~state.ready
  OBVIOUS
<1>3. PlanTyped
  BY <1>1, PlanExecAssumption DEF PlanTyped, Nodes
<1>4. PlanAccepted /\ PlanGiven
  BY <1>2 DEF PlanAccepted, PlanGiven
<1>5. PlanFollowed
  <2>1. Len(state.plan.steps) = 0 /\ Len(state.results) = 0
    BY <1>2, NoPlanIs
  <2> QED BY <1>2, <2>1 DEF PlanFollowed
<1>6. PlanResults /\ PlanCounted
  BY <1>2 DEF PlanResults, OneResultPerStep, PlanCounted, Nodes, Ended
<1> QED BY <1>3, <1>4, <1>5, <1>6 DEF PlanInv

\* The invariant has the records the replanner and the reporter are given.
LEMMA PlanRecords ==
  ASSUME PlanInv
  PROVE TypeOK /\ ResultsFollowPlan /\ OneResultPerStep
<1> DEFINE p == state.plan
           q == [p EXCEPT !.steps = [i \in DOMAIN p.steps |-> [p.steps[i] EXCEPT !.status = "pending"]]]
           n == Len(state.results)
<1>1. /\ p \in Plan /\ state.next \in Nat /\ state.transitions \in 0..MaxTransitions
      /\ state.ready \in BOOLEAN /\ n \in Nat /\ DOMAIN state.results = 1..n
  BY StateFields DEF PlanInv
<1>2. Len(p.steps) \in Nat /\ DOMAIN p.steps = 1..Len(p.steps)
  BY <1>1, PlanFields
<1>3. p = NoPlan \/ ValidPlan(q)
  <2> SUFFICES ASSUME Sound(p) PROVE ValidPlan(q)
    BY DEF PlanInv, PlanAccepted
  <2>1. /\ q \in Plan /\ q.version = p.version /\ Len(q.steps) = Len(p.steps)
        /\ \A i \in 1..Len(p.steps) :
             /\ q.steps[i].id = p.steps[i].id
             /\ q.steps[i].agent = p.steps[i].agent
             /\ q.steps[i].status = "pending"
    BY <1>1, PendingSteps
  <2> HIDE DEF q
  <2>2. Sound(q)
    BY <1>1, <2>1, SoundKept
  <2>3. DOMAIN q.steps = 1..Len(p.steps)
    BY <2>1, PlanFields
  <2> QED BY <2>1, <2>2, <2>3 DEF ValidPlan, Sound
<1>4. TypeOK
  <2>1. state.next \in 0..Len(p.steps)
    BY <1>1, <1>2 DEF PlanInv, PlanFollowed
  <2>2. \A i \in DOMAIN state.results : state.results[i].step.status = "completed"
    BY <1>1 DEF PlanInv, PlanResults
  <2> HIDE DEF q
  <2>3. p = NoPlan \/ ValidPlan([p EXCEPT !.steps =
          [i \in DOMAIN p.steps |-> [p.steps[i] EXCEPT !.status = "pending"]]])
    BY <1>3 DEF q
  <2> QED BY <1>1, <2>1, <2>2, <2>3 DEF TypeOK, PlanInv, PlanTyped
<1>5. ResultsFollowPlan
  <2>1. at \in {"execute", "record"} => ~Exhausted /\ p.steps[state.next + 1].id = given.id
    <3>1. CASE at = "execute"
      BY <3>1 DEF PlanInv, PlanGiven
    <3>2. CASE at = "record"
      <4>1. ~Exhausted /\ given = [p.steps[state.next + 1] EXCEPT !.status = "completed"]
        BY <3>2 DEF PlanInv, PlanGiven
      <4>2. state.next + 1 \in 1..Len(p.steps)
        BY <1>1, <1>2, <4>1 DEF Exhausted
      <4>3. p.steps[state.next + 1] \in StepRecord /\ "completed" \in Statuses
        BY <1>1, <4>2, PlanFields DEF Statuses
      <4> QED BY <4>1, <4>3, StepFields
    <3> QED BY <3>1, <3>2
  <2> QED BY <1>2, <2>1 DEF ResultsFollowPlan, PlanInv, PlanFollowed
<1> QED BY <1>4, <1>5 DEF PlanInv, PlanResults

-----------------------------------------------------------------------------
(* What Supervisor keeps *)

\* What a supervisor is constructed with.
LEMMA SupervisorConstants == Decisions \subseteq S!Decision /\ MaxRounds \in Nat /\ MaxRounds > 0
<1>1. Decisions \subseteq S!Decision /\ MaxRounds \in Nat \ {0}
  BY ONLY SupervisorAssumption, Zenon DEF SupervisorAssumption
<1> QED BY <1>1

\* What a decision is made of.
LEMMA DecisionFields ==
  ASSUME NEW d \in Decisions
  PROVE d.child \in STRING /\ d.request \in Nat /\ d.kind \in STRING
<1>1. d \in S!Decision
  BY SupervisorConstants
<1> QED BY <1>1 DEF S!Decision

\* A valid delegation is to a child of the directory, within the limit.
LEMMA DelegationIsValid ==
  ASSUME NEW d, S!ValidDecision(d), d.kind = "delegate"
  PROVE d.child \in Directory /\ state.round < MaxRounds
BY DEF S!ValidDecision

\* What leaves the results, the delegations and the stage alone keeps the records.
LEMMA SupervisorMoves ==
  ASSUME SupervisorInv,
         state' = state, asked' = asked, decision' = decision,
         \/ at' = at
         \/ at = "start" /\ at' = "decide"
         \/ at = "delegate" /\ at' = "record"
         \/ at = "finish" /\ at' = "done"
         \/ at' = "failed",
         child' \in {"idle", "running", "waiting"}, child' # "idle" => at' = "delegate",
         crashes' \in 0..MaxCrashes, interrupts' \in 0..MaxInterrupts
  PROVE SupervisorInv'
<1>1. SupervisorTyped'
  BY DEF SupervisorInv, SupervisorTyped, S!Nodes, Ended
<1>2. SupervisorDelegates'
  BY DEF SupervisorInv, SupervisorDelegates
<1>3. S!ResultsAreTheDelegations'
  <2>1. /\ state.round = Len(state.results)
        /\ state.results = [i \in 1..state.round |-> S!ResultOf(asked[i])]
        /\ Len(asked) = state.round + (IF at \in {"delegate", "record"} THEN 1
                                 ELSE IF at = "failed" THEN Len(asked) - state.round ELSE 0)
    BY DEF SupervisorInv, S!ResultsAreTheDelegations
  <2>2. Len(asked) \in Nat /\ state.round \in Nat
    BY SupervisorConstants DEF SupervisorInv, SupervisorTyped
  <2>3. [i \in 1..state.round |-> S!ResultOf(asked[i])]' = [i \in 1..state.round |-> S!ResultOf(asked[i])]
    BY DEF S!ResultOf
  <2> DEFINE extra(a) == IF a \in {"delegate", "record"} THEN 1
                         ELSE IF a = "failed" THEN Len(asked) - state.round ELSE 0
  <2>4. Len(asked) = state.round + extra(at)
    BY <2>1
  <2>5. Len(asked) = state.round + extra(at')
    <3>1. CASE at' = "failed"
      BY <2>2, <3>1
    <3>2. CASE at' # "failed"
      BY <2>4, <3>2
    <3> QED BY <3>1, <3>2
  <2> QED BY <2>1, <2>3, <2>5 DEF S!ResultsAreTheDelegations
<1> QED BY <1>1, <1>2, <1>3 DEF SupervisorInv

\* An accepted decision is one delegation more, or the answer.
LEMMA DecideKeeps ==
  ASSUME SupervisorInv, NEW d \in Decisions, S!Decide(d)
  PROVE SupervisorInv'
<1> DEFINE n == Len(asked)
<1>1. /\ S!ValidDecision(d) /\ at = "decide" /\ crashes' = crashes /\ interrupts' = interrupts
      /\ at' = (IF d.kind = "delegate" THEN "delegate" ELSE "finish")
      /\ decision' = d /\ state' = state /\ child' = child
      /\ asked' = IF d.kind = "delegate" THEN Append(asked, d) ELSE asked
  BY DEF S!Decide, S!Move
<1>2. /\ asked \in Seq(Decisions) /\ n \in Nat /\ state.round \in Nat /\ n = state.round
      /\ state.round = Len(state.results)
      /\ state.results = [i \in 1..state.round |-> S!ResultOf(asked[i])]
  BY <1>1, SupervisorConstants DEF SupervisorInv, SupervisorTyped, S!ResultsAreTheDelegations
<1>3. SupervisorTyped'
  <2>1. asked' \in Seq(Decisions)
    BY <1>1, <1>2
  <2> QED BY <1>1, <2>1 DEF SupervisorInv, SupervisorTyped, S!Nodes
<1>4. CASE d.kind = "delegate"
  <2>1. asked' = Append(asked, d) /\ at' = "delegate"
    BY <1>1, <1>4
  <2>2. Len(asked') = n + 1 /\ asked'[n + 1] = d /\ \A i \in 1..n : asked'[i] = asked[i]
    BY <1>2, <2>1
  <2>3. SupervisorDelegates'
    <3>1. asked' # <<>>
      BY <1>2, <2>1
    <3> QED BY <1>1, <1>4, <2>2, <3>1, DelegationIsValid DEF SupervisorDelegates
  <2>4. S!ResultsAreTheDelegations'
    <3>1. [i \in 1..state.round |-> S!ResultOf(asked'[i])] = [i \in 1..state.round |-> S!ResultOf(asked[i])]
      BY <1>2, <2>2
    <3> QED BY <1>1, <1>2, <2>1, <2>2, <3>1 DEF S!ResultsAreTheDelegations, S!ResultOf
  <2> QED BY <1>3, <2>3, <2>4 DEF SupervisorInv
<1>5. CASE d.kind # "delegate"
  <2>1. asked' = asked /\ at' = "finish"
    BY <1>1, <1>5
  <2>2. SupervisorDelegates'
    BY <2>1 DEF SupervisorDelegates
  <2>3. S!ResultsAreTheDelegations'
    BY <1>1, <1>2, <2>1 DEF S!ResultsAreTheDelegations, S!ResultOf
  <2> QED BY <1>3, <2>2, <2>3 DEF SupervisorInv
<1> QED BY <1>4, <1>5

\* A result is recorded of the delegation at work, in its round.
LEMMA RecordKeeps ==
  ASSUME SupervisorInv, S!Record
  PROVE SupervisorInv'
<1> DEFINE n == state.round
           r == S!ResultOf(decision)
<1>1. /\ at = "record" /\ at' = "decide" /\ crashes' = crashes /\ interrupts' = interrupts
      /\ state' = [round |-> n + 1, results |-> Append(state.results, r)]
      /\ decision' = decision /\ asked' = asked /\ child' = child
  BY DEF S!Record, S!Move
<1>2. /\ asked \in Seq(Decisions) /\ n \in Nat /\ Len(asked) = n + 1
      /\ n = Len(state.results) /\ state.results \in Seq(RoundRecord)
      /\ state.results = [i \in 1..n |-> S!ResultOf(asked[i])]
      /\ n < MaxRounds /\ MaxRounds \in Nat
      /\ decision \in Decisions /\ decision.child \in Directory /\ decision = asked[n + 1]
  <2>1. /\ asked \in Seq(Decisions) /\ n \in Nat /\ MaxRounds \in Nat /\ state.results \in Seq(RoundRecord)
    BY SupervisorConstants DEF SupervisorInv, SupervisorTyped
  <2>2. n = Len(state.results) /\ Len(asked) = n + 1 /\ state.results = [i \in 1..n |-> S!ResultOf(asked[i])]
    BY <1>1, <2>1 DEF SupervisorInv, S!ResultsAreTheDelegations
  <2>3. n < MaxRounds /\ decision \in Decisions /\ decision.child \in Directory /\ decision = asked[Len(asked)]
    BY <1>1 DEF SupervisorInv, SupervisorDelegates
  <2> QED BY <2>1, <2>2, <2>3
<1>3. r \in RoundRecord
  BY <1>2, DecisionFields DEF S!ResultOf, RoundRecord
<1> HIDE DEF r
<1>4. Append(state.results, r) \in Seq(RoundRecord) /\ n + 1 \in 0..MaxRounds
  BY <1>2, <1>3
<1>5. SupervisorTyped'
  BY <1>1, <1>4 DEF SupervisorInv, SupervisorTyped, S!Nodes
<1>6. SupervisorDelegates'
  BY <1>1 DEF SupervisorDelegates
<1>7. S!ResultsAreTheDelegations'
  <2> DEFINE t == Append(state.results, r)
             u == [i \in 1..(n + 1) |-> S!ResultOf(asked[i])]
  <2>1. DOMAIN t = 1..(n + 1) /\ Len(t) = n + 1 /\ t[n + 1] = r /\ \A i \in 1..n : t[i] = state.results[i]
    BY <1>2, <1>3
  <2>2. \A i \in 1..(n + 1) : t[i] = u[i]
    <3> SUFFICES ASSUME NEW i \in 1..(n + 1) PROVE t[i] = u[i]
      OBVIOUS
    <3>1. i = n + 1 \/ i \in 1..n
      BY <1>2, OneMore
    <3>2. CASE i = n + 1
      BY <1>2, <2>1, <3>2 DEF r
    <3>3. CASE i \in 1..n
      BY <1>2, <2>1, <3>3
    <3> QED BY <3>1, <3>2, <3>3
  <2>3. t = u
    <3>1. t = [i \in 1..(n + 1) |-> t[i]]
      BY <1>4, <2>1
    <3> QED BY <2>2, <3>1
  <2> HIDE DEF t
  <2>4. /\ state'.round = n + 1 /\ state'.results = t
        /\ u = [i \in 1..(n + 1) |-> S!ResultOf(asked'[i])]
    BY <1>1 DEF t
  <2>5. Len(asked') = (n + 1) + 0 /\ at' = "decide"
    BY <1>1, <1>2
  <2> QED BY <2>1, <2>3, <2>4, <2>5 DEF S!ResultsAreTheDelegations, S!ResultOf
<1> QED BY <1>5, <1>6, <1>7 DEF SupervisorInv

\* Every step of a supervisor keeps its invariant.
LEMMA SupervisorInvKept ==
  ASSUME SupervisorInv, S!NodeStep \/ S!ChildStep \/ S!ResumeChild \/ S!Crash
  PROVE SupervisorInv'
<1>1. CASE \E d \in Decisions : S!Decide(d)
  BY <1>1, DecideKeeps
<1>2. CASE S!Record
  BY <1>2, RecordKeeps
<1>3. CASE \/ S!Start \/ (\E d \in Decisions : S!DecisionRefused(d)) \/ S!DeciderFails \/ S!StartChild
           \/ S!Finish \/ S!ChildStep \/ S!ResumeChild \/ S!Crash
  <2> USE DEF S!Start, S!DecisionRefused, S!DeciderFails, S!StartChild, S!Finish, S!ChildStep, S!ChildReturns,
              S!ChildFails, S!ChildInterrupts, S!ResumeChild, S!Crash, S!InDelegate, S!Move
  <2>1. /\ crashes \in 0..MaxCrashes /\ interrupts \in 0..MaxInterrupts
        /\ MaxCrashes \in Nat /\ MaxInterrupts \in Nat
        /\ child \in {"idle", "running", "waiting"} /\ (child # "idle" => at = "delegate")
    BY PlanExecAssumption DEF SupervisorInv, SupervisorTyped
  <2>2. crashes' \in 0..MaxCrashes /\ interrupts' \in 0..MaxInterrupts
    BY <1>3, <2>1
  <2>3. child' \in {"idle", "running", "waiting"} /\ (child' # "idle" => at' = "delegate")
    BY <1>3, <2>1
  <2>4. /\ state' = state /\ asked' = asked /\ decision' = decision
        /\ \/ at' = at
           \/ at = "start" /\ at' = "decide"
           \/ at = "delegate" /\ at' = "record"
           \/ at = "finish" /\ at' = "done"
           \/ at' = "failed"
    BY <1>3
  <2> QED BY <2>2, <2>3, <2>4, SupervisorMoves
<1> QED BY <1>1, <1>2, <1>3 DEF S!NodeStep

\* A supervisor begins with nothing delegated.
LEMMA SupervisorInvBegins ==
  ASSUME S!Init
  PROVE SupervisorInv
<1> USE DEF S!Init
<1>1. state.round = 0 /\ state.results = <<>> /\ asked = <<>> /\ at = "start"
  OBVIOUS
<1>2. SupervisorTyped
  <2>1. <<>> \in Seq(RoundRecord) /\ <<>> \in Seq(Decisions) /\ 0 \in 0..MaxRounds
        /\ 0 \in 0..MaxCrashes /\ 0 \in 0..MaxInterrupts
    BY PlanExecAssumption, SupervisorConstants
  <2> QED BY <1>1, <2>1 DEF SupervisorTyped, S!Nodes
<1>3. SupervisorDelegates
  BY <1>1 DEF SupervisorDelegates
<1>4. S!ResultsAreTheDelegations
  <2>1. <<>> = [i \in 1..0 |-> S!ResultOf(asked[i])]
    OBVIOUS
  <2> QED BY <1>1, <2>1 DEF S!ResultsAreTheDelegations
<1> QED BY <1>2, <1>3, <1>4 DEF SupervisorInv

\* The invariant has the records the decider is given.
LEMMA SupervisorRecords ==
  ASSUME SupervisorInv
  PROVE S!TypeOK /\ S!ResultsAreTheDelegations
BY DEF SupervisorInv, SupervisorTyped, S!TypeOK, RoundRecord, S!Ended, Ended

-----------------------------------------------------------------------------
(* What LoopAgent keeps *)

\* What a loop is constructed with.
LEMMA LoopConstants == MaxIterations \in Nat /\ MaxIterations > 0
BY LoopAssumption

\* What the State of a loop and a judgement are made of.
LEMMA LoopFields ==
  ASSUME LoopTyped
  PROVE /\ state.iteration \in 0..MaxIterations /\ state.iteration \in Nat /\ state.request \in Message
        /\ judged \in Seq(JudgedRecord) /\ Len(judged) \in Nat /\ DOMAIN judged = 1..Len(judged)
        /\ \A n \in 1..Len(judged) : judged[n] \in JudgedRecord
        /\ (judged = <<>> <=> Len(judged) = 0)
        /\ NextRequest \in Message
<1>1. state.iteration \in 0..MaxIterations /\ state.request \in Message /\ judged \in Seq(JudgedRecord)
  BY DEF LoopTyped, LoopRecord
<1>2. /\ Len(judged) \in Nat /\ DOMAIN judged = 1..Len(judged)
      /\ \A n \in 1..Len(judged) : judged[n] \in JudgedRecord
  BY <1>1
<1>3. judged = <<>> <=> Len(judged) = 0
  BY <1>1, EmptySeq
<1>4. NextRequest \in Message
  <2>1. CASE judged = <<>>
    BY <2>1 DEF NextRequest, Message
  <2>2. CASE judged # <<>>
    <3>1. judged[Len(judged)] \in JudgedRecord
      BY <1>2, <1>3, <2>2
    <3> QED BY <2>2, <3>1 DEF NextRequest, JudgedRecord
  <2> QED BY <2>1, <2>2
<1> QED BY <1>1, <1>2, <1>3, <1>4, LoopConstants

\* What the condition saw stays, so what is chained stays chained.
LEMMA ChainsKept ==
  ASSUME L!IterationsAreChained, judged' = judged
  PROVE L!IterationsAreChained'
BY DEF L!IterationsAreChained

\* A child starts, fails, interrupts or is lost, a condition fails, the loop ends.
LEMMA LoopMoves ==
  ASSUME LoopInv, L!EnterChild \/ L!ChildFails \/ L!ChildInterrupts \/ L!ConditionFails \/ L!Finish \/ L!Crash
  PROVE LoopInv'
<1> USE DEF L!EnterChild, L!ChildFails, L!ChildInterrupts, L!ConditionFails, L!Finish, L!Crash
<1>1. /\ state' = state /\ request' = request /\ response' = response /\ judged' = judged
      /\ \/ at' = at
         \/ at' = "failed"
         \/ at = "finish" /\ at' = "done"
  OBVIOUS
<1>2. child' \in {"idle", "running", "waiting"} /\ (child' # "idle" => at' = "child")
  BY DEF LoopInv, LoopTyped
<1>3. crashes' \in 0..MaxCrashes /\ interrupts' \in 0..MaxInterrupts
  <2>1. /\ crashes \in 0..MaxCrashes /\ interrupts \in 0..MaxInterrupts
        /\ MaxCrashes \in Nat /\ MaxInterrupts \in Nat
    BY PlanExecAssumption DEF LoopInv, LoopTyped
  <2> QED BY <2>1
<1>4. LoopTyped'
  BY <1>1, <1>2, <1>3 DEF LoopInv, LoopTyped, Ended
<1>5. LoopStages'
  BY <1>1 DEF LoopInv, LoopStages, NextRequest
<1> QED BY <1>1, <1>4, <1>5, ChainsKept DEF LoopInv

\* A response is an iteration that is not judged yet.
LEMMA ReturnKeepsLoop ==
  ASSUME LoopInv, NEW reply \in Responses, L!ChildReturns(reply)
  PROVE LoopInv'
<1>1. /\ at = "child" /\ at' = "condition" /\ child' = "idle" /\ response' = reply
      /\ state' = [iteration |-> state.iteration + 1, request |-> request]
      /\ request' = request /\ judged' = judged /\ crashes' = crashes /\ interrupts' = interrupts
  BY DEF L!ChildReturns, LoopInv, LoopTyped
<1>2. /\ state.iteration \in Nat /\ state.iteration < MaxIterations /\ MaxIterations \in Nat
      /\ Len(judged) = state.iteration /\ request = NextRequest /\ request \in Message
  BY <1>1, LoopConstants, LoopFields DEF LoopInv, LoopStages, LoopTyped
<1>3. LoopTyped'
  <2>1. state' \in LoopRecord /\ response' \in Message
    BY <1>1, <1>2 DEF LoopRecord, Message
  <2> QED BY <1>1, <2>1 DEF LoopInv, LoopTyped, L!Nodes
<1>4. LoopStages'
  <2>1. state'.iteration = state.iteration + 1 /\ state'.request = request /\ NextRequest' = NextRequest
    BY <1>1 DEF NextRequest
  <2> QED BY <1>1, <1>2, <2>1 DEF LoopInv, LoopStages
<1> QED BY <1>1, <1>3, <1>4, ChainsKept DEF LoopInv

\* The condition judges the iteration under way, and the next child, if any,
\* is asked what this one answered.
LEMMA ConditionKeepsLoop ==
  ASSUME LoopInv, NEW verdict \in L!Decided, L!Condition(verdict)
  PROVE LoopInv'
<1> DEFINE n == Len(judged)
           r == [number |-> state.iteration, request |-> state.request,
                 response |-> response, decision |-> verdict]
<1>1. /\ at = "condition" /\ judged' = Append(judged, r)
      /\ state' = state /\ response' = response /\ child' = child
      /\ crashes' = crashes /\ interrupts' = interrupts
      /\ \/ verdict = "continue" /\ state.iteration < MaxIterations /\ at' = "child" /\ request' = response
         \/ verdict = "stop" /\ at' = "finish" /\ request' = request
         \/ at' = "failed" /\ request' = request
  BY DEF L!Condition, L!RequestFromResponse
<1>2. /\ state.iteration \in Nat /\ state.iteration \in 0..MaxIterations /\ n \in Nat
      /\ state.iteration = n + 1 /\ state.request = NextRequest
      /\ judged \in Seq(JudgedRecord) /\ \A k \in 1..n : judged[k].decision = "continue"
      /\ (judged = <<>> <=> n = 0)
      /\ response \in Message /\ state.request \in Message
  BY <1>1, LoopFields DEF LoopInv, LoopStages, LoopTyped
<1>3. r \in JudgedRecord /\ r.number = n + 1 /\ r.request = NextRequest /\ r.response = response
      /\ r.decision = verdict
  <2>1. r \in JudgedRecord
    BY <1>2 DEF JudgedRecord
  <2> QED BY <1>2, <2>1
<1> HIDE DEF r
<1>4. /\ judged' \in Seq(JudgedRecord) /\ Len(judged') = n + 1 /\ judged'[n + 1] = r
      /\ \A k \in 1..n : judged'[k] = judged[k]
      /\ judged' # <<>> /\ DOMAIN judged' = 1..(n + 1)
  BY <1>1, <1>2, <1>3
<1>5. LoopTyped'
  <2>1. request' \in Message /\ request \in Message
    BY <1>1, <1>2 DEF LoopInv, LoopTyped
  <2> QED BY <1>1, <1>4, <2>1 DEF LoopInv, LoopTyped, L!Nodes, Ended
<1>6. LoopStages'
  <2>1. NextRequest' = response
    BY <1>3, <1>4 DEF NextRequest
  <2>2. at' = "child" => \A k \in 1..(n + 1) : judged'[k].decision = "continue"
    <3> SUFFICES ASSUME at' = "child", NEW k \in 1..(n + 1) PROVE judged'[k].decision = "continue"
      OBVIOUS
    <3>1. k = n + 1 \/ k \in 1..n
      BY <1>2, OneMore
    <3> QED BY <1>1, <1>2, <1>3, <1>4, <3>1
  <2> QED BY <1>1, <1>2, <1>3, <1>4, <2>1, <2>2 DEF LoopStages
<1>7. L!IterationsAreChained'
  <2> SUFFICES ASSUME NEW k \in 1..(n + 1)
               PROVE /\ judged'[k].number = k
                     /\ judged'[k].request = IF k = 1 THEN L!First ELSE judged'[k - 1].response
                     /\ k < n + 1 => judged'[k].decision = "continue"
    BY <1>4 DEF L!IterationsAreChained
  <2>1. k = n + 1 \/ k \in 1..n
    BY <1>2, OneMore
  <2>2. CASE k = n + 1
    <3>1. k = 1 => NextRequest = L!First
      BY <1>2, <2>2 DEF NextRequest
    <3>2. k # 1 => k - 1 = n /\ n \in 1..n /\ judged # <<>>
      BY <1>2, <2>2
    <3>3. k # 1 => NextRequest = judged'[k - 1].response
      BY <1>4, <3>2 DEF NextRequest
    <3> QED BY <1>2, <1>3, <1>4, <2>2, <3>1, <3>3
  <2>3. CASE k \in 1..n
    <3>1. k \in DOMAIN judged /\ judged'[k] = judged[k]
      BY <1>2, <1>4, <2>3
    <3>2. k # 1 => k - 1 \in 1..n /\ judged'[k - 1] = judged[k - 1]
      BY <1>2, <1>4, <2>3
    <3>3. /\ judged[k].number = k
          /\ judged[k].request = IF k = 1 THEN L!First ELSE judged[k - 1].response
      BY <3>1 DEF LoopInv, L!IterationsAreChained
    <3> QED BY <1>2, <2>3, <3>1, <3>2, <3>3
  <2> QED BY <2>1, <2>2, <2>3
<1> QED BY <1>5, <1>6, <1>7 DEF LoopInv

\* Every step of a loop keeps its invariant.
LEMMA LoopInvKept ==
  ASSUME LoopInv, L!NodeStep \/ L!ChildStep \/ L!Crash
  PROVE LoopInv'
BY LoopMoves, ReturnKeepsLoop, ConditionKeepsLoop DEF L!NodeStep, L!ChildStep

\* A loop begins with its request, and nothing judged.
LEMMA LoopInvBegins ==
  ASSUME L!Init
  PROVE LoopInv
<1> USE DEF L!Init
<1>1. state.iteration = 0 /\ state.request = L!First /\ judged = <<>> /\ at = "child" /\ Len(judged) = 0
  OBVIOUS
<1>2. LoopTyped
  <2>1. /\ <<>> \in Seq(JudgedRecord) /\ 0 \in 0..MaxIterations /\ 0 \in 0..MaxCrashes /\ 0 \in 0..MaxInterrupts
        /\ L!First \in Message
    BY PlanExecAssumption, LoopConstants DEF Message
  <2> QED BY <2>1 DEF LoopTyped, LoopRecord, L!Nodes
<1>3. LoopStages
  BY <1>1, LoopConstants DEF LoopStages, NextRequest
<1>4. L!IterationsAreChained
  BY <1>1 DEF L!IterationsAreChained
<1> QED BY <1>2, <1>3, <1>4 DEF LoopInv

\* The invariant has the record of what the condition saw, and the answer.
LEMMA LoopRecords ==
  ASSUME LoopInv
  PROVE L!TypeOK /\ L!IterationsAreChained /\ L!AnswerIsWhatStopped
<1>1. L!TypeOK
  <2>1. Len(judged) \in 0..MaxIterations
    BY LoopConstants, LoopFields DEF LoopInv, LoopStages
  <2> QED BY <2>1 DEF LoopInv, LoopTyped, L!TypeOK, LoopRecord, Message, L!Ended, Ended
<1>2. L!AnswerIsWhatStopped
  BY DEF LoopInv, LoopStages, L!AnswerIsWhatStopped, L!Last
<1> QED BY <1>1, <1>2 DEF LoopInv

-----------------------------------------------------------------------------
(* What Composition keeps *)

\* What a composition is constructed with.
LEMMA CompositionConstants ==
  /\ Children \in Names /\ Children # <<>> /\ Len(Children) \in Nat /\ Len(Children) > 0
  /\ \A i \in 1..Len(Children) : Children[i] \in Workers
  /\ MaxParallelism \in Nat /\ MaxParallelism > 0
<1>1. /\ Children \in Seq(STRING \ {""}) /\ Children # <<>>
      /\ MaxParallelism \in Nat \ {0}
  BY ONLY CompositionAssumption, Zenon DEF CompositionAssumption
<1> DEFINE T == STRING \ {""}
<1> HIDE DEF T
<1>3. Children \in Seq(T)
  BY <1>1 DEF T
<1>4. Len(Children) \in Nat /\ DOMAIN Children = 1..Len(Children) /\ Children \in [1..Len(Children) -> T]
  BY <1>3, LenProperties
<1>5. Len(Children) > 0
  <2>1. Len(Children) \in Nat \ {0}
    BY ONLY <1>1, <1>3, EmptySeq
  <2> QED BY <2>1
<1>9. MaxParallelism \in Nat /\ MaxParallelism > 0
  <2>1. MaxParallelism \in Nat \ {0}
    BY ONLY <1>1
  <2> QED BY ONLY <2>1
<1>6. \A i \in 1..Len(Children) : Children[i] \in Workers
  BY <1>4 DEF Workers, C!ChildNames, C!ToSet
<1>7. Children \in Names
  BY <1>4, <1>6 DEF Names
<1>10. Children # <<>> /\ Len(Children) \in Nat
  BY ONLY <1>1, <1>4
<1> QED BY ONLY <1>5, <1>6, <1>7, <1>9, <1>10

\* The children of a sequence, and the first of them.
LEMMA SequenceIs ==
  /\ Sequence \in Names /\ Len(Sequence) \in Nat /\ Len(Sequence) > 0
  /\ \A i \in 1..Len(Sequence) : Sequence[i] \in C!ChildNames /\ Sequence[i] \in Workers
  /\ Head(Sequence) = Sequence[1] /\ 1 \in 1..Len(Sequence)
<1> DEFINE T == C!ChildNames
<1>1. Sequence \in Seq(T) /\ Sequence # <<>>
  BY ONLY CompositionAssumption, Zenon DEF CompositionAssumption
<1>2. \A c \in T : c \in Workers
  BY DEF Workers
<1> HIDE DEF T
<1>3. /\ Len(Sequence) \in Nat /\ Len(Sequence) > 0
      /\ \A i \in 1..Len(Sequence) : Sequence[i] \in T
      /\ Head(Sequence) = Sequence[1]
  BY <1>1
<1>4. Sequence \in Seq(Workers)
  BY <1>1, <1>2, <1>3
<1> QED BY <1>2, <1>3, <1>4 DEF Names, T

\* The children of a stage, as a set.
LEMMA StageSet ==
  ASSUME NEW s \in Names
  PROVE /\ C!ToSet(s) = {s[i] : i \in 1..Len(s)}
        /\ IsFiniteSet(C!ToSet(s))
        /\ C!ToSet(s) \subseteq Workers
<1>1. Len(s) \in Nat /\ DOMAIN s = 1..Len(s) /\ \A i \in 1..Len(s) : s[i] \in Workers
  BY DEF Names
<1>2. C!ToSet(s) = {s[i] : i \in 1..Len(s)}
  BY <1>1 DEF C!ToSet
<1>3. IsFiniteSet({s[i] : i \in 1..Len(s)})
  <2> DEFINE f == [i \in 1..Len(s) |-> s[i]]
             T == {s[i] : i \in 1..Len(s)}
  <2>1. IsFiniteSet(1..Len(s))
    BY <1>1, FS_Interval
  <2>2. f \in Surjection(1..Len(s), T)
    BY DEF Surjection
  <2> QED BY <2>1, <2>2, FS_Surjection
<1> QED BY <1>1, <1>2, <1>3

\* A stage of one child is that child.
LEMMA StageOfOne ==
  ASSUME NEW c
  PROVE C!ToSet(<<c>>) = {c} /\ Head(<<c>>) = c
BY DEF C!ToSet

\* No child is in no stage.
LEMMA StageOfNone == C!ToSet(<<>>) = {} /\ <<>> \in Names
BY DEF C!ToSet, Names

\* A stage that begins has settled nothing.
LEMMA StartIs ==
  ASSUME NEW s \in Names
  PROVE /\ C!Start(s) \in [C!ToSet(s) -> BranchRecord]
        /\ DOMAIN C!Start(s) = C!ToSet(s)
        /\ \A c \in C!ToSet(s) : C!Start(s)[c].status = "ready" /\ C!Start(s)[c].response = C!NoAnswer
<1>1. [status |-> "ready", response |-> C!NoAnswer] \in BranchRecord
  BY StageOfNone DEF BranchRecord, C!NoAnswer
<1> QED BY <1>1 DEF C!Start

\* What the children of a stage have.
LEMMA BranchFields ==
  ASSUME CompositionTyped, BranchSound
  PROVE /\ DOMAIN branch = C!ToSet(stage)
        /\ \A c \in C!ToSet(stage) :
             /\ branch[c] \in BranchRecord
             /\ branch[c].status \in {"ready", "running", "settled", "failed", "waiting"}
             /\ branch[c].response \in Names
             /\ branch[c].status = "settled" => branch[c].response = Append(given, c)
             /\ branch[c].status # "settled" => branch[c].response = C!NoAnswer
        /\ \A status : C!With(status) \subseteq C!ToSet(stage)
        /\ \A status, c : c \in C!With(status) <=> c \in C!ToSet(stage) /\ branch[c].status = status
        /\ C!ToSet(stage) \subseteq Workers
        /\ IsFiniteSet(C!With("running")) /\ Cardinality(C!With("running")) \in Nat
<1>1. DOMAIN branch = C!ToSet(stage) /\ \A c \in C!ToSet(stage) : branch[c] \in BranchRecord
  BY DEF BranchSound
<1>2. \A c \in C!ToSet(stage) :
        /\ branch[c].status \in {"ready", "running", "settled", "failed", "waiting"}
        /\ branch[c].response \in Names
  BY <1>1 DEF BranchRecord
<1>3. \A c \in C!ToSet(stage) :
        /\ branch[c].status = "settled" => branch[c].response = Append(given, c)
        /\ branch[c].status # "settled" => branch[c].response = C!NoAnswer
  BY DEF BranchSound
<1>4. /\ \A status : C!With(status) \subseteq C!ToSet(stage)
      /\ \A status, c : c \in C!With(status) <=> c \in C!ToSet(stage) /\ branch[c].status = status
  BY DEF C!With
<1>5. C!ToSet(stage) \subseteq Workers /\ IsFiniteSet(C!ToSet(stage))
  BY StageSet DEF CompositionTyped
<1>6. IsFiniteSet(C!With("running"))
  BY <1>4, <1>5, FS_Subset
<1>7. Cardinality(C!With("running")) \in Nat
  BY <1>6, FS_CardinalityType
<1> QED BY <1>1, <1>2, <1>3, <1>4, <1>5, <1>6, <1>7

\* Composition counts with the operator the lemmas are about.
LEMMA SameCardinality ==
  ASSUME NEW T
  PROVE C!Cardinality(T) = Cardinality(T)
BY DEF C!Cardinality, Cardinality

\* In one stage, a child whose result was settled goes on with another status
\* after a crash only.
NotRepeated ==
  \A c \in DOMAIN branch :
    (given' = given /\ branch[c].status = "settled" /\ c \in DOMAIN branch' /\ branch'[c].status # "settled") => crashes' # crashes

\* Steps within a stage keep what the run is about.
LEMMA StageKept ==
  ASSUME CompositionInv, at \in {"stage", "suspended"}, at' \in {"stage", "suspended"},
         shape' = shape, stage' = stage, given' = given, answer' = answer,
         crashes' \in 0..MaxCrashes, interrupts' \in 0..MaxInterrupts,
         BranchSound', CompositionSlots'
  PROVE CompositionInv'
<1>1. CompositionTyped'
  BY DEF CompositionInv, CompositionTyped, C!ToSet
<1>2. CompositionStages'
  BY DEF CompositionInv, CompositionStages, StageGiven
<1>3. C!AnswerIsOfShape'
  BY DEF C!AnswerIsOfShape
<1> QED BY <1>1, <1>2, <1>3 DEF CompositionInv

\* One child of a stage goes on.
LEMMA ChildMoves ==
  ASSUME CompositionInv, at = "stage", NEW c, c \in C!ToSet(stage), NEW r \in BranchRecord,
         C!Update(c, r), branch[c].status # "settled",
         r.response = IF r.status = "settled" THEN Append(given, c) ELSE C!NoAnswer,
         interrupts' \in 0..MaxInterrupts,
         r.status = "running" => Cardinality(C!With("running")) < MaxParallelism
  PROVE CompositionInv' /\ NotRepeated
<1> DEFINE R == C!With("running")
           Q == C!With("running")'
<1>1. /\ branch' = [branch EXCEPT ![c] = r] /\ shape' = shape /\ at' = at /\ stage' = stage
      /\ given' = given /\ answer' = answer /\ crashes' = crashes
  BY DEF C!Update
<1>2. /\ DOMAIN branch = C!ToSet(stage) /\ branch \in [C!ToSet(stage) -> BranchRecord]
      /\ IsFiniteSet(R) /\ Cardinality(R) \in Nat /\ Cardinality(R) <= MaxParallelism
      /\ \A b : b \in R <=> b \in C!ToSet(stage) /\ branch[b].status = "running"
  BY BranchFields DEF CompositionInv, BranchSound, CompositionSlots
<1>3. /\ branch' \in [C!ToSet(stage) -> BranchRecord] /\ branch'[c] = r
      /\ \A b \in C!ToSet(stage) : b # c => branch'[b] = branch[b]
  BY <1>1, <1>2
<1>4. C!ToSet(stage)' = C!ToSet(stage)
  BY <1>1
<1>5. BranchSound'
  <2>1. ASSUME NEW b \in C!ToSet(stage)
        PROVE branch'[b].response = IF branch'[b].status = "settled" THEN Append(given, b) ELSE C!NoAnswer
    <3>1. CASE b = c
      BY <1>3, <3>1
    <3>2. CASE b # c
      BY <1>3, <3>2 DEF CompositionInv, BranchSound
    <3> QED BY <3>1, <3>2
  <2> QED BY <1>1, <1>3, <1>4, <2>1 DEF BranchSound, C!NoAnswer
<1>6. \A b : b \in Q <=> b \in C!ToSet(stage) /\ branch'[b].status = "running"
  BY <1>4 DEF C!With
<1> HIDE DEF Q, R
<1>7. Cardinality(Q) <= MaxParallelism
  <2>1. CASE r.status = "running"
    <3>1. c \notin R => Cardinality(R \cup {c}) = Cardinality(R) + 1 /\ IsFiniteSet(R \cup {c})
      BY <1>2, FS_AddElement
    <3>2. Q \subseteq R \cup {c}
      BY <1>2, <1>3, <1>6
    <3>3. Cardinality(R) + 1 <= MaxParallelism
      BY <1>2, <2>1, CompositionConstants DEF R
    <3>4. CASE c \in R
      <4>1. Q \subseteq R
        BY <3>2, <3>4
      <4>2. IsFiniteSet(Q) /\ Cardinality(Q) <= Cardinality(R)
        BY <1>2, <4>1, FS_Subset
      <4>3. Cardinality(Q) \in Nat
        BY <4>2, FS_CardinalityType
      <4> QED BY <1>2, <4>2, <4>3, CompositionConstants
    <3>5. CASE c \notin R
      <4>1. IsFiniteSet(Q) /\ Cardinality(Q) <= Cardinality(R \cup {c})
        BY <3>1, <3>2, <3>5, FS_Subset
      <4>2. Cardinality(Q) \in Nat
        BY <4>1, FS_CardinalityType
      <4> QED BY <1>2, <3>1, <3>3, <3>5, <4>1, <4>2, CompositionConstants
    <3> QED BY <3>4, <3>5
  <2>2. CASE r.status # "running"
    <3>1. Q \subseteq R
      BY <1>2, <1>3, <1>6, <2>2
    <3>2. IsFiniteSet(Q) /\ Cardinality(Q) <= Cardinality(R)
      BY <1>2, <3>1, FS_Subset
    <3>3. Cardinality(Q) \in Nat
      BY <3>2, FS_CardinalityType
    <3> QED BY <1>2, <3>2, <3>3, CompositionConstants
  <2> QED BY <2>1, <2>2
<1>8. CompositionSlots'
  BY <1>1, <1>7 DEF CompositionSlots, Q
<1>9. NotRepeated
  BY <1>2, <1>3 DEF NotRepeated
<1>10. crashes' \in 0..MaxCrashes
  BY <1>1 DEF CompositionInv, CompositionTyped
<1> QED BY <1>1, <1>5, <1>8, <1>9, <1>10, StageKept

\* A child of the stage starts, returns, fails or interrupts.
LEMMA ChildStepKeeps ==
  ASSUME CompositionInv, NEW c, C!ChildStep(c)
  PROVE CompositionInv' /\ NotRepeated
<1>1. /\ CompositionTyped /\ BranchSound
      /\ interrupts \in 0..MaxInterrupts /\ MaxInterrupts \in Nat /\ given \in Names
  BY PlanExecAssumption DEF CompositionInv, CompositionTyped
<1>2. at = "stage" /\ c \in C!ToSet(stage) /\ branch[c].status \in {"ready", "running"}
  BY <1>1, BranchFields DEF C!ChildStep, C!StartChild, C!ChildReturns, C!ChildFails, C!ChildInterrupts
<1>3. branch[c] \in BranchRecord /\ branch[c].response = C!NoAnswer /\ c \in Workers
  BY <1>1, <1>2, BranchFields
<1> DEFINE r(status) == [branch[c] EXCEPT !.status = status]
<1>4. \A status \in {"running", "failed", "waiting"} :
        r(status) \in BranchRecord /\ r(status).status = status /\ r(status).response = C!NoAnswer
  BY <1>3 DEF BranchRecord
<1> HIDE DEF r
<1>5. CASE C!StartChild(c)
  <2>1. C!Update(c, r("running")) /\ interrupts' = interrupts /\ Cardinality(C!With("running")) < MaxParallelism
    BY <1>5, SameCardinality DEF C!StartChild, r
  <2> QED BY <1>1, <1>2, <1>4, <2>1, ChildMoves
<1>6. CASE C!ChildReturns(c)
  <2> DEFINE s == [status |-> "settled", response |-> Append(given, c)]
  <2>1. s \in BranchRecord
    <3>1. Append(given, c) \in Names
      BY <1>1, <1>3 DEF Names
    <3> QED BY <3>1 DEF BranchRecord
  <2>2. C!Update(c, s) /\ interrupts' = interrupts
    BY <1>6 DEF C!ChildReturns
  <2> QED BY <1>1, <1>2, <2>1, <2>2, ChildMoves
<1>7. CASE C!ChildFails(c)
  <2>1. C!Update(c, r("failed")) /\ interrupts' = interrupts
    BY <1>7 DEF C!ChildFails, r
  <2> QED BY <1>1, <1>2, <1>4, <2>1, ChildMoves
<1>8. CASE C!ChildInterrupts(c)
  <2>1. C!Update(c, r("waiting")) /\ interrupts < MaxInterrupts /\ interrupts' = interrupts + 1
    BY <1>8 DEF C!ChildInterrupts, r
  <2>2. interrupts' \in 0..MaxInterrupts
    BY <1>1, <2>1
  <2> QED BY <1>1, <1>2, <1>4, <2>1, <2>2, ChildMoves
<1> QED BY <1>5, <1>6, <1>7, <1>8 DEF C!ChildStep

\* The children of a stage go back: what waited goes on, or what no checkpoint
\* holds is lost.  None of them runs then.
LEMMA StageReturns ==
  ASSUME CompositionInv, at \in {"stage", "suspended"}, at' \in {"stage", "suspended"},
         shape' = shape, stage' = stage, given' = given, answer' = answer,
         crashes' \in 0..MaxCrashes, interrupts' \in 0..MaxInterrupts,
         NEW next, next \in [C!ToSet(stage) -> BranchRecord], branch' = next,
         \A c \in C!ToSet(stage) : \/ next[c] = branch[c] /\ next[c].status # "running"
                                   \/ next[c].status = "ready" /\ next[c].response = C!NoAnswer,
         \A c \in C!ToSet(stage) : next[c] # branch[c] => branch[c].status # "settled" \/ crashes' # crashes
  PROVE CompositionInv' /\ NotRepeated
<1>1. CompositionTyped /\ BranchSound
  BY DEF CompositionInv
<1>2. C!ToSet(stage)' = C!ToSet(stage)
  OBVIOUS
<1>3. BranchSound'
  <2>1. ASSUME NEW c \in C!ToSet(stage)
        PROVE branch'[c].response = IF branch'[c].status = "settled" THEN Append(given, c) ELSE C!NoAnswer
    BY <1>1 DEF BranchSound
  <2> QED BY <1>2, <2>1 DEF BranchSound, C!NoAnswer
<1>4. C!With("running")' = {}
  BY <1>2 DEF C!With
<1>5. CompositionSlots'
  <2>1. Cardinality({}) <= MaxParallelism
    BY FS_EmptySet, CompositionConstants
  <2>2. Cardinality(C!With("running"))' = Cardinality({})
    BY <1>4
  <2> QED BY <1>4, <2>1, <2>2 DEF CompositionSlots
<1>6. NotRepeated
  <2>1. DOMAIN branch = C!ToSet(stage)
    BY <1>1, BranchFields
  <2> QED BY <2>1 DEF NotRepeated
<1> QED BY <1>3, <1>5, <1>6, StageKept

\* A stage is suspended when nothing of it runs.
LEMMA SuspendKeeps ==
  ASSUME CompositionInv, C!Suspend
  PROVE CompositionInv' /\ NotRepeated
<1>1. /\ at = "stage" /\ at' = "suspended" /\ C!With("running") = {}
      /\ shape' = shape /\ stage' = stage /\ given' = given /\ answer' = answer
      /\ branch' = branch /\ crashes' = crashes /\ interrupts' = interrupts
  BY DEF C!Suspend
<1>2. BranchSound'
  BY <1>1 DEF CompositionInv, BranchSound, C!ToSet, C!NoAnswer
<1>3. C!With("running")' = {}
  BY <1>1 DEF C!With, C!ToSet
<1>4. CompositionSlots'
  <2>1. Cardinality({}) <= MaxParallelism
    BY FS_EmptySet, CompositionConstants
  <2>2. Cardinality(C!With("running"))' = Cardinality({})
    BY <1>3
  <2> QED BY <1>3, <2>1, <2>2 DEF CompositionSlots
<1>5. crashes' \in 0..MaxCrashes /\ interrupts' \in 0..MaxInterrupts
  BY <1>1 DEF CompositionInv, CompositionTyped
<1> QED BY <1>1, <1>2, <1>4, <1>5, StageKept DEF NotRepeated

\* A resumed stage goes on with the children that waited.
LEMMA ResumeKeeps ==
  ASSUME CompositionInv, C!Resume
  PROVE CompositionInv' /\ NotRepeated
<1> DEFINE next == [c \in C!ToSet(stage) |->
                      IF branch[c].status = "waiting" THEN [branch[c] EXCEPT !.status = "ready"] ELSE branch[c]]
<1>1. /\ at = "suspended" /\ at' = "stage" /\ branch' = next
      /\ shape' = shape /\ stage' = stage /\ given' = given /\ answer' = answer
      /\ crashes' = crashes /\ interrupts' = interrupts
  BY DEF C!Resume
<1>2. CompositionTyped /\ BranchSound /\ C!With("running") = {}
  BY <1>1 DEF CompositionInv, CompositionSlots
<1>3. ASSUME NEW c \in C!ToSet(stage)
      PROVE /\ next[c] \in BranchRecord
            /\ \/ next[c] = branch[c] /\ next[c].status # "running"
               \/ next[c].status = "ready" /\ next[c].response = C!NoAnswer
            /\ next[c] # branch[c] => branch[c].status # "settled"
  <2>1. /\ branch[c] \in BranchRecord /\ branch[c].status # "running"
        /\ branch[c].status = "waiting" => branch[c].response = C!NoAnswer
    BY <1>2, BranchFields
  <2>2. CASE branch[c].status = "waiting"
    <3>1. next[c] = [branch[c] EXCEPT !.status = "ready"]
      BY <2>2
    <3> QED BY <2>1, <2>2, <3>1 DEF BranchRecord
  <2>3. CASE branch[c].status # "waiting"
    BY <2>1, <2>3
  <2> QED BY <2>2, <2>3
<1>4. next \in [C!ToSet(stage) -> BranchRecord]
  BY <1>3
<1>5. crashes' \in 0..MaxCrashes /\ interrupts' \in 0..MaxInterrupts
  BY <1>1 DEF CompositionInv, CompositionTyped
<1> HIDE DEF next
<1> QED BY <1>1, <1>3, <1>4, <1>5, StageReturns

\* What a crash does to a stage, if there is one yet.
LEMMA CrashKeeps ==
  ASSUME CompositionInv, NEW kept, kept \subseteq C!With("settled"), C!Crash(kept)
  PROVE CompositionInv' /\ NotRepeated
<1> DEFINE next == [c \in C!ToSet(stage) |->
                      IF c \in kept \/ branch[c].status = "waiting" THEN branch[c]
                      ELSE [status |-> "ready", response |-> C!NoAnswer]]
<1>1. /\ at \notin {"done", "failed", "suspended"} /\ crashes < MaxCrashes /\ crashes' = crashes + 1
      /\ branch' = next /\ at' = at
      /\ shape' = shape /\ stage' = stage /\ given' = given /\ answer' = answer
      /\ interrupts' = interrupts
  BY DEF C!Crash, C!Ended
<1>2. CompositionTyped /\ BranchSound
  BY DEF CompositionInv
<1>3. crashes' \in 0..MaxCrashes /\ interrupts' \in 0..MaxInterrupts /\ crashes' # crashes
  <2>1. /\ crashes \in 0..MaxCrashes /\ interrupts \in 0..MaxInterrupts
        /\ MaxCrashes \in Nat /\ MaxInterrupts \in Nat
    BY <1>2, PlanExecAssumption DEF CompositionTyped
  <2> QED BY <1>1, <2>1
<1>4. ASSUME NEW c \in C!ToSet(stage)
      PROVE /\ next[c] \in BranchRecord
            /\ \/ next[c] = branch[c] /\ next[c].status # "running"
               \/ next[c].status = "ready" /\ next[c].response = C!NoAnswer
  <2>1. branch[c] \in BranchRecord /\ (c \in kept => branch[c].status = "settled")
    BY <1>2, BranchFields
  <2>2. CASE c \in kept \/ branch[c].status = "waiting"
    BY <2>1, <2>2
  <2>3. CASE ~(c \in kept \/ branch[c].status = "waiting")
    <3>1. next[c] = [status |-> "ready", response |-> C!NoAnswer]
      BY <2>3
    <3> QED BY <3>1, StageOfNone DEF BranchRecord, C!NoAnswer
  <2> QED BY <2>2, <2>3
<1>5. next \in [C!ToSet(stage) -> BranchRecord]
  BY <1>4
<1> HIDE DEF next
<1>6. CASE at = "stage"
  BY <1>1, <1>3, <1>4, <1>5, <1>6, StageReturns
<1>7. CASE at = "begin"
  <2>1. /\ stage = <<>> /\ C!ToSet(stage) = {} /\ C!ToSet(stage)' = {} /\ C!With("running")' = {}
    BY <1>1, <1>7, StageOfNone DEF CompositionInv, CompositionStages, C!With
  <2>2. BranchSound'
    BY <1>1, <1>5, <2>1 DEF BranchSound
  <2>3. CompositionSlots'
    <3>1. Cardinality({}) <= MaxParallelism
      BY FS_EmptySet, CompositionConstants
    <3>2. Cardinality(C!With("running"))' = Cardinality({})
      BY <2>1
    <3> QED BY <2>1, <3>1, <3>2 DEF CompositionSlots
  <2>4. CompositionTyped'
    BY <1>1, <1>2, <1>3 DEF CompositionTyped, C!ToSet
  <2>5. CompositionStages'
    BY <1>1, <1>7, <2>1 DEF CompositionInv, CompositionStages
  <2>6. C!AnswerIsOfShape'
    BY <1>1, <1>7 DEF C!AnswerIsOfShape
  <2> QED BY <1>3, <2>2, <2>3, <2>4, <2>5, <2>6 DEF CompositionInv, NotRepeated
<1> QED BY <1>1, <1>2, <1>6, <1>7 DEF CompositionTyped, Ended

-----------------------------------------------------------------------------
(* One stage after the other *)

\* A stage begins: there was none before, or it is given something else.
LEMMA EnterKeeps ==
  ASSUME CompositionInv, NEW s \in Names, NEW v \in Names, C!Enter(s, v),
         C!ToSet(s) \subseteq C!ChildNames, C!ToSet(stage) = {} \/ v # given,
         at' = "stage" => StageGiven'
  PROVE CompositionInv' /\ NotRepeated
<1>1. /\ at' = "stage" /\ stage' = s /\ given' = v /\ branch' = C!Start(s)
      /\ shape' = shape /\ answer' = answer /\ crashes' = crashes /\ interrupts' = interrupts
  BY DEF C!Enter
<1>2. C!ToSet(stage)' = C!ToSet(s)
  BY <1>1
<1>3. /\ branch' \in [C!ToSet(s) -> BranchRecord] /\ DOMAIN branch' = C!ToSet(s)
      /\ \A c \in C!ToSet(s) : branch'[c].status = "ready" /\ branch'[c].response = C!NoAnswer
  BY <1>1, StartIs
<1>4. BranchSound'
  BY <1>2, <1>3 DEF BranchSound, C!NoAnswer
<1>5. C!With("running")' = {}
  BY <1>2, <1>3 DEF C!With
<1>6. CompositionSlots'
  <2>1. Cardinality({}) <= MaxParallelism
    BY FS_EmptySet, CompositionConstants
  <2>2. Cardinality(C!With("running"))' = Cardinality({})
    BY <1>5
  <2> QED BY <1>5, <2>1, <2>2 DEF CompositionSlots
<1>7. CompositionTyped'
  BY <1>1, <1>2 DEF CompositionInv, CompositionTyped, C!ChildNames
<1>8. CompositionStages' /\ C!AnswerIsOfShape'
  BY <1>1 DEF CompositionStages, C!AnswerIsOfShape
<1>9. NotRepeated
  <2>1. DOMAIN branch = C!ToSet(stage)
    BY BranchFields DEF CompositionInv
  <2> QED BY <1>1, <2>1 DEF NotRepeated
<1> QED BY <1>4, <1>6, <1>7, <1>8, <1>9 DEF CompositionInv

\* A run ends with the answer of its shape, or none.
LEMMA EndKeeps ==
  ASSUME CompositionInv, NEW how \in Ended, NEW v, C!End(how, v), how = "done" => C!AnswerIsOfShape'
  PROVE CompositionInv' /\ NotRepeated
<1>1. /\ at' = how /\ how # "begin" /\ how # "stage" /\ how # "suspended"
      /\ stage' = stage /\ given' = given /\ branch' = branch
      /\ shape' = shape /\ crashes' = crashes /\ interrupts' = interrupts
  BY DEF C!End, Ended
<1>2. C!ToSet(stage)' = C!ToSet(stage)
  BY <1>1
<1>3. BranchSound'
  BY <1>1, <1>2 DEF CompositionInv, BranchSound, C!NoAnswer
<1>4. C!With("running")' = C!With("running")
  BY <1>1, <1>2 DEF C!With
<1>5. CompositionSlots'
  <2>1. Cardinality(C!With("running"))' = Cardinality(C!With("running"))
    BY <1>4
  <2> QED BY <1>1, <2>1 DEF CompositionInv, CompositionSlots
<1>6. CompositionTyped'
  BY <1>1, <1>2 DEF CompositionInv, CompositionTyped, C!ChildNames
<1>7. CompositionStages'
  BY <1>1 DEF CompositionStages
<1>8. C!AnswerIsOfShape'
  BY <1>1 DEF C!AnswerIsOfShape
<1> QED BY <1>1, <1>3, <1>5, <1>6, <1>7, <1>8 DEF CompositionInv, NotRepeated

\* The names of the children, and the first of them.
LEMMA ChildNamesAre ==
  /\ C!ChildNames = {Children[i] : i \in 1..Len(Children)}
  /\ C!ToSet(Children) = C!ChildNames
  /\ \A i \in 1..Len(Children) : Children[i] \in C!ChildNames
  /\ C!ChildNames \subseteq Workers
  /\ Head(Children) = Children[1] /\ 1 \in 1..Len(Children)
<1>1. Children \in Names /\ Len(Children) \in Nat /\ Len(Children) > 0 /\ Children # <<>>
  BY CompositionConstants
<1>2. C!ToSet(Children) = {Children[i] : i \in 1..Len(Children)} /\ C!ToSet(Children) \subseteq Workers
  BY <1>1, StageSet
<1>3. Head(Children) = Children[1] /\ 1 \in 1..Len(Children)
  BY <1>1 DEF Names
<1> QED BY <1>2, <1>3 DEF C!ChildNames

\* What a request becomes when others worked on it.
LEMMA RequestFirst ==
  ASSUME NEW s \in Seq(Workers)
  PROVE /\ C!Request \o s \in Seq(Workers)
        /\ Len(C!Request \o s) = Len(s) + 1
        /\ \A i \in 1..(Len(s) + 1) : (C!Request \o s)[i] = IF i = 1 THEN "request" ELSE s[i - 1]
<1> DEFINE q == C!Request
<1>1. q = <<"request">>
  BY DEF C!Request
<1>5. "request" \in Workers
  BY DEF Workers
<1>2. q \in Seq(Workers) /\ Len(q) = 1 /\ q[1] = "request"
  <2> HIDE DEF q
  <2>1. Len(q) = 1 /\ q[1] = "request"
    BY ONLY <1>1
  <2>2. q \in Seq(Workers)
    BY ONLY <1>1, <1>5
  <2> QED BY <2>1, <2>2
<1> HIDE DEF q
<1>6. /\ q \o s \in Seq(Workers) /\ Len(q \o s) = 1 + Len(s)
      /\ \A i \in 1..(1 + Len(s)) : (q \o s)[i] = IF i <= 1 THEN q[i] ELSE s[i - 1]
  <2>1. /\ q \o s \in Seq(Workers) /\ Len(q \o s) = Len(q) + Len(s)
        /\ \A i \in 1..(Len(q) + Len(s)) : (q \o s)[i] = IF i <= Len(q) THEN q[i] ELSE s[i - Len(q)]
    BY ONLY <1>2, s \in Seq(Workers), ConcatProperties
  <2> QED BY ONLY <1>2, <2>1
<1>7. Len(s) \in Nat
  OBVIOUS
<1>3. q \o s \in Seq(Workers) /\ Len(q \o s) = Len(s) + 1
  BY <1>6, <1>7
<1>4. \A i \in 1..(Len(s) + 1) : (q \o s)[i] = IF i = 1 THEN "request" ELSE s[i - 1]
  <2> SUFFICES ASSUME NEW i \in 1..(Len(s) + 1) PROVE (q \o s)[i] = IF i = 1 THEN "request" ELSE s[i - 1]
    OBVIOUS
  <2>1. i \in 1..(1 + Len(s)) /\ (i <= 1 <=> i = 1)
    BY <1>7
  <2> QED BY <1>2, <1>6, <2>1
<1> QED BY <1>3, <1>4 DEF q

\* What was done of a sequence when its k-th child answers.
LEMMA ChainGrows ==
  ASSUME NEW k \in 1..Len(Sequence)
  PROVE /\ C!Request \o SubSeq(Sequence, 1, k - 1) \in Names
        /\ Append(C!Request \o SubSeq(Sequence, 1, k - 1), Sequence[k]) = C!Request \o SubSeq(Sequence, 1, k)
        /\ Len(C!Request \o SubSeq(Sequence, 1, k - 1)) = k
        /\ k = Len(Sequence) => C!Request \o SubSeq(Sequence, 1, k) = C!Request \o Sequence
<1> DEFINE a == SubSeq(Sequence, 1, k - 1)
           b == SubSeq(Sequence, 1, k)
           n == Len(Sequence)
           x == Append(C!Request \o a, Sequence[k])
           y == C!Request \o b
<1>1. /\ Sequence \in Seq(Workers) /\ n \in Nat /\ k \in Nat /\ k >= 1 /\ k <= n
      /\ \A i \in 1..n : Sequence[i] \in Workers
  BY SequenceIs DEF Names
<1>2. a \in Seq(Workers) /\ Len(a) = k - 1 /\ \A i \in 1..(k - 1) : a[i] = Sequence[i]
  BY <1>1
<1>3. b \in Seq(Workers) /\ Len(b) = k /\ \A i \in 1..k : b[i] = Sequence[i]
  BY <1>1
<1> HIDE DEF a, b
<1>5. C!Request \o a \in Seq(Workers) /\ Len(C!Request \o a) = k
      /\ \A i \in 1..k : (C!Request \o a)[i] = IF i = 1 THEN "request" ELSE a[i - 1]
  BY <1>1, <1>2, RequestFirst
<1>6. y \in Seq(Workers) /\ Len(y) = k + 1
      /\ \A i \in 1..(k + 1) : y[i] = IF i = 1 THEN "request" ELSE b[i - 1]
  BY <1>1, <1>3, RequestFirst
<1>7. x \in Seq(Workers) /\ Len(x) = k + 1 /\ x[k + 1] = Sequence[k]
      /\ \A i \in 1..k : x[i] = (C!Request \o a)[i]
  BY <1>1, <1>5
<1> HIDE DEF x, y
<1>8. \A i \in 1..(k + 1) : x[i] = y[i]
  <2> SUFFICES ASSUME NEW i \in 1..(k + 1) PROVE x[i] = y[i]
    OBVIOUS
  <2>1. CASE i = k + 1
    BY <1>1, <1>3, <1>6, <1>7, <2>1
  <2>2. CASE i \in 1..k
    <3>1. CASE i = 1
      BY <1>1, <1>5, <1>6, <1>7, <2>2, <3>1
    <3>2. CASE i # 1
      <4>1. i - 1 \in 1..(k - 1) /\ i - 1 \in 1..k
        BY <1>1, <2>2, <3>2
      <4>2. x[i] = a[i - 1] /\ y[i] = b[i - 1]
        BY <1>1, <1>5, <1>6, <1>7, <2>2, <3>2
      <4> QED BY <1>2, <1>3, <4>1, <4>2
    <3> QED BY <3>1, <3>2
  <2> QED BY <1>1, <2>1, <2>2, OneMore
<1>9. x = y
  BY <1>6, <1>7, <1>8, SeqEqual
<1>10. k = n => b = Sequence
  BY <1>1, <1>3, SeqEqual
<1> QED BY <1>5, <1>9, <1>10 DEF x, y, a, b, Names

\* A stage that settled has what each child made of what it was given.
LEMMA SettledAnswers ==
  ASSUME CompositionInv, C!Settled
  PROVE at = "stage" /\ \A c \in C!ToSet(stage) : branch[c].response = Append(given, c)
BY BranchFields DEF CompositionInv, C!Settled

\* A value of one name, and one more.
LEMMA AppendToOne ==
  ASSUME NEW a, NEW b
  PROVE Append(<<a>>, b) = <<a, b>>
<1> DEFINE T == {a, b}
           x == Append(<<a>>, b)
           y == <<a, b>>
<1>1. <<a>> \in Seq(T) /\ <<a, b>> \in Seq(T) /\ a \in T /\ b \in T
  OBVIOUS
<1> HIDE DEF T
<1>2. x \in Seq(T) /\ Len(x) = 2 /\ x[1] = a /\ x[2] = b
  BY <1>1, AppendProperties
<1>3. y \in Seq(T) /\ Len(y) = 2 /\ y[1] = a /\ y[2] = b
  BY <1>1
<1> HIDE DEF x, y
<1>4. x = y
  BY <1>2, <1>3, SeqEqual
<1> QED BY <1>4 DEF x, y

\* A value of two names, and one more.
LEMMA AppendToTwo ==
  ASSUME NEW a, NEW b, NEW c
  PROVE Append(<<a, b>>, c) = <<a, b, c>>
<1> DEFINE T == {a, b, c}
           x == Append(<<a, b>>, c)
           y == <<a, b, c>>
<1>1. <<a, b>> \in Seq(T) /\ <<a, b, c>> \in Seq(T) /\ a \in T /\ b \in T /\ c \in T
  OBVIOUS
<1> HIDE DEF T
<1>2. x \in Seq(T) /\ Len(x) = 3 /\ x[1] = a /\ x[2] = b /\ x[3] = c
  BY <1>1, AppendProperties
<1>3. y \in Seq(T) /\ Len(y) = 3 /\ y[1] = a /\ y[2] = b /\ y[3] = c
  BY <1>1
<1> HIDE DEF x, y
<1>4. x = y
  BY <1>2, <1>3, SeqEqual
<1> QED BY <1>4 DEF x, y

\* A value of three names, and one more.
LEMMA AppendToThree ==
  ASSUME NEW a, NEW b, NEW c, NEW d
  PROVE Append(<<a, b, c>>, d) = <<a, b, c, d>>
<1> DEFINE T == {a, b, c, d}
           x == Append(<<a, b, c>>, d)
           y == <<a, b, c, d>>
<1>1. <<a, b, c>> \in Seq(T) /\ <<a, b, c, d>> \in Seq(T) /\ a \in T /\ b \in T /\ c \in T /\ d \in T
  OBVIOUS
<1> HIDE DEF T
<1>2. x \in Seq(T) /\ Len(x) = 4 /\ x[1] = a /\ x[2] = b /\ x[3] = c /\ x[4] = d
  BY <1>1, AppendProperties
<1>3. y \in Seq(T) /\ Len(y) = 4 /\ y[1] = a /\ y[2] = b /\ y[3] = c /\ y[4] = d
  BY <1>1
<1> HIDE DEF x, y
<1>4. x = y
  BY <1>2, <1>3, SeqEqual
<1> QED BY <1>4 DEF x, y

\* A name, then two.
LEMMA OneThenTwo ==
  ASSUME NEW a, NEW b, NEW c
  PROVE <<a>> \o <<b, c>> = <<a, b, c>>
<1> DEFINE T == {a, b, c}
           x == <<a>> \o <<b, c>>
           y == <<a, b, c>>
<1>1. <<a>> \in Seq(T) /\ <<b, c>> \in Seq(T) /\ <<a, b, c>> \in Seq(T) /\ a \in T /\ b \in T /\ c \in T
  OBVIOUS
<1> HIDE DEF T
<1>2. x \in Seq(T) /\ Len(x) = 3 /\ x[1] = a /\ x[2] = b /\ x[3] = c
  BY <1>1, ConcatProperties
<1>3. y \in Seq(T) /\ Len(y) = 3 /\ y[1] = a /\ y[2] = b /\ y[3] = c
  BY <1>1
<1> HIDE DEF x, y
<1>4. x = y
  BY <1>2, <1>3, SeqEqual
<1> QED BY <1>4 DEF x, y

\* A name, then three.
LEMMA OneThenThree ==
  ASSUME NEW a, NEW b, NEW c, NEW d
  PROVE <<a>> \o <<b, c, d>> = <<a, b, c, d>>
<1> DEFINE T == {a, b, c, d}
           x == <<a>> \o <<b, c, d>>
           y == <<a, b, c, d>>
<1>1. <<a>> \in Seq(T) /\ <<b, c, d>> \in Seq(T) /\ <<a, b, c, d>> \in Seq(T) /\ a \in T /\ b \in T /\ c \in T /\ d \in T
  OBVIOUS
<1> HIDE DEF T
<1>2. x \in Seq(T) /\ Len(x) = 4 /\ x[1] = a /\ x[2] = b /\ x[3] = c /\ x[4] = d
  BY <1>1, ConcatProperties
<1>3. y \in Seq(T) /\ Len(y) = 4 /\ y[1] = a /\ y[2] = b /\ y[3] = c /\ y[4] = d
  BY <1>1
<1> HIDE DEF x, y
<1>4. x = y
  BY <1>2, <1>3, SeqEqual
<1> QED BY <1>4 DEF x, y

\* What begins has one child, or all.
LEMMA OneChild ==
  ASSUME NEW c \in C!ChildNames
  PROVE <<c>> \in Names /\ C!ToSet(<<c>>) = {c} /\ Head(<<c>>) = c /\ c \in Workers
<1>1. c \in Workers
  BY DEF Workers
<1>2. <<c>> \in Names
  BY <1>1 DEF Names
<1> QED BY <1>1, <1>2, StageOfOne

\* What comes before the first child.
LEMMA BeginKeeps ==
  ASSUME CompositionInv, NEW s, NEW v, C!Enter(s, v), at = "begin",
         \/ shape = "sequential" /\ s = <<Head(Sequence)>> /\ v = given
         \/ shape = "parallel" /\ s = Children /\ v = given
         \/ shape = "router" /\ \E c \in C!ChildNames : s = <<c>> /\ v = Append(given, c)
         \/ shape = "tool" /\ s = <<Head(Children)>> /\ v = Append(given, "input")
  PROVE CompositionInv' /\ NotRepeated
<1>1. /\ given = C!Request /\ stage = <<>> /\ C!ToSet(stage) = {} /\ given \in Names
      /\ given = <<"request">>
  BY StageOfNone DEF CompositionInv, CompositionStages, CompositionTyped, C!Request
<1>2. Head(Children) \in C!ChildNames /\ Head(Children) = Children[1] /\ 1 \in 1..Len(Children)
  BY ChildNamesAre
<1>3. stage' = s /\ given' = v /\ shape' = shape
  BY DEF C!Enter
<1>4. CASE shape = "sequential" /\ s = <<Head(Sequence)>> /\ v = given
  <2>1. s \in Names /\ C!ToSet(s) \subseteq C!ChildNames
    BY <1>4, SequenceIs, OneChild
  <2>2. v = C!Request \o SubSeq(Sequence, 1, 1 - 1)
    <3>1. SubSeq(Sequence, 1, 1 - 1) = <<>>
      BY SequenceIs DEF Names
    <3>2. C!Request \o <<>> = C!Request
      BY <1>1, ConcatEmptySeq DEF Names
    <3> QED BY <1>1, <1>4, <3>1, <3>2
  <2>3. StageGiven'
    BY <1>3, <1>4, <2>2, SequenceIs DEF StageGiven, C!Request
  <2> QED BY <1>1, <1>4, <2>1, <2>3, EnterKeeps
<1>5. CASE shape = "parallel" /\ s = Children /\ v = given
  <2>1. s \in Names /\ C!ToSet(s) \subseteq C!ChildNames
    BY <1>5, ChildNamesAre, CompositionConstants
  <2>2. StageGiven'
    BY <1>1, <1>3, <1>5 DEF StageGiven, C!Request
  <2> QED BY <1>1, <1>5, <2>1, <2>2, EnterKeeps
<1>6. CASE shape = "router" /\ \E c \in C!ChildNames : s = <<c>> /\ v = Append(given, c)
  <2>1. PICK c \in C!ChildNames : s = <<c>> /\ v = Append(given, c)
    BY <1>6
  <2>2. s \in Names /\ C!ToSet(s) \subseteq C!ChildNames /\ c \in Workers
    BY <2>1, OneChild
  <2>3. v \in Names /\ v = <<"request", c>>
    <3>1. v = <<"request", c>>
      BY <1>1, <2>1, AppendToOne
    <3>2. Append(given, c) \in Names
      BY <1>1, <2>2, AppendProperties DEF Names
    <3> QED BY <2>1, <3>1, <3>2
  <2>4. StageGiven'
    BY <1>3, <1>6, <2>1, <2>3 DEF StageGiven
  <2> QED BY <1>1, <2>2, <2>3, <2>4, EnterKeeps
<1>7. CASE shape = "tool" /\ s = <<Head(Children)>> /\ v = Append(given, "input")
  <2>1. s \in Names /\ C!ToSet(s) \subseteq C!ChildNames /\ "input" \in Workers
    BY <1>2, <1>7, OneChild DEF Workers
  <2>2. v \in Names /\ v = <<"request", "input">>
    <3>1. v = <<"request", "input">>
      BY <1>1, <1>7, AppendToOne
    <3>2. Append(given, "input") \in Names
      BY <1>1, <2>1, AppendProperties DEF Names
    <3> QED BY <1>7, <3>1, <3>2
  <2>3. StageGiven'
    BY <1>3, <1>7, <2>2 DEF StageGiven
  <2> QED BY <1>1, <2>1, <2>2, <2>3, EnterKeeps
<1> QED BY <1>4, <1>5, <1>6, <1>7

\* The edge to the next child, which is given something else, and the end of the
\* sequence.
LEMMA SequenceKeeps ==
  ASSUME CompositionInv, C!NextInSequence \/ C!EndSequence
  PROVE CompositionInv' /\ NotRepeated
<1> DEFINE n == Len(Sequence)
<1>1. shape = "sequential" /\ C!Settled /\ at = "stage"
  BY DEF C!NextInSequence, C!EndSequence, C!Settled
<1>2. PICK k \in 1..n : stage = <<Sequence[k]>> /\ given = C!Request \o SubSeq(Sequence, 1, k - 1)
  BY <1>1 DEF CompositionInv, CompositionStages, StageGiven
<1> DEFINE c == Sequence[k]
<1>3. C!ToSet(stage) = {c} /\ Head(stage) = c
  BY <1>2, StageOfOne
<1>4. branch[c].response = Append(given, c) /\ Append(given, c) = C!Request \o SubSeq(Sequence, 1, k)
  BY <1>1, <1>2, <1>3, SettledAnswers, ChainGrows
<1>5. n \in Nat /\ C!Place = k
  BY <1>2, SequenceIs, ChainGrows DEF C!Place
<1>6. CASE C!NextInSequence
  <2>1. k + 1 \in 1..n /\ (k + 1) - 1 = k
    BY <1>5, <1>6 DEF C!NextInSequence
  <2> DEFINE d == Sequence[k + 1]
  <2>2. C!Enter(<<d>>, branch[c].response)
    BY <1>3, <1>5, <1>6 DEF C!NextInSequence
  <2>3. <<d>> \in Names /\ C!ToSet(<<d>>) = {d} /\ d \in C!ChildNames
    BY <2>1, SequenceIs, OneChild
  <2>4. branch[c].response = C!Request \o SubSeq(Sequence, 1, (k + 1) - 1) /\ branch[c].response \in Names
    BY <1>4, <2>1, ChainGrows
  <2>5. branch[c].response # given
    <3>1. Len(given) = k /\ Len(branch[c].response) = k + 1
      BY <1>2, <2>1, <2>4, ChainGrows
    <3> QED BY <3>1
  <2>6. StageGiven'
    <3>1. stage' = <<d>> /\ given' = branch[c].response /\ shape' = shape
      BY <2>2 DEF C!Enter
    <3> QED BY <1>1, <2>1, <2>4, <3>1 DEF StageGiven, C!Request
  <2> QED BY <2>2, <2>3, <2>4, <2>5, <2>6, EnterKeeps
<1>7. CASE C!EndSequence
  <2>1. k = n /\ C!End("done", branch[c].response)
    BY <1>3, <1>5, <1>7 DEF C!EndSequence
  <2>2. branch[c].response = C!Request \o Sequence
    BY <1>4, <2>1, ChainGrows
  <2>3. C!AnswerIsOfShape'
    BY <1>1, <2>1, <2>2 DEF C!AnswerIsOfShape, C!End, C!Request
  <2> QED BY <2>1, <2>3, EndKeeps DEF Ended
<1> QED BY <1>6, <1>7

\* The merge, the end of a route, and the adapter of the output.
LEMMA AnswerKeeps ==
  ASSUME CompositionInv, C!Merge \/ C!EndRoute \/ C!AdaptOutput
  PROVE CompositionInv' /\ NotRepeated
<1>1. C!Settled /\ at = "stage" /\ StageGiven /\ \A c \in C!ToSet(stage) : branch[c].response = Append(given, c)
  BY SettledAnswers DEF C!Merge, C!EndRoute, C!AdaptOutput, CompositionInv, CompositionStages
<1>2. CASE C!Merge
  <2> DEFINE v == [i \in DOMAIN stage |-> branch[stage[i]].response]
  <2>1. shape = "parallel" /\ C!End("done", v)
    BY <1>2 DEF C!Merge
  <2>2. stage = Children /\ given = C!Request
    BY <1>1, <2>1 DEF StageGiven
  <2>3. v = [i \in DOMAIN Children |-> Append(C!Request, Children[i])]
    <3>1. DOMAIN Children = 1..Len(Children)
      BY CompositionConstants DEF Names
    <3>2. \A i \in 1..Len(Children) : Children[i] \in C!ToSet(stage)
      BY <2>2, ChildNamesAre
    <3> QED BY <1>1, <2>2, <3>1, <3>2
  <2> HIDE DEF v
  <2>4. C!AnswerIsOfShape'
    BY <2>1, <2>3 DEF C!AnswerIsOfShape, C!End, C!Request
  <2> QED BY <2>1, <2>4, EndKeeps DEF Ended
<1>3. CASE C!EndRoute
  <2>1. shape = "router" /\ C!End("done", branch[Head(stage)].response)
    BY <1>3 DEF C!EndRoute
  <2>2. PICK c \in C!ChildNames : stage = <<c>> /\ given = <<"request", c>>
    BY <1>1, <2>1 DEF StageGiven
  <2>3. branch[Head(stage)].response = <<"request", c, c>>
    <3>1. Head(stage) = c /\ c \in C!ToSet(stage)
      BY <2>2, StageOfOne
    <3> QED BY <1>1, <2>2, <3>1, AppendToTwo
  <2>4. answer' = <<"request", c, c>> /\ answer'[2] = c /\ at' = "done" /\ shape' = "router"
    BY <2>1, <2>3 DEF C!End
  <2>5. C!Request \o <<c, c>> = <<"request", c, c>>
    BY OneThenTwo DEF C!Request
  <2>6. C!AnswerIsOfShape'
    BY <2>4, <2>5 DEF C!AnswerIsOfShape, C!Request
  <2> QED BY <2>1, <2>6, EndKeeps DEF Ended
<1>4. CASE C!AdaptOutput
  <2> DEFINE c == Head(Children)
  <2>1. shape = "tool" /\ C!End("done", Append(branch[Head(stage)].response, "output"))
    BY <1>4 DEF C!AdaptOutput
  <2>2. stage = <<c>> /\ given = <<"request", "input">>
    BY <1>1, <2>1 DEF StageGiven
  <2>3. branch[Head(stage)].response = <<"request", "input", c>>
    <3>1. Head(stage) = c /\ c \in C!ToSet(stage)
      BY <2>2, StageOfOne
    <3> QED BY <1>1, <2>2, <3>1, AppendToTwo
  <2>4. answer' = <<"request", "input", c, "output">> /\ at' = "done" /\ shape' = "tool"
    BY <2>1, <2>3, AppendToThree DEF C!End
  <2>5. C!Request \o <<"input", c, "output">> = <<"request", "input", c, "output">>
    BY OneThenThree DEF C!Request
  <2>6. C!AnswerIsOfShape'
    BY <2>4, <2>5 DEF C!AnswerIsOfShape, C!Request
  <2> QED BY <2>1, <2>6, EndKeeps DEF Ended
<1> QED BY <1>2, <1>3, <1>4

\* Every step of a composition keeps its invariant, and repeats what was
\* settled after a crash only.
LEMMA CompositionKept ==
  ASSUME CompositionInv, C!NodeStep \/ (\E c \in C!ChildNames : C!ChildStep(c)) \/ C!Resume \/ C!CrashStep
  PROVE CompositionInv' /\ NotRepeated
<1>1. CASE C!BeginSequential \/ C!BeginParallel \/ (\E selection \in Selections : C!Select(selection))
           \/ (\E name \in CallNames : C!AdaptInput(name))
  <2>1. CASE C!BeginSequential
    BY <2>1, BeginKeeps DEF C!BeginSequential
  <2>2. CASE C!BeginParallel
    BY <2>2, BeginKeeps DEF C!BeginParallel
  <2>3. CASE \E selection \in Selections : C!Select(selection)
    <3>1. PICK selection \in Selections : C!Select(selection)
      BY <2>3
    <3>2. /\ shape = "router" /\ at = "begin" /\ selection \in C!ChildNames
          /\ C!Enter(<<selection>>, Append(given, selection))
      BY <3>1 DEF C!Select
    <3>3. \E c \in C!ChildNames : <<selection>> = <<c>> /\ Append(given, selection) = Append(given, c)
      BY <3>2
    <3> QED BY <3>2, <3>3, BeginKeeps
  <2>4. CASE \E name \in CallNames : C!AdaptInput(name)
    BY <2>4, BeginKeeps DEF C!AdaptInput
  <2> QED BY <1>1, <2>1, <2>2, <2>3, <2>4
<1>2. CASE C!BeginFails \/ (\E selection \in Selections : C!SelectionRefused(selection))
           \/ (\E name \in CallNames : C!CallRefused(name)) \/ C!ReducerFails \/ C!OutputFails \/ C!StageFails
  <2>1. C!End("failed", C!NoAnswer)
    BY <1>2 DEF C!BeginFails, C!SelectionRefused, C!CallRefused, C!ReducerFails, C!OutputFails, C!StageFails
  <2> QED BY <2>1, EndKeeps DEF Ended
<1>3. CASE \E c \in C!ChildNames : C!ChildStep(c)
  BY <1>3, ChildStepKeeps
<1>4. CASE C!CrashStep
  BY <1>4, CrashKeeps DEF C!CrashStep
<1> QED BY <1>1, <1>2, <1>3, <1>4, SequenceKeeps, AnswerKeeps, SuspendKeeps, ResumeKeeps DEF C!NodeStep

\* A composition begins without a stage.
LEMMA CompositionBegins ==
  ASSUME C!Init
  PROVE CompositionInv
<1>1. /\ shape \in C!Shapes /\ at = "begin" /\ stage = <<>> /\ given = C!Request
      /\ branch = C!Start(<<>>) /\ crashes = 0 /\ interrupts = 0
  BY DEF C!Init
<1>2. C!ToSet(stage) = {} /\ stage \in Names
  BY <1>1, StageOfNone
<1>3. CompositionTyped
  <2>1. <<"request">> \in Names
    <3>1. "request" \in Workers
      BY DEF Workers
    <3> QED BY <3>1 DEF Names
  <2> QED BY <1>1, <1>2, <2>1, PlanExecAssumption DEF CompositionTyped, C!Request
<1>4. BranchSound
  BY <1>1, <1>2, StartIs, StageOfNone DEF BranchSound
<1>5. CompositionSlots
  <2>1. C!With("running") = {}
    BY <1>2 DEF C!With
  <2>2. Cardinality({}) <= MaxParallelism
    BY FS_EmptySet, CompositionConstants
  <2> QED BY <1>1, <2>1, <2>2 DEF CompositionSlots
<1> QED BY <1>1, <1>3, <1>4, <1>5 DEF CompositionInv, CompositionStages, C!AnswerIsOfShape

\* The invariant has what the stage and the answer must be.
LEMMA CompositionShape ==
  ASSUME CompositionInv
  PROVE C!TypeOK /\ C!AnswerIsOfShape
<1>1. CompositionTyped /\ BranchSound /\ CompositionSlots
  BY DEF CompositionInv
<1>2. ASSUME NEW c \in C!ToSet(stage)
      PROVE /\ branch[c].status \in {"ready", "running", "settled", "failed", "waiting"}
            /\ (branch[c].response # C!NoAnswer) = (branch[c].status = "settled")
  <2>1. c \in Workers /\ given \in Seq(Workers)
    BY <1>1, StageSet DEF CompositionTyped, Names
  <2>2. Append(given, c) # <<>>
    BY <2>1, AppendProperties
  <2> QED BY <1>1, <2>2, BranchFields DEF C!NoAnswer
<1>3. DOMAIN branch = C!ToSet(stage)
  BY <1>1, BranchFields
<1>4. C!Cardinality(C!With("running")) <= MaxParallelism
  BY <1>1, SameCardinality DEF CompositionSlots
<1>5. C!TypeOK
  BY <1>1, <1>2, <1>3, <1>4 DEF C!TypeOK, CompositionTyped, CompositionSlots, C!Ended, Ended
<1> QED BY <1>5 DEF CompositionInv

-----------------------------------------------------------------------------
(* The agent that runs *)

\* A step is one of the agent that runs, and leaves the others alone.
LEMMA AgentSteps ==
  ASSUME AgentNext
  PROVE /\ agent' = agent
        /\ \/ /\ agent = "planexec" /\ UNCHANGED ownOfComposition
              /\ NodeStep \/ ChildStep \/ ResumeStep \/ Crash
           \/ /\ agent = "supervisor" /\ UNCHANGED ownOfComposition
              /\ S!NodeStep \/ S!ChildStep \/ S!ResumeChild \/ S!Crash
           \/ /\ agent = "loop" /\ UNCHANGED ownOfComposition
              /\ L!NodeStep \/ L!ChildStep \/ L!Crash
           \/ /\ agent = "composition"
              /\ C!NodeStep \/ (\E c \in C!ChildNames : C!ChildStep(c)) \/ C!Resume \/ C!CrashStep
<1>1. CASE AgentNode
  BY <1>1 DEF AgentNode, StepOf
<1>2. CASE AgentChild
  BY <1>2 DEF AgentChild, StepOf
<1>3. CASE AgentResume
  BY <1>3 DEF AgentResume
<1>4. CASE AgentCrash
  BY <1>4 DEF AgentCrash, StepOf
<1> QED BY <1>1, <1>2, <1>3, <1>4 DEF AgentNext

\* An agent that is no composition has no stage.
LEMMA NotCompositionKept ==
  ASSUME NotComposition, UNCHANGED ownOfComposition
  PROVE NotComposition' /\ NotRepeated
<1>1. branch' = branch /\ NotComposition'
  BY DEF NotComposition, ownOfComposition, C!Start, C!ToSet, C!NoAnswer
<1> QED BY <1>1 DEF NotRepeated

\* What nothing changes stays.
LEMMA AgentStutters ==
  ASSUME AgentInv, UNCHANGED agentVars
  PROVE AgentInv' /\ NotRepeated
<1>1. /\ agent' = agent /\ state' = state /\ at' = at /\ given' = given /\ child' = child
      /\ crashes' = crashes /\ interrupts' = interrupts /\ decision' = decision /\ asked' = asked
      /\ request' = request /\ response' = response /\ judged' = judged
      /\ shape' = shape /\ stage' = stage /\ branch' = branch /\ answer' = answer
  BY DEF agentVars, vars, ownOfSupervisor, ownOfLoop, ownOfComposition
<1>2. UNCHANGED ownOfComposition
  BY <1>1 DEF ownOfComposition
<1>3. ASSUME PlanInv PROVE PlanInv'
  BY <1>1, <1>3 DEF PlanInv, PlanTyped, PlanAccepted, PlanGiven, PlanFollowed, PlanResults, PlanCounted,
                    OneResultPerStep, Exhausted
<1>4. ASSUME SupervisorInv PROVE SupervisorInv'
  BY <1>1, <1>4 DEF SupervisorInv, SupervisorTyped, SupervisorDelegates, S!ResultsAreTheDelegations, S!ResultOf
<1>5. ASSUME LoopInv PROVE LoopInv'
  BY <1>1, <1>5 DEF LoopInv, LoopTyped, LoopStages, NextRequest, L!IterationsAreChained
<1>6. ASSUME CompositionInv PROVE CompositionInv'
  BY <1>1, <1>6 DEF CompositionInv, CompositionTyped, BranchSound, CompositionSlots, CompositionStages, StageGiven,
                    C!AnswerIsOfShape, C!ToSet, C!With, C!NoAnswer, C!Request
<1>7. NotRepeated
  BY <1>1 DEF NotRepeated
<1> QED BY <1>1, <1>2, <1>3, <1>4, <1>5, <1>6, <1>7, NotCompositionKept DEF AgentInv

\* Every step keeps the invariant of the agent that runs.
LEMMA AgentInvKept ==
  ASSUME AgentInv, [AgentNext]_agentVars
  PROVE AgentInv' /\ NotRepeated
<1>1. CASE UNCHANGED agentVars
  BY <1>1, AgentStutters
<1>2. CASE AgentNext
  <2>1. agent' = agent
    BY <1>2, AgentSteps
  <2>2. CASE agent = "planexec"
    <3>1. PlanInv /\ NotComposition
      BY <2>2 DEF AgentInv
    <3>2. PlanInv' /\ NotComposition' /\ NotRepeated
      BY <1>2, <2>2, <3>1, AgentSteps, PlanInvKept, NotCompositionKept
    <3> QED BY <2>1, <2>2, <3>2 DEF AgentInv
  <2>3. CASE agent = "supervisor"
    <3>1. SupervisorInv /\ NotComposition
      BY <2>3 DEF AgentInv
    <3>2. SupervisorInv' /\ NotComposition' /\ NotRepeated
      BY <1>2, <2>3, <3>1, AgentSteps, SupervisorInvKept, NotCompositionKept
    <3> QED BY <2>1, <2>3, <3>2 DEF AgentInv
  <2>4. CASE agent = "loop"
    <3>1. LoopInv /\ NotComposition
      BY <2>4 DEF AgentInv
    <3>2. LoopInv' /\ NotComposition' /\ NotRepeated
      BY <1>2, <2>4, <3>1, AgentSteps, LoopInvKept, NotCompositionKept
    <3> QED BY <2>1, <2>4, <3>2 DEF AgentInv
  <2>5. CASE agent = "composition"
    <3>1. CompositionInv
      BY <2>5 DEF AgentInv
    <3>2. CompositionInv' /\ NotRepeated
      BY <1>2, <2>5, <3>1, AgentSteps, CompositionKept
    <3> QED BY <2>1, <2>5, <3>2 DEF AgentInv
  <2> QED BY <2>2, <2>3, <2>4, <2>5 DEF AgentInv
<1> QED BY <1>1, <1>2

\* A run begins in the invariant of its agent.
LEMMA AgentBegins == AgentInit => AgentInv
BY PlanInvBegins, SupervisorInvBegins, LoopInvBegins, CompositionBegins DEF AgentInit, AgentInv

\* Whichever agent runs: its records are bounded, typed and agree with the
\* node that runs next and what that was given (planexec.go, supervisor.go,
\* loop.go), and what a stage holds of each child is what the child was
\* given and answered (sequential.go, parallel.go, router.go, agenttool.go).
THEOREM AgentInvHolds == AgentSpec => []AgentInv
<1>1. AgentInit => AgentInv
  BY AgentBegins
<1>2. AgentInv /\ [AgentNext]_agentVars => AgentInv'
  BY AgentInvKept
<1> QED BY <1>1, <1>2, PTL DEF AgentSpec

\* What the replanner, the decider and the condition judge, and what the run
\* tells in the end, is what was done, each piece once and in its order
\* (planexec.go:259, supervisor.go:162, loop.go:138).
THEOREM WhatWasDoneIsRecorded == AgentSpec => []RecordsAreWhatWasDone
<1>1. ASSUME AgentInv PROVE RecordsAreWhatWasDone
  BY <1>1, PlanRecords, SupervisorRecords, LoopRecords DEF AgentInv, RecordsAreWhatWasDone
<1> QED BY <1>1, AgentInvHolds, PTL

\* The answer of a run is what its shape promises, whichever child settled
\* first, failed before, interrupted or was run again (parallel.go:118).
THEOREM AnswersFollowTheShape == AgentSpec => []AnswerFollowsShape
<1>1. ASSUME AgentInv PROVE AnswerFollowsShape
  BY <1>1, CompositionShape DEF AgentInv, AnswerFollowsShape
<1> QED BY <1>1, AgentInvHolds, PTL

\* Within its stage a child whose result was settled does not run again after
\* an interrupt: only a crash may repeat what it did (parallel.go:141).
THEOREM SettledOnce == AgentSpec => SettledIsNotRepeated
<1>1. AgentInv /\ [AgentNext]_agentVars =>
        [\A c \in DOMAIN branch :
           (given' = given /\ branch[c].status = "settled" /\ c \in DOMAIN branch' /\ branch'[c].status # "settled")
              => crashes' # crashes]_agentVars
  BY AgentInvKept DEF NotRepeated
<1> QED BY <1>1, AgentInvHolds, PTL DEF AgentSpec, SettledIsNotRepeated

-----------------------------------------------------------------------------
(* The agents that judge implement JudgedWork *)

\* What the mapping shows of a run.
Left ==
  CASE agent = "planexec" -> MaxTransitions + 1 - Len(state.results)
    [] agent = "supervisor" -> MaxRounds - state.round
    [] agent = "loop" -> MaxIterations - state.iteration
    [] agent = "composition" -> 0

Verdict ==
  CASE agent = "planexec" ->
         IF at \in Ended \cup {"replan"} THEN "none"
         ELSE IF state.ready THEN "stop" ELSE "go"
    [] agent = "supervisor" ->
         IF at \in {"delegate", "record"} THEN "go"
         ELSE IF at = "finish" THEN "stop" ELSE "none"
    [] agent = "loop" ->
         IF at = "child" THEN "go" ELSE IF at = "finish" THEN "stop" ELSE "none"
    [] agent = "composition" -> "none"

Outcome == IF at \in Ended /\ agent # "composition" THEN at ELSE "running"

\* What a step of JudgedWork, or none, is under the mapping.
LEMMA JudgedSteps ==
  /\ Left \in Nat /\ Verdict \in {"none", "go"} /\ Outcome = "running" => J!Init
  /\ /\ Outcome = "running" /\ Verdict = "go" /\ Left > 0
     /\ Left' = Left - 1 /\ Verdict' = "none" /\ Outcome' = "running"
     => J!Next
  /\ /\ Outcome = "running" /\ Verdict = "none"
     /\ Left' = Left /\ Verdict' \in {"go", "stop"} /\ Outcome' = "running"
     => J!Next
  /\ /\ Outcome = "running" /\ Verdict = "stop"
     /\ Left' = Left /\ Verdict' = "none" /\ Outcome' = "done"
     => J!Next
  /\ /\ Outcome = "running"
     /\ Left' = Left /\ Verdict' = "none" /\ Outcome' = "failed"
     => J!Next
  /\ Left' = Left /\ Verdict' = Verdict /\ Outcome' = Outcome => UNCHANGED J!vars
<1>1. Left \in Nat /\ Verdict \in {"none", "go"} /\ Outcome = "running" => J!Init
  BY DEF J!Init, Left, Verdict, Outcome
<1>2. /\ Outcome = "running" /\ Verdict = "go" /\ Left > 0
      /\ Left' = Left - 1 /\ Verdict' = "none" /\ Outcome' = "running"
      => J!Work
  BY DEF J!Work, Left, Verdict, Outcome
<1>3. /\ Outcome = "running" /\ Verdict = "none"
      /\ Left' = Left /\ Verdict' \in {"go", "stop"} /\ Outcome' = "running"
      => J!Judge
  BY DEF J!Judge, Left, Verdict, Outcome
<1>4. /\ Outcome = "running" /\ Verdict = "stop"
      /\ Left' = Left /\ Verdict' = "none" /\ Outcome' = "done"
      => J!Deliver
  BY DEF J!Deliver, Left, Verdict, Outcome
<1>5. /\ Outcome = "running"
      /\ Left' = Left /\ Verdict' = "none" /\ Outcome' = "failed"
      => J!Fail
  BY DEF J!Fail, Left, Verdict, Outcome
<1>6. Left' = Left /\ Verdict' = Verdict /\ Outcome' = Outcome => UNCHANGED J!vars
  BY DEF J!vars, Left, Verdict, Outcome
<1> QED BY <1>1, <1>2, <1>3, <1>4, <1>5, <1>6 DEF J!Next

\* Where planexec goes, and what of its results and of its judgement it changes.
LEMMA PlanMoves ==
  ASSUME PlanInv, NodeStep \/ ChildStep \/ ResumeStep \/ Crash
  PROVE \/ at \in Nodes /\ at' = "failed" /\ state' = state
        \/ /\ at = "record" /\ at' = "replan"
           /\ Len(state'.results) = Len(state.results) + 1
        \/ at = "replan" /\ at' \in {"continue", "accept"} /\ state'.results = state.results
        \/ at = "report" /\ at' = "done" /\ state' = state
        \/ /\ at \in Nodes \ {"replan"} /\ at' \in Nodes \ {"replan"}
           /\ state'.results = state.results /\ state'.ready = state.ready
        \/ at \in Nodes /\ at' = at /\ state' = state
<1>1. state \in StateRecord /\ state.results \in Seq(ResultRecord)
  BY StateFields DEF PlanInv, PlanTyped
<1>2. ASSUME NEW node \in Nodes, Fail(node)
      PROVE at \in Nodes /\ at' = "failed" /\ state' = state
  BY <1>2 DEF Fail, Commit
<1>3. CASE AcceptPlan
  BY <1>1, <1>3 DEF AcceptPlan, Commit, Nodes, StateRecord
<1>4. CASE RecordStep
  <2>1. CASE Fail("record")
    BY <1>2, <2>1 DEF Nodes
  <2>2. CASE ~Fail("record")
    <3> DEFINE r == [version |-> state.plan.version, step |-> given]
    <3>1. /\ at = "record" /\ at' = "replan"
          /\ state' = [state EXCEPT !.plan.steps[state.next + 1] = given, !.results = Append(@, r), !.next = @ + 1]
      BY <1>4, <2>2 DEF RecordStep, Commit
    <3>2. state'.results = Append(state.results, r)
      BY <1>1, <3>1 DEF StateRecord
    <3> HIDE DEF r
    <3> QED BY <1>1, <3>1, <3>2
  <2> QED BY <2>1, <2>2
<1>5. CASE ReplanAgain \/ ReplanReplaces \/ ReplanDone
  BY <1>1, <1>5 DEF ReplanAgain, ReplanReplaces, ReplanDone, Commit, StateRecord
<1>6. CASE RefusePlan \/ ReplanFails \/ CallFails
  BY <1>2, <1>6 DEF RefusePlan, ReplanFails, CallFails, Nodes
<1>7. CASE CreatePlan \/ Continue \/ DispatchStep \/ Report
  BY <1>2, <1>7 DEF CreatePlan, Continue, DispatchStep, Report, Commit, Nodes
<1>8. CASE StartStep \/ ChildStep \/ ResumeStep
  BY <1>8 DEF StartStep, ChildStep, StepCompletes, StepFails, StepInterrupts, ResumeStep, InExecute, Nodes
<1>9. CASE Crash
  BY <1>9 DEF Crash
<1> QED BY <1>3, <1>4, <1>5, <1>6, <1>7, <1>8, <1>9 DEF NodeStep

\* A step is a unit of work, and a replan its judgement.
LEMMA PlanJudges ==
  ASSUME agent = "planexec", agent' = agent, PlanInv, PlanInv',
         NodeStep \/ ChildStep \/ ResumeStep \/ Crash
  PROVE [J!Next]_(J!vars)
<1> DEFINE n == Len(state.results)
           v == IF at \in Ended \cup {"replan"} THEN "none" ELSE IF state.ready THEN "stop" ELSE "go"
           o == IF at \in Ended THEN at ELSE "running"
<1>1. Left = MaxTransitions + 1 - n /\ Verdict = v /\ Outcome = o
  BY DEF Left, Verdict, Outcome
<1>2. Left' = MaxTransitions + 1 - n' /\ Verdict' = v' /\ Outcome' = o'
  BY DEF Left, Verdict, Outcome
<1>3. /\ n \in Nat /\ n' \in Nat /\ MaxTransitions \in Nat /\ state.transitions \in Nat
      /\ state.transitions <= MaxTransitions
  <2>1. PlanTyped /\ PlanTyped'
    BY DEF PlanInv
  <2>2. n \in Nat /\ state.transitions \in 0..MaxTransitions /\ MaxTransitions \in Nat
    BY <2>1, StateFields, PlanExecAssumption
  <2>3. n' \in Nat
    <3>1. state' \in StateRecord
      BY <2>1 DEF PlanTyped
    <3>2. state'.results \in Seq(ResultRecord)
      BY <3>1 DEF StateRecord
    <3> QED BY <3>2
  <2> QED BY <2>2, <2>3
<1>4. CASE at \in Nodes /\ at' = "failed" /\ state' = state
  <2>1. n' = n /\ o = "running" /\ o' = "failed" /\ v' = "none"
    BY <1>4 DEF Nodes, Ended
  <2> QED BY <1>1, <1>2, <2>1, JudgedSteps
<1>5. CASE at = "record" /\ at' = "replan" /\ Len(state'.results) = Len(state.results) + 1
  <2>1. n' = n + 1 /\ o = "running" /\ o' = "running" /\ v' = "none"
    BY <1>5 DEF Ended
  <2>2. ~state.ready /\ n = state.transitions
    BY <1>3, <1>5 DEF PlanInv, PlanCounted, Nodes, Ended
  <2>3. v = "go"
    BY <1>5, <2>2 DEF Ended
  <2>4. MaxTransitions + 1 - n > 0 /\ MaxTransitions + 1 - (n + 1) = (MaxTransitions + 1 - n) - 1
    BY <1>3, <2>2
  <2> HIDE DEF n, v, o
  <2> QED BY <1>1, <1>2, <2>1, <2>3, <2>4, JudgedSteps
<1>6. CASE at = "replan" /\ at' \in {"continue", "accept"} /\ state'.results = state.results
  <2>1. n' = n /\ o = "running" /\ o' = "running" /\ v = "none" /\ v' \in {"go", "stop"}
    BY <1>6 DEF Ended
  <2> QED BY <1>1, <1>2, <2>1, JudgedSteps
<1>7. CASE at = "report" /\ at' = "done" /\ state' = state
  <2>1. n' = n /\ o = "running" /\ o' = "done" /\ v' = "none"
    BY <1>7 DEF Ended
  <2>2. v = "stop"
    BY <1>7 DEF PlanInv, PlanCounted, Ended
  <2> QED BY <1>1, <1>2, <2>1, <2>2, JudgedSteps
<1>8. CASE \/ /\ at \in Nodes \ {"replan"} /\ at' \in Nodes \ {"replan"}
              /\ state'.results = state.results /\ state'.ready = state.ready
           \/ at \in Nodes /\ at' = at /\ state' = state
  <2>1. n' = n /\ o' = o /\ v' = v
    BY <1>8 DEF Nodes, Ended
  <2> QED BY <1>1, <1>2, <2>1, JudgedSteps
<1> QED BY <1>4, <1>5, <1>6, <1>7, <1>8, PlanMoves

\* A delegation is a unit of work, and a decision its judgement.
LEMMA SupervisorJudges ==
  ASSUME agent = "supervisor", agent' = agent, SupervisorInv, SupervisorInv',
         S!NodeStep \/ S!ChildStep \/ S!ResumeChild \/ S!Crash
  PROVE [J!Next]_(J!vars)
<1> DEFINE n == state.round
           v == IF at \in {"delegate", "record"} THEN "go" ELSE IF at = "finish" THEN "stop" ELSE "none"
           o == IF at \in Ended THEN at ELSE "running"
<1>1. Left = MaxRounds - n /\ Verdict = v /\ Outcome = o
  BY DEF Left, Verdict, Outcome
<1>2. Left' = MaxRounds - n' /\ Verdict' = v' /\ Outcome' = o'
  BY DEF Left, Verdict, Outcome
<1>3. n \in Nat /\ MaxRounds \in Nat
  BY SupervisorConstants DEF SupervisorInv, SupervisorTyped
<1>4. \/ at \in S!Nodes /\ at' = "failed" /\ n' = n
      \/ at = "record" /\ at' = "decide" /\ n' = n + 1
      \/ at = "decide" /\ at' \in {"delegate", "finish"} /\ n' = n
      \/ at = "finish" /\ at' = "done" /\ n' = n
      \/ at = "start" /\ at' = "decide" /\ n' = n
      \/ at = "delegate" /\ at' = "record" /\ n' = n
      \/ at \in S!Nodes /\ at' = at /\ n' = n
  <2>1. CASE S!Record
    BY <2>1 DEF S!Record, S!Move
  <2>2. CASE \E d \in Decisions : S!Decide(d) \/ S!DecisionRefused(d)
    BY <2>2 DEF S!Decide, S!DecisionRefused, S!Move, S!Nodes
  <2>3. CASE S!Start \/ S!DeciderFails \/ S!StartChild \/ S!Finish \/ S!ChildStep \/ S!ResumeChild \/ S!Crash
    BY <2>3 DEF S!Start, S!DeciderFails, S!StartChild, S!Finish, S!ChildStep, S!ChildReturns,
                S!ChildFails, S!ChildInterrupts, S!ResumeChild, S!Crash, S!InDelegate, S!Move, S!Nodes
  <2> QED BY <2>1, <2>2, <2>3 DEF S!NodeStep
<1>5. CASE at \in S!Nodes /\ at' = "failed" /\ n' = n
  <2>1. o = "running" /\ o' = "failed" /\ v' = "none"
    BY <1>5 DEF S!Nodes, Ended
  <2> QED BY <1>1, <1>2, <1>5, <2>1, JudgedSteps
<1>6. CASE at = "record" /\ at' = "decide" /\ n' = n + 1
  <2>1. o = "running" /\ o' = "running" /\ v = "go" /\ v' = "none"
    BY <1>6 DEF Ended
  <2>2. n < MaxRounds
    BY <1>6 DEF SupervisorInv, SupervisorDelegates
  <2>3. MaxRounds - n > 0 /\ MaxRounds - (n + 1) = (MaxRounds - n) - 1
    BY <1>3, <2>2
  <2> HIDE DEF n, v, o
  <2> QED BY <1>1, <1>2, <1>6, <2>1, <2>3, JudgedSteps
<1>7. CASE at = "decide" /\ at' \in {"delegate", "finish"} /\ n' = n
  <2>1. o = "running" /\ o' = "running" /\ v = "none" /\ v' \in {"go", "stop"}
    BY <1>7 DEF Ended
  <2> QED BY <1>1, <1>2, <1>7, <2>1, JudgedSteps
<1>8. CASE at = "finish" /\ at' = "done" /\ n' = n
  <2>1. o = "running" /\ o' = "done" /\ v = "stop" /\ v' = "none"
    BY <1>8 DEF Ended
  <2> QED BY <1>1, <1>2, <1>8, <2>1, JudgedSteps
<1>9. CASE \/ at = "start" /\ at' = "decide" /\ n' = n
           \/ at = "delegate" /\ at' = "record" /\ n' = n
           \/ at \in S!Nodes /\ at' = at /\ n' = n
  <2>1. n' = n /\ o' = o /\ v' = v
    BY <1>9 DEF Ended
  <2> QED BY <1>1, <1>2, <2>1, JudgedSteps
<1> QED BY <1>4, <1>5, <1>6, <1>7, <1>8, <1>9

\* An iteration is a unit of work, and the condition its judgement.
LEMMA LoopJudges ==
  ASSUME agent = "loop", agent' = agent, LoopInv, LoopInv',
         L!NodeStep \/ L!ChildStep \/ L!Crash
  PROVE [J!Next]_(J!vars)
<1> DEFINE n == state.iteration
           v == IF at = "child" THEN "go" ELSE IF at = "finish" THEN "stop" ELSE "none"
           o == IF at \in Ended THEN at ELSE "running"
<1>1. Left = MaxIterations - n /\ Verdict = v /\ Outcome = o
  BY DEF Left, Verdict, Outcome
<1>2. Left' = MaxIterations - n' /\ Verdict' = v' /\ Outcome' = o'
  BY DEF Left, Verdict, Outcome
<1>3. n \in Nat /\ MaxIterations \in Nat /\ (child # "idle" => at = "child")
  BY LoopConstants, LoopFields DEF LoopInv, LoopTyped
<1>4. \/ at \in L!Nodes /\ at' = "failed" /\ n' = n
      \/ at = "child" /\ at' = "condition" /\ n' = n + 1
      \/ at = "condition" /\ at' \in {"child", "finish"} /\ n' = n
      \/ at = "finish" /\ at' = "done" /\ n' = n
      \/ at \in L!Nodes /\ at' = at /\ n' = n
  <2>1. CASE \E reply \in Responses : L!ChildReturns(reply)
    BY <1>3, <2>1 DEF L!ChildReturns
  <2>2. CASE \E decided \in L!Decided : L!Condition(decided)
    BY <2>2 DEF L!Condition, L!Nodes
  <2>3. CASE L!EnterChild \/ L!ChildFails \/ L!ChildInterrupts \/ L!ConditionFails \/ L!Finish \/ L!Crash
    BY <1>3, <2>3 DEF L!EnterChild, L!ChildFails, L!ChildInterrupts, L!ConditionFails, L!Finish, L!Crash, L!Nodes
  <2> QED BY <2>1, <2>2, <2>3 DEF L!NodeStep, L!ChildStep
<1>5. CASE at \in L!Nodes /\ at' = "failed" /\ n' = n
  <2>1. o = "running" /\ o' = "failed" /\ v' = "none"
    BY <1>5 DEF L!Nodes, Ended
  <2> QED BY <1>1, <1>2, <1>5, <2>1, JudgedSteps
<1>6. CASE at = "child" /\ at' = "condition" /\ n' = n + 1
  <2>1. o = "running" /\ o' = "running" /\ v = "go" /\ v' = "none"
    BY <1>6 DEF Ended
  <2>2. n < MaxIterations
    BY <1>6 DEF LoopInv, LoopStages
  <2>3. MaxIterations - n > 0 /\ MaxIterations - (n + 1) = (MaxIterations - n) - 1
    BY <1>3, <2>2
  <2> HIDE DEF n, v, o
  <2> QED BY <1>1, <1>2, <1>6, <2>1, <2>3, JudgedSteps
<1>7. CASE at = "condition" /\ at' \in {"child", "finish"} /\ n' = n
  <2>1. o = "running" /\ o' = "running" /\ v = "none" /\ v' \in {"go", "stop"}
    BY <1>7 DEF Ended
  <2> QED BY <1>1, <1>2, <1>7, <2>1, JudgedSteps
<1>8. CASE at = "finish" /\ at' = "done" /\ n' = n
  <2>1. o = "running" /\ o' = "done" /\ v = "stop" /\ v' = "none"
    BY <1>8 DEF Ended
  <2> QED BY <1>1, <1>2, <1>8, <2>1, JudgedSteps
<1>9. CASE at \in L!Nodes /\ at' = at /\ n' = n
  <2>1. n' = n /\ o' = o /\ v' = v
    BY <1>9 DEF Ended
  <2> QED BY <1>1, <1>2, <2>1, JudgedSteps
<1> QED BY <1>4, <1>5, <1>6, <1>7, <1>8, <1>9

\* What does not change shows nothing.
LEMMA JudgedStutters ==
  ASSUME UNCHANGED agentVars
  PROVE UNCHANGED J!vars
<1>1. agent' = agent /\ state' = state /\ at' = at
  BY DEF agentVars, vars
<1>2. Left' = Left /\ Verdict' = Verdict /\ Outcome' = Outcome
  BY <1>1 DEF Left, Verdict, Outcome
<1> QED BY <1>2, JudgedSteps

\* Each agent begins with its whole allowance, and with a unit to do, or to decide on.
LEMMA JudgedBegins ==
  ASSUME AgentInit
  PROVE J!Init
<1>1. CASE agent = "planexec" /\ Init
  <2>1. Left = MaxTransitions + 1 - Len(state.results) /\ state.results = <<>> /\ MaxTransitions \in Nat
    BY <1>1, PlanExecAssumption DEF Left, Init
  <2>2. Left \in Nat
    BY <2>1
  <2>3. Verdict = "go" /\ Outcome = "running"
    BY <1>1 DEF Verdict, Outcome, Init, Ended
  <2> QED BY <2>2, <2>3, JudgedSteps
<1>2. CASE agent = "supervisor" /\ S!Init
  <2>1. Left = MaxRounds - 0 /\ MaxRounds \in Nat
    BY <1>2, SupervisorConstants DEF Left, S!Init
  <2>2. Left \in Nat
    BY <2>1
  <2>3. Verdict = "none" /\ Outcome = "running"
    BY <1>2 DEF Verdict, Outcome, S!Init, Ended
  <2> QED BY <2>2, <2>3, JudgedSteps
<1>3. CASE agent = "loop" /\ L!Init
  <2>1. Left = MaxIterations - 0 /\ MaxIterations \in Nat
    BY <1>3, LoopConstants DEF Left, L!Init
  <2>2. Left \in Nat
    BY <2>1
  <2>3. Verdict = "go" /\ Outcome = "running"
    BY <1>3 DEF Verdict, Outcome, L!Init, Ended
  <2> QED BY <2>2, <2>3, JudgedSteps
<1>4. CASE agent = "composition"
  <2>1. Left = 0 /\ Verdict = "none" /\ Outcome = "running"
    BY <1>4 DEF Left, Verdict, Outcome
  <2> QED BY <2>1, JudgedSteps
<1> QED BY <1>1, <1>2, <1>3, <1>4 DEF AgentInit

\* Steps, delegations and iterations are the units of work, and replans,
\* decisions and conditions their judgements: no unit escapes its judgement,
\* none comes after the allowance is used up, and an answer rests on a
\* judgement that saw the last unit, whatever crashes and is resumed between
\* (planexec.go:259, supervisor.go:162, loop.go:138).
THEOREM AgentsJudgeTheirWork == AgentSpec => ImplementsJudgedWork
<1>1. AgentInit => J!Init
  BY JudgedBegins
<1>2. AgentInv /\ AgentInv' /\ [AgentNext]_agentVars => [J!Next]_(J!vars)
  <2> SUFFICES ASSUME AgentInv, AgentInv', [AgentNext]_agentVars PROVE [J!Next]_(J!vars)
    OBVIOUS
  <2>1. CASE UNCHANGED agentVars
    BY <2>1, JudgedStutters
  <2>2. CASE AgentNext
    <3>1. agent' = agent
      BY <2>2, AgentSteps
    <3>2. CASE agent = "planexec"
      <4>1. PlanInv /\ PlanInv' /\ (NodeStep \/ ChildStep \/ ResumeStep \/ Crash)
        BY <2>2, <3>1, <3>2, AgentSteps DEF AgentInv
      <4> QED BY <3>1, <3>2, <4>1, PlanJudges
    <3>3. CASE agent = "supervisor"
      <4>1. SupervisorInv /\ SupervisorInv' /\ (S!NodeStep \/ S!ChildStep \/ S!ResumeChild \/ S!Crash)
        BY <2>2, <3>1, <3>3, AgentSteps DEF AgentInv
      <4> QED BY <3>1, <3>3, <4>1, SupervisorJudges
    <3>4. CASE agent = "loop"
      <4>1. LoopInv /\ LoopInv' /\ (L!NodeStep \/ L!ChildStep \/ L!Crash)
        BY <2>2, <3>1, <3>4, AgentSteps DEF AgentInv
      <4> QED BY <3>1, <3>4, <4>1, LoopJudges
    <3>5. CASE agent = "composition"
      <4>1. Left' = Left /\ Verdict' = Verdict /\ Outcome' = Outcome
        BY <3>1, <3>5 DEF Left, Verdict, Outcome
      <4> QED BY <4>1, JudgedSteps
    <3> QED BY <3>2, <3>3, <3>4, <3>5 DEF AgentInv
  <2> QED BY <2>1, <2>2
<1> QED BY <1>1, <1>2, AgentInvHolds, PTL DEF AgentSpec, ImplementsJudgedWork, J!Spec

=============================================================================
