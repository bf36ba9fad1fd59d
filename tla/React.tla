------------------------------- MODULE React -------------------------------
(***************************************************************************)
(* agents/react/react.go: one run of the model-tool loop.                  *)
(*                                                                         *)
(* The workflow runtime is external.  A node of it commits its output and  *)
(* the State it set in one checkpoint, or (crash) neither, and then runs   *)
(* again; the branches of one fan-out run side by side, and a crash loses  *)
(* any of the results that no checkpoint holds yet.                        *)
(***************************************************************************)
EXTENDS Integers, Sequences, SequencesExt, FiniteSets

CONSTANTS
  Tools,             \* names of the configured tools
  InvokableTools,    \* those that run as a child workflow and may interrupt
  Names,             \* names a model may call, known or not
  Ids,               \* tool call ids
  Responses,         \* responses a model may give
  MaxTurns,
  MaxToolCalls,
  MaxParallelTools,
  MaxCrashes,        \* bound on the crashes of one run
  MaxInterrupts      \* bound on the interrupts of one run

Calls == [id : Ids, name : Names]

Intents == {"final", "tools", "repair", "refusal", "none"}

\* contract.Positive on each of the Limits, contract.Unique on the tools.
ASSUME Limits ==
  /\ MaxTurns \in Nat \ {0}
  /\ MaxToolCalls \in Nat \ {0}
  /\ MaxParallelTools \in Nat \ {0}

ASSUME ReactAssumption ==
  /\ InvokableTools \subseteq Tools
  /\ Tools \subseteq Names
  /\ Responses \subseteq [intent : Intents, role : {"assistant", ""},
                          parts : BOOLEAN, calls : Seq(Calls)]
  /\ MaxCrashes \in Nat
  /\ MaxInterrupts \in Nat

VARIABLES
  state,      \* State, as last committed
  at,         \* the node that runs next, or how the run ended
  route,      \* what the continue node gets: does a tool batch come next?
  batch,      \* calls of the current fan-out
  branch,     \* position in batch -> its branch
  crashes,
  interrupts

vars == <<state, at, route, batch, branch, crashes, interrupts>>

Nodes == {"prepare", "model", "continue", "dispatch", "tool", "observe", "finish"}
Ended == {"done", "failed"}

\* A transcript item: an input, an assistant message with its calls, the
\* message of a tool outcome, or that of a repair request.
Message(kind, id, calls, parts) == [kind |-> kind, id |-> id, calls |-> calls, parts |-> parts]
NoId == 0
Input == Message("input", NoId, <<>>, TRUE)

State == [turn : Nat, toolCalls : Nat, messages : Seq([kind : {"input", "assistant", "tool", "repair"},
            id : Ids \cup Nat, calls : Seq(Calls), parts : BOOLEAN]),
          pending : Seq([kind : {"tool", "repair"}, id : Ids \cup Nat, calls : {<<>>}, parts : {TRUE}]),
          remaining : Seq(Calls), artifacts : Seq(Nat)]

Unset == [kind |-> "nil", id |-> NoId, refs |-> FALSE]
Ready == [status |-> "ready", outcome |-> Unset]
With(status) == {i \in DOMAIN branch : branch[i].status = status}

Init ==
  /\ state = [turn |-> 0, toolCalls |-> 0, messages |-> <<Input>>, pending |-> <<>>,
              remaining |-> <<>>, artifacts |-> <<>>]
  /\ at = "prepare"
  /\ route = FALSE
  /\ batch = <<>>
  /\ branch = <<>>
  /\ crashes = 0
  /\ interrupts = 0

Fail ==
  /\ at' = "failed"
  /\ UNCHANGED <<state, route, batch, branch, crashes, interrupts>>

Commit(next, state1) ==
  /\ at' = next
  /\ state' = state1
  /\ UNCHANGED <<crashes, interrupts>>

-----------------------------------------------------------------------------
(* prepare and model *)

\* (mutant) one turn too many
PrepareLate ==
  /\ at = "prepare"
  /\ state.turn <= MaxTurns
  /\ Commit("model", [state EXCEPT !.turn = @ + 1, !.messages = @ \o state.pending, !.pending = <<>>])
  /\ UNCHANGED <<route, batch, branch>>

Prepare ==
  /\ at = "prepare"
  /\ state.turn < MaxTurns
  /\ Commit("model", [state EXCEPT !.turn = @ + 1, !.messages = @ \o state.pending, !.pending = <<>>])
  /\ UNCHANGED <<route, batch, branch>>

PrepareExhausted == at = "prepare" /\ state.turn >= MaxTurns /\ Fail

\* A response that has neither a part nor a role is not kept.
Heard(response) ==
  IF response.parts \/ response.role # ""
  THEN Append(state.messages, Message("assistant", NoId, response.calls, response.parts))
  ELSE state.messages

\* validateToolCalls: ids are unique in one response, not in the run.
ValidCalls(calls) ==
  /\ calls # <<>>
  /\ \A i, j \in DOMAIN calls : calls[i].id = calls[j].id => i = j

\* (mutant) the limit forgets the calls of earlier turns
ToolTurnPerTurn(response) ==
  /\ response.intent = "tools"
  /\ response.role = "assistant"
  /\ ValidCalls(response.calls)
  /\ Len(response.calls) <= MaxToolCalls

\* normalizeToolTurn: a whole response is accepted, or none of it.
ToolTurn(response) ==
  /\ response.intent = "tools"
  /\ response.role = "assistant"
  /\ ValidCalls(response.calls)
  /\ Len(response.calls) <= MaxToolCalls - state.toolCalls

\* Calls may come with a tool-call intent only.
OtherTurn(response, intent) == response.intent = intent /\ response.calls = <<>>

ModelCallsTools(response) ==
  /\ at = "model"
  /\ ToolTurn(response)
  /\ Commit("continue", [state EXCEPT !.messages = Heard(response),
                                      !.toolCalls = @ + Len(response.calls),
                                      !.remaining = response.calls])
  /\ route' = TRUE
  /\ UNCHANGED <<batch, branch>>

\* normalizeRepairTurn: the id of the observation is made from the turn.
ModelAsksRepair(response) ==
  /\ at = "model"
  /\ OtherTurn(response, "repair")
  /\ Commit("continue", [state EXCEPT !.messages = Heard(response),
                                      !.pending = Append(@, Message("repair", state.turn, <<>>, TRUE))])
  /\ route' = FALSE
  /\ UNCHANGED <<batch, branch>>

ModelAnswers(response) ==
  /\ at = "model"
  /\ OtherTurn(response, "final")
  /\ Commit("finish", [state EXCEPT !.messages = Heard(response)])
  /\ route' = response.parts
  /\ UNCHANGED <<batch, branch>>

\* A refusal, no intent, and whatever the cases above do not accept.
ModelRejected(response) ==
  /\ at = "model"
  /\ ~ToolTurn(response)
  /\ ~OtherTurn(response, "repair")
  /\ ~OtherTurn(response, "final")
  /\ Fail

ModelFails == at = "model" /\ Fail

-----------------------------------------------------------------------------
(* dispatch-tools, tool, observe-tools *)

IsInvokable(call) == call.name \in InvokableTools

\* (mutant) everything that is left is one batch
ToolBatchEndOfAll(calls) == Len(calls)

\* toolBatchEnd: one invokable call, or all the calls before the next one.
ToolBatchEnd(calls) ==
  IF IsInvokable(calls[1]) THEN 1
  ELSE CHOOSE n \in DOMAIN calls :
         /\ \A i \in 1..n : ~IsInvokable(calls[i])
         /\ n = Len(calls) \/ IsInvokable(calls[n + 1])

DispatchTools ==
  LET calls == state.remaining
      end == ToolBatchEnd(calls)
  IN  /\ at = "dispatch"
      /\ IF calls = <<>> THEN Fail
         ELSE /\ Commit("tool", [state EXCEPT !.remaining = SubSeq(calls, end + 1, Len(calls))])
              /\ batch' = SubSeq(calls, 1, end)
              /\ branch' = [i \in 1..end |-> Ready]
              /\ UNCHANGED route

\* A branch starts when a slot is free and no other branch has failed.
StartTool(i) ==
  /\ at = "tool"
  /\ i \in With("ready")
  /\ With("failed") = {}
  /\ Cardinality(With("running")) < MaxParallelTools
  /\ branch' = [branch EXCEPT ![i].status = "running"]
  /\ UNCHANGED <<state, at, route, batch, crashes, interrupts>>

\* What a tool may return: some outcome of some call, or nil.  An unknown
\* tool is never executed, its call is rejected.
ToolReturns(call) ==
  IF call.name \in Tools
  THEN {[kind |-> kind, id |-> id, refs |-> refs] :
          kind \in {"result", "rejected", "error", "interrupt", "nil"}, id \in Ids, refs \in BOOLEAN}
  ELSE {[kind |-> "rejected", id |-> call.id, refs |-> FALSE]}

\* (mutant) the identity of an outcome is not compared
OutcomeAcceptedUnchecked(call, outcome) == outcome.kind \notin {"nil", "interrupt"}

\* toolDispatcher.Invoke: an outcome that is not the call's, or an interrupt
\* that no Workflow can continue, is an error.
OutcomeAccepted(call, outcome) ==
  /\ outcome.kind \notin {"nil", "interrupt"}
  /\ outcome.id = call.id

ToolSettles(i, outcome) ==
  /\ at = "tool"
  /\ i \in With("running")
  /\ outcome \in ToolReturns(batch[i])
  /\ branch' = [branch EXCEPT ![i] =
       IF OutcomeAccepted(batch[i], outcome)
       THEN [status |-> "settled", outcome |-> outcome]
       ELSE [status |-> "failed", outcome |-> Unset]]
  /\ UNCHANGED <<state, at, route, batch, crashes, interrupts>>

\* The child workflow of an invokable tool interrupts.
ToolInterrupts(i) ==
  /\ at = "tool"
  /\ i \in With("running")
  /\ IsInvokable(batch[i])
  /\ interrupts < MaxInterrupts
  /\ interrupts' = interrupts + 1
  /\ branch' = [branch EXCEPT ![i].status = "waiting"]
  /\ UNCHANGED <<state, at, route, batch, crashes>>

\* SettleAll: the fan-out ends when no branch runs and none can start.
ToolsSettled ==
  /\ at = "tool"
  /\ \A i \in DOMAIN branch : branch[i].status = "settled"
  /\ Commit("observe", state)
  /\ UNCHANGED <<route, batch, branch>>

\* (mutant) the branches that never started are waited for
ToolsFailedLate ==
  /\ at = "tool"
  /\ With("failed") # {}
  /\ With("running") \cup With("ready") = {}
  /\ Fail

ToolsFailed ==
  /\ at = "tool"
  /\ With("failed") # {}
  /\ With("running") = {}
  /\ Fail

ToolsSuspend ==
  /\ at = "tool"
  /\ With("waiting") # {}
  /\ With("failed") \cup With("running") \cup With("ready") = {}
  /\ at' = "suspended"
  /\ UNCHANGED <<state, route, batch, branch, crashes, interrupts>>

\* toolOutcomeRefs: the references of a result, the partial ones of an error.
\* A reference is named by the number of its call in the run.
Refs(i) ==
  LET outcome == branch[i].outcome
      before == state.toolCalls - Len(state.remaining) - Len(batch)
  IN  IF outcome.refs /\ outcome.kind \in {"result", "error"} THEN <<before + i>> ELSE <<>>

\* recordToolOutcome, for each outcome in the order of the calls.
Observation(i) == Message("tool", branch[i].outcome.id, <<>>, TRUE)

ObserveTools ==
  /\ at = "observe"
  /\ Commit("continue", [state EXCEPT
       !.pending = @ \o [i \in DOMAIN batch |-> Observation(i)],
       !.artifacts = @ \o FlattenSeq([i \in DOMAIN batch |-> Refs(i)])])
  /\ route' = (state.remaining # <<>>)
  /\ batch' = <<>>
  /\ branch' = <<>>

-----------------------------------------------------------------------------
(* continue and finish *)

Continue ==
  /\ at = "continue"
  /\ Commit(IF route THEN "dispatch" ELSE "prepare", state)
  /\ UNCHANGED <<route, batch, branch>>

\* A final intent must come with a message; route is what finish was given.
Finish ==
  /\ at = "finish"
  /\ route
  /\ Commit("done", state)
  /\ UNCHANGED <<route, batch, branch>>

FinishEmpty == at = "finish" /\ ~route /\ Fail

-----------------------------------------------------------------------------
(* the runtime *)

\* The process dies and another one continues from the last checkpoint.  The
\* results in kept were in it, the others are computed again.
Crash(kept) ==
  /\ at \in Nodes
  /\ crashes < MaxCrashes
  /\ crashes' = crashes + 1
  /\ branch' = [i \in DOMAIN branch |->
       IF i \in kept \/ branch[i].status = "waiting" \/ at = "observe" THEN branch[i] ELSE Ready]
  /\ UNCHANGED <<state, at, route, batch, interrupts>>

\* The caller resumes: the child goes on where it interrupted.
Resume ==
  /\ at = "suspended"
  /\ at' = "tool"
  /\ branch' = [i \in DOMAIN branch |-> IF branch[i].status = "waiting" THEN Ready ELSE branch[i]]
  /\ UNCHANGED <<state, route, batch, crashes, interrupts>>

ModelTurn(response) ==
  \/ ModelCallsTools(response) \/ ModelAsksRepair(response)
  \/ ModelAnswers(response) \/ ModelRejected(response)

NodeStep ==
  \/ Prepare \/ PrepareExhausted
  \/ (\E response \in Responses : ModelTurn(response)) \/ ModelFails
  \/ DispatchTools
  \/ ToolsSettled \/ ToolsFailed \/ ToolsSuspend \/ ObserveTools
  \/ Continue \/ Finish \/ FinishEmpty

ToolStep(i) ==
  StartTool(i) \/ (\E outcome \in ToolReturns(batch[i]) : ToolSettles(i, outcome)) \/ ToolInterrupts(i)

Next ==
  \/ NodeStep
  \/ \E i \in DOMAIN batch : ToolStep(i)
  \/ \E kept \in SUBSET With("settled") : Crash(kept)
  \/ Resume

Spec == Init /\ [][Next]_vars

\* The runtime goes on with a node that is ready, a tool call returns in the
\* end, and a caller resumes what is suspended.
Fairness ==
  /\ WF_vars(NodeStep)
  /\ WF_vars(\E i \in DOMAIN batch : ToolStep(i))
  /\ WF_vars(Resume)

FairSpec == Spec /\ Fairness

-----------------------------------------------------------------------------
(* Properties *)

TypeOK ==
  /\ state \in State
  /\ at \in Nodes \cup Ended \cup {"suspended"}
  /\ route \in BOOLEAN
  /\ batch \in Seq(Calls)
  /\ DOMAIN branch = DOMAIN batch
  /\ \A i \in DOMAIN branch :
       /\ branch[i].status \in {"ready", "running", "settled", "failed", "waiting"}
       /\ branch[i].status = "settled" => OutcomeAccepted(batch[i], branch[i].outcome)
  /\ batch # <<>> => at \in {"tool", "observe", "suspended", "failed"}
  /\ crashes \in 0..MaxCrashes
  /\ interrupts \in 0..MaxInterrupts

\* Whenever the model is called, and in the transcript of a run that is done,
\* every call is answered by exactly one tool message, the messages follow the
\* calls at once and in their order, and no tool message answers nothing: a
\* provider refuses any other transcript.  Settling out of order, interrupts,
\* crashes and split batches must not show (react.go:166, 234).
OneAnswerPerCall ==
  at \in {"model", "done"} =>
    LET ms == state.messages
        Answers(k) == {i \in 1..(k - 1) : k - i <= Len(ms[i].calls)}
    IN  /\ \A i \in DOMAIN ms : \A j \in DOMAIN ms[i].calls :
             /\ i + j \in DOMAIN ms
             /\ ms[i + j].kind = "tool"
             /\ ms[i + j].id = ms[i].calls[j].id
        /\ \A k \in DOMAIN ms : ms[k].kind = "tool" => Answers(k) # {}

CallsIn(ms) == FoldLeft(LAMBDA sum, m : sum + Len(m.calls), 0, ms)

\* The limits count what the transcript holds, and hold over crashes and
\* interrupts: the model never sees more turns or asks for more calls, and no
\* more tools run at once than allowed (react.go:162, 135).
WithinLimits ==
  /\ TypeOK
  /\ state.turn <= MaxTurns
  /\ state.toolCalls = CallsIn(state.messages)
  /\ state.toolCalls <= MaxToolCalls
  /\ Cardinality(With("running")) <= MaxParallelTools

\* An artifact is reported once and in the order of the calls, however often
\* its call was executed (react.go:566).
ArtifactsOnce ==
  \A i, j \in DOMAIN state.artifacts : i < j => state.artifacts[i] < state.artifacts[j]

\* A call of an invokable tool starts when every call before it is observed,
\* and no call after it starts before it is: the child may wait for a human
\* for days, and what comes after may rest on it (react.go:404).
InvokableIsBarrier ==
  [][\A i \in DOMAIN branch :
       (branch[i].status = "ready" /\ i \in DOMAIN branch' /\ branch'[i].status = "running") =>
         LET calls == Last(state.messages).calls
             observed == Len(state.pending)
             k == observed + i
         IN  /\ calls[k] = batch[i]
             /\ IsInvokable(calls[k]) => k = observed + 1
             /\ \A j \in 1..(k - 1) : IsInvokable(calls[j]) => j <= observed]_vars

\* A run that is done ended with a final intent that says something, and left
\* no observation or call behind.
DoneIsAnswered ==
  at = "done" =>
    /\ Last(state.messages).kind = "assistant"
    /\ Last(state.messages).parts
    /\ Last(state.messages).calls = <<>>
    /\ state.pending = <<>>
    /\ state.remaining = <<>>

\* The transcript is one a provider accepts and the answer of the run its
\* last word, with every artifact once.
TranscriptIsWhole == OneAnswerPerCall /\ ArtifactsOnce /\ DoneIsAnswered

\* Every run ends: the model cannot keep it busy by repairs or by calls.
RunEnds == <>(at \in Ended)

\* The turns whose observations the transcript holds.
WholeTurns ==
  LET ms == state.messages
      Whole(i) == \/ ms[i].kind = "repair"
                  \/ ms[i].calls # <<>> /\ i + Len(ms[i].calls) <= Len(ms)
  IN  FoldLeftDomain(LAMBDA ts, i : IF Whole(i) THEN Append(ts, ms[i].calls) ELSE ts, <<>>, ms)

C == INSTANCE Conversation WITH
       turns <- WholeTurns,
       status <- IF at \in Ended THEN at ELSE "running",
       CallLists <- {response.calls : response \in Responses}

\* The run implements Conversation.
ImplementsConversation == C!Spec

=============================================================================
