---------------------------- MODULE FornaxTrace ----------------------------
(***************************************************************************)
(* middleware/byted/fornax/fornax.go: one traced Invoke, whose eventSink   *)
(* turns the events of the target into spans, and the exporter that        *)
(* uploads the spans that ended.                                           *)
(*                                                                         *)
(* The target and its workflow runtime are external.  Runs nest, a node    *)
(* may be tried again, a node that was canceled may leave calls behind     *)
(* whose events come late, and a call may end without an event; the target *)
(* returns when its calls did.  In one attempt of a node model calls       *)
(* follow each other and tool calls have different keys (toolEventKey).    *)
(* The batching span processor is external too: it exports one batch at a  *)
(* time and drops it when that fails.                                      *)
(***************************************************************************)
EXTENDS Integers, FiniteSets

CONSTANTS
  Runs,          \* workflow runs of the Invoke
  RootRun,       \* the run without a parent, the others are nested in it
  Nodes,
  RunOf,         \* node -> its run
  Models,        \* model calls
  Tools,         \* tool calls
  MaxTries,      \* bound on the attempts of a node
  MaxBatches     \* bound on the batches before Close

None == "none"

ASSUME FornaxAssumption ==
  /\ RootRun \in Runs
  /\ RunOf \in [Nodes -> Runs]
  /\ Models \cap Tools = {}
  /\ MaxTries \in Nat \ {0}
  /\ MaxBatches \in Nat

Calls == Models \cup Tools

\* nodeKey: a node and its attempt.
Keys == Nodes \X (1..MaxTries)
Outside == <<None, 0>>

VARIABLES
  invoke,    \* whether the Invoke is under way
  target,    \* what the target does: its runs, nodes and calls
  spans,     \* what became of each span
  runs,      \* eventSink.runs: run -> its span
  nodes,     \* eventSink.nodes: key -> nodeSpanState
  direct,    \* eventSink.directModel: the span of a call outside of nodes
  exporter   \* traceExporter: the upload under way

sinkVars == <<runs, nodes, direct>>
vars == <<invoke, target, spans, sinkVars, exporter>>

-----------------------------------------------------------------------------
(* Spans *)

\* A span is named by what it stands for: the invocation, its agent, a run,
\* an attempt of a node, a call.
Span(kind, of, try) == [kind |-> kind, of |-> of, try |-> try]
Root == Span("root", None, 0)
Agent == Span("agent", None, 0)
RunSpan(r) == Span("run", r, 0)
NodeSpan(key) == Span("node", key[1], key[2])
ModelSpan(m) == Span("model", m, 0)
ToolSpan(t) == Span("tool", t, 0)
NoSpan == Span("none", None, 0)

Spans == {Root, Agent} \cup {RunSpan(r) : r \in Runs \ {RootRun}}
         \cup {NodeSpan(k) : k \in Keys} \cup {ModelSpan(m) : m \in Models} \cup {ToolSpan(t) : t \in Tools}

\* ends counts the calls of End, stored the uploads that reached Fornax; lost
\* is set when the exporter returned an error for the span.
Unstarted == [status |-> "none", ends |-> 0, taken |-> FALSE, stored |-> 0, lost |-> FALSE]

Started(ss, span) == [ss EXCEPT ![span] = [Unstarted EXCEPT !.status = "unset"]]

\* A span that was marked as an error stays one (uploadSpanFrom):
\* OpenTelemetry keeps codes.Error when the status attribute is set to 0
\* later.
Marked(ss, set, status) ==
  [p \in Spans |-> IF p \in set /\ ss[p].status # "error" THEN [ss[p] EXCEPT !.status = status] ELSE ss[p]]

EndedSpans(ss, set) == [p \in Spans |-> IF p \in set THEN [ss[p] EXCEPT !.ends = @ + 1] ELSE ss[p]]

Closed(ss, set, status) == EndedSpans(Marked(ss, set, status), set)

NoNode == [active |-> FALSE, model |-> NoSpan, failed |-> FALSE, tools |-> {}]
Idle(n) == [at |-> "idle", batch |-> {}, batches |-> n]

Init ==
  /\ invoke = "new"
  /\ target = [run |-> [r \in Runs |-> "new"],
               try |-> [n \in Nodes |-> 0], running |-> [n \in Nodes |-> FALSE],
               call |-> [c \in Calls |-> [at |-> "new", node |-> Outside]],
               failed |-> {}]
  /\ spans = [p \in Spans |-> Unstarted]
  /\ runs = [r \in Runs |-> NoSpan]
  /\ nodes = [k \in Keys |-> NoNode]
  /\ direct = NoSpan
  /\ exporter = Idle(0)

\* startTrace
StartTrace ==
  /\ invoke = "new"
  /\ invoke' = "running"
  /\ spans' = Started(Started(spans, Root), Agent)
  /\ UNCHANGED <<target, sinkVars, exporter>>

-----------------------------------------------------------------------------
(* Emit *)

\* The root run has no span of its own: its events update the span of the
\* invocation.  Events that resume or retry a run that is open change nothing.
StartRun(r) ==
  /\ invoke = "running"
  /\ target.run[r] = "new"
  /\ r # RootRun => target.run[RootRun] = "running"
  /\ target' = [target EXCEPT !.run[r] = "running"]
  /\ IF r = RootRun
     THEN runs' = [runs EXCEPT ![r] = Root] /\ UNCHANGED spans
     ELSE runs' = [runs EXCEPT ![r] = RunSpan(r)] /\ spans' = Started(spans, RunSpan(r))
  /\ UNCHANGED <<invoke, nodes, direct, exporter>>

\* A run that completed has no node under way; another may be left behind.
FinishRun(r, completed) ==
  /\ target.run[r] = "running"
  /\ completed => \A n \in Nodes : RunOf[n] = r => ~target.running[n]
  /\ r = RootRun => \A q \in Runs \ {r} : target.run[q] # "running"
  /\ target' = [target EXCEPT !.run[r] = "ended",
                              !.running = [n \in Nodes |-> @[n] /\ RunOf[n] # r]]
  /\ LET status == IF completed THEN "ok" ELSE "error"
     IN IF r = RootRun
        THEN spans' = Marked(spans, {runs[r]}, status) /\ UNCHANGED runs
        ELSE /\ spans' = Closed(spans, {runs[r]}, status)
             /\ runs' = [runs EXCEPT ![r] = NoSpan]
  /\ UNCHANGED <<invoke, nodes, direct, exporter>>

StartNode(n) ==
  /\ target.run[RunOf[n]] = "running"
  /\ ~target.running[n]
  /\ target.try[n] < MaxTries
  /\ LET try == target.try[n] + 1
     IN /\ target' = [target EXCEPT !.try[n] = try, !.running[n] = TRUE]
        /\ nodes' = [nodes EXCEPT ![<<n, try>>].active = TRUE]
        /\ spans' = Started(spans, NodeSpan(<<n, try>>))
  /\ UNCHANGED <<invoke, runs, direct, exporter>>

\* finishNodeComponents
ComponentsOf(node) == ({node.model} \cup node.tools) \ {NoSpan}

\* NodeCompleted, NodeSkipped, and the events of a node that did not succeed.
FinishNode(n, completed) ==
  /\ target.running[n]
  /\ LET key == <<n, target.try[n]>>
         node == nodes[key]
     IN /\ target' = [target EXCEPT !.running[n] = FALSE]
        /\ spans' = Closed(EndedSpans(spans, ComponentsOf(node)), {NodeSpan(key)},
                           IF completed /\ ~node.failed THEN "ok" ELSE "error")
        /\ nodes' = [nodes EXCEPT ![key] = NoNode]
  /\ UNCHANGED <<invoke, runs, direct, exporter>>

-----------------------------------------------------------------------------
(* EmitModelEvent and EmitToolEvent *)

\* activeNode
Active(key) == key # Outside /\ nodes[key].active

\* Where a call may come from: outside of the nodes, or a node's attempt that
\* was started, which may be over.
Callers == {Outside} \cup {k \in Keys : k[2] <= target.try[k[1]]}

CallMoves(c, at, key) == target' = [target EXCEPT !.call[c] = [at |-> at, node |-> key]]

\* A failure counts for the node when it is still active.
CallEnds(c, key, failed) ==
  target' = [target EXCEPT !.call[c] = [at |-> "done", node |-> Outside],
                           !.failed = IF failed /\ Active(key) THEN @ \cup {key} ELSE @]

UnderWay(c) == target.call[c].at = "started"

ModelStarts(m, key) ==
  /\ invoke = "running"
  /\ target.call[m].at = "new"
  /\ key \in Callers
  /\ \A c \in Models : ~(UnderWay(c) /\ target.call[c].node = key)
  /\ CallMoves(m, "started", key)
  /\ IF Active(key)
     THEN /\ spans' = Started(EndedSpans(spans, {nodes[key].model} \ {NoSpan}), ModelSpan(m))
          /\ nodes' = [nodes EXCEPT ![key].model = ModelSpan(m)]
          /\ UNCHANGED direct
     ELSE /\ IF direct = NoSpan
             THEN spans' = Started(spans, ModelSpan(m)) /\ direct' = ModelSpan(m)
             ELSE UNCHANGED <<spans, direct>>
          /\ UNCHANGED nodes
  /\ UNCHANGED <<invoke, runs, exporter>>

\* CallFinished ends the span of the node's model call, or the one outside of
\* nodes, if there is one.
ModelFinishes(m, failed) ==
  /\ UnderWay(m)
  /\ LET key == target.call[m].node
         span == IF Active(key) THEN nodes[key].model ELSE direct
     IN /\ CallEnds(m, key, failed)
        /\ spans' = Closed(spans, {span} \ {NoSpan}, IF failed THEN "error" ELSE "ok")
        /\ IF Active(key)
           THEN /\ nodes' = [nodes EXCEPT ![key].model = NoSpan, ![key].failed = @ \/ failed]
                /\ UNCHANGED direct
           ELSE direct' = NoSpan /\ UNCHANGED nodes
  /\ UNCHANGED <<invoke, runs, exporter>>

\* A tool event outside of the nodes is ignored.
ToolStarts(t, key) ==
  /\ invoke = "running"
  /\ target.call[t].at = "new"
  /\ key \in Callers
  /\ CallMoves(t, "started", key)
  /\ IF Active(key)
     THEN /\ spans' = Started(spans, ToolSpan(t))
          /\ nodes' = [nodes EXCEPT ![key].tools = @ \cup {ToolSpan(t)}]
     ELSE UNCHANGED <<spans, nodes>>
  /\ UNCHANGED <<invoke, runs, direct, exporter>>

\* (mutant) the failure of a tool stays with its own span
ToolFinishesAlone(t, failed) ==
  /\ UnderWay(t)
  /\ LET key == target.call[t].node
         known == Active(key) /\ ToolSpan(t) \in nodes[key].tools
     IN /\ CallEnds(t, key, failed)
        /\ spans' = IF known THEN Closed(spans, {ToolSpan(t)}, IF failed THEN "error" ELSE "ok") ELSE spans
        /\ nodes' = IF known THEN [nodes EXCEPT ![key].tools = @ \ {ToolSpan(t)}] ELSE nodes
  /\ UNCHANGED <<invoke, runs, direct, exporter>>

\* failed: an error, or an outcome that tells of one.
ToolFinishes(t, failed) ==
  /\ UnderWay(t)
  /\ LET key == target.call[t].node
         known == Active(key) /\ ToolSpan(t) \in nodes[key].tools
     IN /\ CallEnds(t, key, failed)
        /\ spans' = IF known THEN Closed(spans, {ToolSpan(t)}, IF failed THEN "error" ELSE "ok") ELSE spans
        /\ nodes' = IF known
                    THEN [nodes EXCEPT ![key].tools = @ \ {ToolSpan(t)}, ![key].failed = @ \/ failed]
                    ELSE nodes
  /\ UNCHANGED <<invoke, runs, direct, exporter>>

\* A stream that is not read to its end, a call that panics: no CallFinished.
CallDropped(c) ==
  /\ UnderWay(c)
  /\ CallMoves(c, "done", Outside)
  /\ UNCHANGED <<invoke, spans, sinkVars, exporter>>

-----------------------------------------------------------------------------
(* The end of the Invoke *)

\* (mutant) the span of a call outside of the nodes is left open
OpenInWorkflows ==
  ({NodeSpan(k) : k \in {j \in Keys : nodes[j].active}} \cup {runs[r] : r \in Runs \ {RootRun}}) \ {NoSpan}

\* What finish ends, besides the components of the nodes.
OpenSpans ==
  ({NodeSpan(k) : k \in {j \in Keys : nodes[j].active}} \cup {runs[r] : r \in Runs \ {RootRun}}
     \cup {direct}) \ {NoSpan}

\* All of it.
Ending == OpenSpans \cup {Root, Agent} \cup UNION {ComponentsOf(nodes[k]) : k \in Keys}

\* finishAgent, finishRoot and finish; a consumer that stops a stream ends the
\* Invoke with an error.
Return(failed) ==
  /\ invoke = "running"
  /\ \A c \in Calls : ~UnderWay(c)
  /\ target.run[RootRun] # "running"
  /\ ~failed => \A r \in Runs : target.run[r] # "running"
  /\ invoke' = IF failed THEN "failed" ELSE "returned"
  /\ LET marked == IF failed THEN Marked(spans, OpenSpans \cup {Root, Agent}, "error")
                             ELSE Marked(spans, {Root, Agent}, "ok")
     IN spans' = EndedSpans(marked, Ending)
  /\ runs' = [r \in Runs |-> NoSpan]
  /\ nodes' = [k \in Keys |-> NoNode]
  /\ direct' = NoSpan
  /\ UNCHANGED <<target, exporter>>

Returned == invoke \in {"returned", "failed"}

-----------------------------------------------------------------------------
(* ExportSpans *)

ExportMoves(at) == exporter' = [exporter EXCEPT !.at = at]

\* The batch is over: stored tells whether Fornax took it, lost whether an
\* error is returned for it.
Exported(stored, lost) ==
  /\ spans' = [p \in Spans |->
                 IF p \in exporter.batch
                 THEN [spans[p] EXCEPT !.stored = @ + (IF stored THEN 1 ELSE 0), !.lost = lost]
                 ELSE spans[p]]
  /\ exporter' = Idle(exporter.batches)

\* The span processor hands over what ended; after the Invoke, Close does.
TakeBatch ==
  /\ exporter.at = "idle"
  /\ LET batch == {p \in Spans : spans[p].ends > 0 /\ ~spans[p].taken}
     IN /\ batch # {}
        /\ exporter.batches < MaxBatches \/ Returned
        /\ spans' = [p \in Spans |-> IF p \in batch THEN [spans[p] EXCEPT !.taken = TRUE] ELSE spans[p]]
        /\ exporter' = [at |-> "post", batch |-> batch,
                        batches |-> IF Returned THEN exporter.batches ELSE exporter.batches + 1]
  /\ UNCHANGED <<invoke, target, sinkVars>>

\* (mutant) an upload without an answer is made again
PostAgainOnError ==
  /\ exporter.at = "post"
  /\ \/ Exported(TRUE, FALSE)
     \/ \E stored \in BOOLEAN :
          /\ spans' = [p \in Spans |->
                         IF stored /\ p \in exporter.batch THEN [spans[p] EXCEPT !.stored = @ + 1] ELSE spans[p]]
          /\ ExportMoves("again")
  /\ UNCHANGED <<invoke, target, sinkVars>>

\* 401 asks for another token; any other failure is final, also when the
\* answer to an upload that arrived is lost.
Post ==
  /\ exporter.at = "post"
  /\ \/ Exported(TRUE, FALSE)
     \/ \E stored \in BOOLEAN : Exported(stored, TRUE)
     \/ ExportMoves("refresh") /\ UNCHANGED spans
  /\ UNCHANGED <<invoke, target, sinkVars>>

\* fetchJWTToken fails, or the token is for another space.
Refresh ==
  /\ exporter.at = "refresh"
  /\ \/ ExportMoves("again") /\ UNCHANGED spans
     \/ Exported(FALSE, TRUE)
  /\ UNCHANGED <<invoke, target, sinkVars>>

PostAgain ==
  /\ exporter.at = "again"
  /\ \/ Exported(TRUE, FALSE)
     \/ \E stored \in BOOLEAN : Exported(stored, TRUE)
  /\ UNCHANGED <<invoke, target, sinkVars>>

-----------------------------------------------------------------------------

Next ==
  \/ StartTrace
  \/ \E r \in Runs : StartRun(r) \/ \E completed \in BOOLEAN : FinishRun(r, completed)
  \/ \E n \in Nodes : StartNode(n) \/ \E completed \in BOOLEAN : FinishNode(n, completed)
  \/ \E m \in Models : \/ \E key \in Callers : ModelStarts(m, key)
                      \/ \E failed \in BOOLEAN : ModelFinishes(m, failed)
  \/ \E t \in Tools : \/ \E key \in Callers : ToolStarts(t, key)
                     \/ \E failed \in BOOLEAN : ToolFinishes(t, failed)
  \/ \E c \in Calls : CallDropped(c)
  \/ \E failed \in BOOLEAN : Return(failed)
  \/ TakeBatch \/ Post \/ Refresh \/ PostAgain

Spec == Init /\ [][Next]_vars

-----------------------------------------------------------------------------

TypeOK ==
  /\ invoke \in {"new", "running", "returned", "failed"}
  /\ spans \in [Spans -> [status : {"none", "unset", "ok", "error"}, ends : Nat, taken : BOOLEAN,
                          stored : Nat, lost : BOOLEAN]]
  /\ runs \in [Runs -> Spans \cup {NoSpan}]
  /\ nodes \in [Keys -> [active : BOOLEAN, model : Spans \cup {NoSpan}, failed : BOOLEAN,
                         tools : SUBSET Spans]]
  /\ direct \in Spans \cup {NoSpan}
  /\ exporter \in [at : {"idle", "post", "refresh", "again"}, batch : SUBSET Spans, batches : 0..MaxBatches]

\* Every span is ended exactly once, at the latest when the Invoke returns:
\* also those of nodes and runs no event ended, of calls that a node left
\* behind, and of model calls outside of the nodes (finish, fornax.go:516;
\* a span that is not ended is never uploaded).
EverySpanEndsOnce ==
  /\ TypeOK
  /\ \A p \in Spans : spans[p].ends <= 1 /\ (Returned /\ spans[p].status # "none" => spans[p].ends = 1)

\* A node whose last event says that it succeeded is marked so only if none of
\* the model and tool calls that finished while it was active failed, in
\* whatever order the events of its calls and of other nodes come
\* (nodeSpanState.failed is read and written back by every event,
\* fornax.go:1500-1732).
FailuresReachTheirNode ==
  \A k \in target.failed : spans[NodeSpan(k)].status # "ok"

\* A span is stored at most once, and when everything was handed over each is
\* stored or an error was returned for it (ExportSpans, fornax.go:304-357).
StoredOnceOrReported ==
  \A p \in Spans :
    /\ spans[p].stored <= 1
    /\ spans[p].taken /\ p \notin exporter.batch => spans[p].stored = 1 \/ spans[p].lost
=============================================================================
