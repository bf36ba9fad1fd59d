------------------------- MODULE FornaxTraceProofs -------------------------
(***************************************************************************)
(* Spans of a traced Invoke: types, that each is ended once, that a failed *)
(* call is seen on its node, and that each is stored once or reported.     *)
(***************************************************************************)
EXTENDS FornaxTrace, TLAPS

SpanRecord == [status : {"none", "unset", "ok", "error"}, ends : Nat, taken : BOOLEAN,
               stored : Nat, lost : BOOLEAN]

\* The target's part of the type invariant: TypeOK leaves out what is external.
TargetOK ==
  target \in [run : [Runs -> {"new", "running", "ended"}],
              try : [Nodes -> 0..MaxTries], running : [Nodes -> BOOLEAN],
              call : [Calls -> [at : {"new", "started", "done"}, node : Keys \cup {Outside}]],
              failed : SUBSET Keys]

\* A span that was started and not ended.
Open(p) == spans[p].status # "none" /\ spans[p].ends = 0

\* A span that was not started is untouched, and nothing was started that the
\* target did not reach.
Fresh ==
  /\ \A p \in Spans : spans[p].status = "none" =>
        spans[p].ends = 0 /\ ~spans[p].taken /\ spans[p].stored = 0 /\ ~spans[p].lost
  /\ invoke = "new" => spans[Root].status = "none" /\ spans[Agent].status = "none"
  /\ \A r \in Runs \ {RootRun} : target.run[r] = "new" => spans[RunSpan(r)].status = "none"
  /\ \A k \in Keys : target.try[k[1]] < k[2] => spans[NodeSpan(k)].status = "none"
  /\ \A m \in Models : target.call[m].at = "new" => spans[ModelSpan(m)].status = "none"
  /\ \A t \in Tools : target.call[t].at = "new" => spans[ToolSpan(t)].status = "none"

\* The sink holds the spans that are open, and no other.
OpenAreHeld ==
  /\ \A p \in {Root, Agent} : Open(p) <=> invoke = "running"
  /\ \A r \in Runs \ {RootRun} : Open(RunSpan(r)) <=> runs[r] = RunSpan(r)
  /\ \A k \in Keys : Open(NodeSpan(k)) <=> nodes[k].active
  /\ \A m \in Models : Open(ModelSpan(m)) <=> \/ direct = ModelSpan(m)
                                             \/ \E k \in Keys : nodes[k].model = ModelSpan(m)
  /\ \A t \in Tools : Open(ToolSpan(t)) <=> \E k \in Keys : ToolSpan(t) \in nodes[k].tools

\* Each in one place.
HeldOnce ==
  /\ direct = NoSpan \/ \E m \in Models : direct = ModelSpan(m)
  /\ \A k \in Keys :
       /\ ~nodes[k].active => nodes[k] = NoNode
       /\ nodes[k].model = NoSpan \/ \E m \in Models : nodes[k].model = ModelSpan(m)
       /\ \A p \in nodes[k].tools : \E t \in Tools : p = ToolSpan(t)
       /\ nodes[k].model # NoSpan => nodes[k].model # direct
       /\ \A j \in Keys \ {k} : /\ nodes[k].model # NoSpan => nodes[j].model # nodes[k].model
                                /\ \A p \in nodes[k].tools : p \notin nodes[j].tools

\* Runs, nodes and calls nest, and the sink knows those that are under way: a
\* tool that was started in a node's attempt is known there while it is active.
Nested ==
  /\ \A r \in Runs : target.run[r] = "running" => target.run[RootRun] = "running"
  /\ target.run[RootRun] = "running" => invoke = "running" /\ runs[RootRun] = Root
  /\ runs[RootRun] \in {NoSpan, Root}
  /\ \A r \in Runs \ {RootRun} : runs[r] = IF target.run[r] = "running" THEN RunSpan(r) ELSE NoSpan
  /\ \A n \in Nodes : target.running[n] =>
       /\ target.run[RunOf[n]] = "running"
       /\ target.try[n] # 0
       /\ nodes[<<n, target.try[n]>>].active
  /\ \A k \in Keys : nodes[k].active => k[2] <= target.try[k[1]] /\ invoke = "running"
  /\ direct # NoSpan => invoke = "running"
  /\ \A c \in Calls : UnderWay(c) => invoke = "running" /\ target.call[c].node \in Callers
  /\ \A t \in Tools : UnderWay(t) /\ Active(target.call[t].node) =>
       ToolSpan(t) \in nodes[target.call[t].node].tools

\* A failure is noted on the node while it is active, and on its span then; an
\* active node has no verdict yet.
FailuresNoted ==
  /\ \A k \in Keys : nodes[k].active => spans[NodeSpan(k)].status # "ok"
  /\ \A k \in target.failed :
       /\ k[2] <= target.try[k[1]]
       /\ nodes[k].active => nodes[k].failed
       /\ spans[NodeSpan(k)].status # "ok"

EndedOnce == \A p \in Spans : spans[p].ends <= 1

\* A span in a batch was not stored before; one that left it was, or is lost.
Stored ==
  /\ exporter.at = "idle" => exporter.batch = {}
  /\ \A p \in Spans :
       /\ p \in exporter.batch => spans[p].taken
       /\ ~spans[p].taken \/ p \in exporter.batch => spans[p].stored = 0
       /\ spans[p].taken /\ p \notin exporter.batch => spans[p].stored = 1 \/ spans[p].lost
       /\ spans[p].stored <= 1

IInv == /\ TypeOK /\ TargetOK /\ Fresh /\ OpenAreHeld /\ HeldOnce /\ Nested /\ FailuresNoted
        /\ EndedOnce /\ Stored

-----------------------------------------------------------------------------
(* Names of spans *)

\* Spans that stand for different things are different.
LEMMA SpanNames ==
  /\ Root \in Spans /\ Agent \in Spans /\ NoSpan \notin Spans
  /\ \A r \in Runs \ {RootRun} : RunSpan(r) \in Spans
  /\ \A k \in Keys : NodeSpan(k) \in Spans
  /\ \A m \in Models : ModelSpan(m) \in Spans
  /\ \A t \in Tools : ToolSpan(t) \in Spans
  /\ Root.kind = "root" /\ Agent.kind = "agent" /\ NoSpan.kind = "none"
  /\ \A x : RunSpan(x).kind = "run" /\ RunSpan(x).of = x
  /\ \A x : ModelSpan(x).kind = "model" /\ ModelSpan(x).of = x
  /\ \A x : ToolSpan(x).kind = "tool" /\ ToolSpan(x).of = x
  /\ \A k : NodeSpan(k).kind = "node"
  /\ \A j, k \in Keys : NodeSpan(j) = NodeSpan(k) => j = k
<1>1. \A kind, of, try : /\ Span(kind, of, try).kind = kind
                         /\ Span(kind, of, try).of = of
                         /\ Span(kind, of, try).try = try
  BY DEF Span
<1>2. \A k \in Keys : NodeSpan(k).of = k[1] /\ NodeSpan(k).try = k[2]
  BY <1>1 DEF NodeSpan
<1>3. \A j, k \in Keys : NodeSpan(j) = NodeSpan(k) => j = k
  <2> SUFFICES ASSUME NEW j \in Keys, NEW k \in Keys, NodeSpan(j) = NodeSpan(k)
               PROVE j = k
    OBVIOUS
  <2>1. j[1] = k[1] /\ j[2] = k[2]
    BY <1>2
  <2> QED BY <2>1 DEF Keys
<1>4. /\ Root.kind = "root" /\ Agent.kind = "agent" /\ NoSpan.kind = "none"
      /\ \A x : RunSpan(x).kind = "run" /\ RunSpan(x).of = x
      /\ \A x : ModelSpan(x).kind = "model" /\ ModelSpan(x).of = x
      /\ \A x : ToolSpan(x).kind = "tool" /\ ToolSpan(x).of = x
      /\ \A k : NodeSpan(k).kind = "node"
  BY <1>1 DEF Root, Agent, NoSpan, RunSpan, ModelSpan, ToolSpan, NodeSpan
<1>5. /\ Root \in Spans /\ Agent \in Spans
      /\ \A r \in Runs \ {RootRun} : RunSpan(r) \in Spans
      /\ \A k \in Keys : NodeSpan(k) \in Spans
      /\ \A m \in Models : ModelSpan(m) \in Spans
      /\ \A t \in Tools : ToolSpan(t) \in Spans
  BY DEF Spans
<1>6. NoSpan \notin Spans
  BY <1>4 DEF Spans
<1> QED BY <1>3, <1>4, <1>5, <1>6

\* A span is one of these.
LEMMA SpanKinds ==
  ASSUME NEW p \in Spans
  PROVE \/ p = Root \/ p = Agent
        \/ \E r \in Runs \ {RootRun} : p = RunSpan(r)
        \/ \E k \in Keys : p = NodeSpan(k)
        \/ \E m \in Models : p = ModelSpan(m)
        \/ \E t \in Tools : p = ToolSpan(t)
BY DEF Spans

\* Outside is no attempt of a node.
LEMMA OutsideIsNoKey == Outside \notin Keys
BY FornaxAssumption DEF Outside, Keys

-----------------------------------------------------------------------------
(* What is done to the spans *)

\* Starting a span touches no other.
LEMMA StartedSpan ==
  ASSUME NEW ss \in [Spans -> SpanRecord], NEW p \in Spans
  PROVE /\ Started(ss, p) \in [Spans -> SpanRecord]
        /\ /\ Started(ss, p)[p].status = "unset" /\ Started(ss, p)[p].ends = 0
           /\ ~Started(ss, p)[p].taken /\ Started(ss, p)[p].stored = 0 /\ ~Started(ss, p)[p].lost
        /\ \A q \in Spans : q # p => Started(ss, p)[q] = ss[q]
BY DEF Started, Unstarted, SpanRecord

\* Marking spans changes their status and nothing else.
LEMMA MarkedSpans ==
  ASSUME NEW ss \in [Spans -> SpanRecord], NEW set, NEW status \in {"ok", "error"}
  PROVE /\ Marked(ss, set, status) \in [Spans -> SpanRecord]
        /\ \A q \in Spans :
             /\ Marked(ss, set, status)[q].ends = ss[q].ends
             /\ Marked(ss, set, status)[q].taken <=> ss[q].taken
             /\ Marked(ss, set, status)[q].stored = ss[q].stored
             /\ Marked(ss, set, status)[q].lost <=> ss[q].lost
        /\ \A q \in Spans : Marked(ss, set, status)[q].status =
             IF q \in set /\ ss[q].status # "error" THEN status ELSE ss[q].status
BY DEF Marked, SpanRecord

\* Ending spans counts the call and changes nothing else.
LEMMA SpansEnded ==
  ASSUME NEW ss \in [Spans -> SpanRecord], NEW set
  PROVE /\ EndedSpans(ss, set) \in [Spans -> SpanRecord]
        /\ \A q \in Spans :
             /\ EndedSpans(ss, set)[q].ends = ss[q].ends + (IF q \in set THEN 1 ELSE 0)
             /\ EndedSpans(ss, set)[q].taken <=> ss[q].taken
             /\ EndedSpans(ss, set)[q].stored = ss[q].stored
             /\ EndedSpans(ss, set)[q].lost <=> ss[q].lost
        /\ \A q \in Spans : EndedSpans(ss, set)[q].status = ss[q].status
BY DEF EndedSpans, SpanRecord

\* Ending spans with a status does both.
LEMMA SpansClosed ==
  ASSUME NEW ss \in [Spans -> SpanRecord], NEW set, NEW status \in {"ok", "error"}
  PROVE /\ Closed(ss, set, status) \in [Spans -> SpanRecord]
        /\ \A q \in Spans :
             /\ Closed(ss, set, status)[q].ends = ss[q].ends + (IF q \in set THEN 1 ELSE 0)
             /\ Closed(ss, set, status)[q].taken <=> ss[q].taken
             /\ Closed(ss, set, status)[q].stored = ss[q].stored
             /\ Closed(ss, set, status)[q].lost <=> ss[q].lost
        /\ \A q \in Spans : Closed(ss, set, status)[q].status =
             IF q \in set /\ ss[q].status # "error" THEN status ELSE ss[q].status
<1> DEFINE marked == Marked(ss, set, status)
<1>1. /\ marked \in [Spans -> SpanRecord]
      /\ \A q \in Spans :
           /\ marked[q].ends = ss[q].ends
           /\ marked[q].taken <=> ss[q].taken
           /\ marked[q].stored = ss[q].stored
           /\ marked[q].lost <=> ss[q].lost
      /\ \A q \in Spans : marked[q].status = IF q \in set /\ ss[q].status # "error" THEN status ELSE ss[q].status
  BY MarkedSpans
<1>2. Closed(ss, set, status) = EndedSpans(marked, set)
  BY DEF Closed
<1> HIDE DEF marked
<1> QED BY <1>1, <1>2, SpansEnded

\* The step starts the spans of S and ends those of E.
SpanStep(S, E) ==
  /\ spans' \in [Spans -> SpanRecord]
  /\ \A p \in S : /\ spans'[p].status = "unset" /\ spans'[p].ends = 0
                  /\ ~spans'[p].taken /\ spans'[p].stored = 0 /\ ~spans'[p].lost
  /\ \A p \in Spans \ S :
       /\ spans'[p].ends = spans[p].ends + (IF p \in E THEN 1 ELSE 0)
       /\ spans'[p].taken <=> spans[p].taken
       /\ spans'[p].stored = spans[p].stored
       /\ spans'[p].lost <=> spans[p].lost
       /\ spans'[p].status = "none" <=> spans[p].status = "none"

\* A step that starts what was not started and ends what is open; spans of E
\* are marked at most, and other spans keep their status.
Sound(S, E) ==
  /\ S \in SUBSET Spans /\ E \in SUBSET Spans
  /\ \A p \in S : spans[p].status = "none"
  /\ \A p \in E : Open(p)
  /\ SpanStep(S, E)

\* What follows for the spans: those that are open change accordingly.
Moved(S, E) ==
  /\ spans' \in [Spans -> SpanRecord]
  /\ \A p \in Spans : spans'[p].status = "none" =>
        spans'[p].ends = 0 /\ ~spans'[p].taken /\ spans'[p].stored = 0 /\ ~spans'[p].lost
  /\ \A p \in Spans : Open(p)' <=> (Open(p) /\ p \notin E) \/ p \in S
  /\ \A p \in Spans : spans'[p].status = "none" <=> (spans[p].status = "none" /\ p \notin S)

\* Such a step keeps what concerns the spans and the exporter alone.
LEMMA SpanSteps ==
  ASSUME IInv, UNCHANGED exporter, NEW S, NEW E, Sound(S, E)
  PROVE EndedOnce' /\ Stored' /\ Moved(S, E)
<1> USE DEF Sound, SpanStep
<1>0. /\ spans \in [Spans -> SpanRecord] /\ exporter.batch \in SUBSET Spans
      /\ Fresh /\ Stored /\ EndedOnce
  BY DEF IInv, TypeOK, SpanRecord
<1>1. EndedOnce'
  BY <1>0 DEF EndedOnce, Open, SpanRecord
<1>2. \A p \in S : p \notin exporter.batch
  BY <1>0 DEF Fresh, Stored
<1>3. Stored'
  BY <1>0, <1>2 DEF Stored
<1>4. \A p \in Spans : spans'[p].status = "none" =>
        spans'[p].ends = 0 /\ ~spans'[p].taken /\ spans'[p].stored = 0 /\ ~spans'[p].lost
  BY <1>0 DEF Fresh, Open, SpanRecord
<1>5. \A p \in Spans : Open(p)' <=> (Open(p) /\ p \notin E) \/ p \in S
  BY <1>0 DEF Open, SpanRecord
<1> QED BY <1>1, <1>3, <1>4, <1>5 DEF Moved

-----------------------------------------------------------------------------
(* What is done to a node's state *)

NodeRecord == [active : BOOLEAN, model : Spans \cup {NoSpan}, failed : BOOLEAN, tools : SUBSET Spans]

\* An update of a node's state changes the field it names.
LEMMA NodeActive ==
  ASSUME NEW s \in NodeRecord, NEW v \in BOOLEAN
  PROVE /\ [s EXCEPT !.active = v] \in NodeRecord
        /\ [s EXCEPT !.active = v].active = v
        /\ [s EXCEPT !.active = v].model = s.model
        /\ [s EXCEPT !.active = v].tools = s.tools
        /\ [s EXCEPT !.active = v].failed = s.failed
BY DEF NodeRecord

\* The same for model.
LEMMA NodeModel ==
  ASSUME NEW s \in NodeRecord, NEW v \in Spans \cup {NoSpan}
  PROVE /\ [s EXCEPT !.model = v] \in NodeRecord
        /\ [s EXCEPT !.model = v].active = s.active
        /\ [s EXCEPT !.model = v].model = v
        /\ [s EXCEPT !.model = v].tools = s.tools
        /\ [s EXCEPT !.model = v].failed = s.failed
BY DEF NodeRecord

\* The same for tools.
LEMMA NodeTools ==
  ASSUME NEW s \in NodeRecord, NEW v \in SUBSET Spans
  PROVE /\ [s EXCEPT !.tools = v] \in NodeRecord
        /\ [s EXCEPT !.tools = v].active = s.active
        /\ [s EXCEPT !.tools = v].model = s.model
        /\ [s EXCEPT !.tools = v].tools = v
        /\ [s EXCEPT !.tools = v].failed = s.failed
BY DEF NodeRecord

\* The same for failed.
LEMMA NodeFailed ==
  ASSUME NEW s \in NodeRecord, NEW v \in BOOLEAN
  PROVE /\ [s EXCEPT !.failed = v] \in NodeRecord
        /\ [s EXCEPT !.failed = v].active = s.active
        /\ [s EXCEPT !.failed = v].model = s.model
        /\ [s EXCEPT !.failed = v].tools = s.tools
        /\ [s EXCEPT !.failed = v].failed = v
BY DEF NodeRecord

-----------------------------------------------------------------------------
(* The invariant holds initially, and each action keeps it *)

\* Nothing was started.
LEMMA InitIInv == Init => IInv
<1> SUFFICES ASSUME Init PROVE IInv
  OBVIOUS
<1> USE DEF Init
<1>1. spans \in [Spans -> SpanRecord] /\ \A p \in Spans : spans[p] = Unstarted
  BY DEF Unstarted, SpanRecord
<1>2. \A p \in Spans : /\ spans[p].status = "none" /\ spans[p].ends = 0 /\ ~spans[p].taken
                       /\ spans[p].stored = 0 /\ ~spans[p].lost
  BY <1>1 DEF Unstarted
<1>3. \A k \in Keys : /\ ~nodes[k].active /\ nodes[k].model = NoSpan /\ ~nodes[k].failed
                      /\ nodes[k].tools = {} /\ nodes[k] = NoNode
  BY DEF NoNode
<1>4. /\ exporter.at = "idle" /\ exporter.batch = {}
      /\ exporter \in [at : {"idle", "post", "refresh", "again"}, batch : SUBSET Spans, batches : 0..MaxBatches]
  BY FornaxAssumption DEF Idle
<1>5. TypeOK
  BY <1>1, <1>3, <1>4 DEF TypeOK, SpanRecord, NoNode
<1>6. TargetOK
  BY FornaxAssumption DEF TargetOK
<1>7. Fresh
  BY <1>2, SpanNames DEF Fresh
<1>8. OpenAreHeld
  BY <1>2, <1>3, SpanNames DEF OpenAreHeld, Open
<1>9. HeldOnce
  BY <1>3 DEF HeldOnce
<1>10. Nested
  <2>1. \A r \in Runs : target.run[r] = "new" /\ runs[r] = NoSpan
    OBVIOUS
  <2>2. \A c \in Calls : ~UnderWay(c)
    BY DEF UnderWay
  <2>3. \A n \in Nodes : ~target.running[n]
    OBVIOUS
  <2> QED BY <1>3, <2>1, <2>2, <2>3, FornaxAssumption DEF Nested, Calls
<1>11. FailuresNoted
  BY <1>3 DEF FailuresNoted
<1>12. EndedOnce /\ Stored
  BY <1>2, <1>4 DEF EndedOnce, Stored
<1> QED BY <1>5, <1>6, <1>7, <1>8, <1>9, <1>10, <1>11, <1>12 DEF IInv

\* The two spans of the invocation.
LEMMA StartTraceKeeps == IInv /\ StartTrace => IInv'
<1> SUFFICES ASSUME IInv, StartTrace PROVE IInv'
  OBVIOUS
<1> USE DEF IInv, StartTrace, sinkVars
<1>0. spans \in [Spans -> SpanRecord]
  BY DEF TypeOK, SpanRecord
<1> DEFINE S == {Root, Agent}
           E == {}
<1>1. SpanStep(S, E) /\ \A p \in Spans \ S : spans'[p] = spans[p]
  <2>1. Root \in Spans /\ Agent \in Spans /\ Root # Agent
    BY SpanNames
  <2> DEFINE once == Started(spans, Root)
  <2>2. /\ once \in [Spans -> SpanRecord]
        /\ /\ once[Root].status = "unset" /\ once[Root].ends = 0
           /\ ~once[Root].taken /\ once[Root].stored = 0 /\ ~once[Root].lost
        /\ \A q \in Spans : q # Root => once[q] = spans[q]
    BY <1>0, <2>1, StartedSpan
  <2>3. spans' = Started(once, Agent)
    OBVIOUS
  <2> HIDE DEF once
  <2>4. /\ spans' \in [Spans -> SpanRecord]
        /\ /\ spans'[Agent].status = "unset" /\ spans'[Agent].ends = 0
           /\ ~spans'[Agent].taken /\ spans'[Agent].stored = 0 /\ ~spans'[Agent].lost
        /\ \A q \in Spans : q # Agent => spans'[q] = once[q]
    BY <2>1, <2>2, <2>3, StartedSpan
  <2> QED BY <1>0, <2>1, <2>2, <2>4 DEF SpanStep, SpanRecord
<1>2. Sound(S, E)
  BY <1>1, SpanNames DEF Sound, Fresh
<1>3. EndedOnce' /\ Stored' /\ Moved(S, E)
  <2> HIDE DEF S, E, IInv
  <2> QED BY <1>2, SpanSteps
<1>4. TypeOK'
  BY <1>3 DEF TypeOK, Moved, SpanRecord
<1>5. TargetOK'
  BY DEF TargetOK
<1>6. Fresh'
  BY <1>3, SpanNames DEF Fresh, Moved
<1>7. OpenAreHeld'
  BY <1>3, SpanNames DEF OpenAreHeld, Moved
<1>8. HeldOnce'
  BY DEF HeldOnce
<1>9. Nested'
  BY DEF Nested, UnderWay, Active, Callers
<1>10. FailuresNoted'
  BY <1>1, SpanNames DEF FailuresNoted, TargetOK
<1> QED BY <1>3, <1>4, <1>5, <1>6, <1>7, <1>8, <1>9, <1>10

\* A step that leaves the spans alone.
LEMMA SpansStay ==
  ASSUME IInv, UNCHANGED <<spans, exporter>>
  PROVE EndedOnce' /\ Stored' /\ Moved({}, {})
BY DEF IInv, EndedOnce, Stored, Moved, Fresh, Open, TypeOK, SpanRecord

\* The span of a run.
LEMMA StartRunKeeps == ASSUME IInv, NEW r \in Runs, StartRun(r) PROVE IInv'
<1> USE DEF IInv, StartRun, sinkVars
<1> DEFINE S == IF r = RootRun THEN {} ELSE {RunSpan(r)}
           E == {}
<1>1. r # RootRun => Sound(S, E)
  <2> SUFFICES ASSUME r # RootRun PROVE Sound(S, E)
    OBVIOUS
  <2>1. spans \in [Spans -> SpanRecord] /\ RunSpan(r) \in Spans /\ spans[RunSpan(r)].status = "none"
    BY SpanNames DEF Fresh, TypeOK, SpanRecord
  <2>2. spans' = Started(spans, RunSpan(r))
    OBVIOUS
  <2> QED BY <2>1, <2>2, StartedSpan DEF Sound, SpanStep, SpanRecord
<1>2. \A k \in Keys : spans'[NodeSpan(k)] = spans[NodeSpan(k)]
  <2>1. \A p \in Spans : p # RunSpan(r) => spans'[p] = spans[p]
    BY StartedSpan, SpanNames DEF TypeOK, SpanRecord
  <2> QED BY <2>1, SpanNames
<1>3. EndedOnce' /\ Stored' /\ Moved(S, E)
  <2>1. CASE r = RootRun
    BY <2>1, SpansStay
  <2>2. CASE r # RootRun
    <3>1. IInv /\ UNCHANGED exporter /\ Sound(S, E)
      BY <2>2, <1>1
    <3> HIDE DEF S, E, IInv
    <3> QED BY <3>1, SpanSteps
  <2> QED BY <2>1, <2>2
<1>4. /\ target'.run = [target.run EXCEPT ![r] = "running"]
      /\ target'.try = target.try /\ target'.running = target.running
      /\ target'.call = target.call /\ target'.failed = target.failed
      /\ target.run \in [Runs -> {"new", "running", "ended"}] /\ target.failed \in SUBSET Keys
  BY DEF TargetOK
<1>5. TypeOK'
  BY <1>3, SpanNames DEF TypeOK, Moved, SpanRecord
<1>6. TargetOK'
  BY DEF TargetOK
<1>7. Fresh'
  BY <1>3, <1>4, SpanNames DEF Fresh, Moved
<1>8. OpenAreHeld'
  BY <1>3, SpanNames DEF OpenAreHeld, Moved, TypeOK
<1>9. HeldOnce'
  BY DEF HeldOnce
<1>10. Nested'
  BY <1>4, FornaxAssumption DEF Nested, UnderWay, Active, Callers, TypeOK
<1>11. FailuresNoted'
  BY <1>2, <1>4 DEF FailuresNoted
<1> QED BY <1>3, <1>5, <1>6, <1>7, <1>8, <1>9, <1>10, <1>11

\* A run's span ends with the run; the root run's status is the invocation's.
LEMMA FinishRunKeeps == ASSUME IInv, NEW r \in Runs, NEW completed \in BOOLEAN, FinishRun(r, completed) PROVE IInv'
<1> USE DEF IInv, FinishRun, sinkVars
<1> DEFINE S == {}
           E == IF r = RootRun THEN {} ELSE {RunSpan(r)}
           status == IF completed THEN "ok" ELSE "error"
<1>0. /\ spans \in [Spans -> SpanRecord] /\ status \in {"ok", "error"}
      /\ runs[r] = IF r = RootRun THEN Root ELSE RunSpan(r)
  BY DEF TypeOK, SpanRecord, Nested
<1>1. /\ Sound(S, E)
      /\ \A k \in Keys : spans'[NodeSpan(k)].status = spans[NodeSpan(k)].status
  <2>1. CASE r = RootRun
    <3>1. spans' = Marked(spans, {Root}, status)
      BY <2>1, <1>0
    <3>2. spans[Root].status # "none"
      BY <2>1, <1>0 DEF Nested, OpenAreHeld, Open
    <3> HIDE DEF status, IInv, FinishRun
    <3>3. /\ spans' \in [Spans -> SpanRecord]
          /\ \A q \in Spans : /\ spans'[q].ends = spans[q].ends
                              /\ spans'[q].taken <=> spans[q].taken
                              /\ spans'[q].stored = spans[q].stored
                              /\ spans'[q].lost <=> spans[q].lost
          /\ \A q \in Spans : spans'[q].status =
               IF q \in {Root} /\ spans[q].status # "error" THEN status ELSE spans[q].status
      BY <3>1, <1>0, MarkedSpans
    <3>4. \A q \in Spans : spans'[q].status = "none" <=> spans[q].status = "none"
      BY <3>2, <3>3, <1>0
    <3>5. \A k \in Keys : spans'[NodeSpan(k)].status = spans[NodeSpan(k)].status
      BY <3>3, SpanNames
    <3>6. \A q \in Spans : spans[q].ends \in Nat
      BY <1>0 DEF SpanRecord
    <3> QED BY <2>1, <3>3, <3>4, <3>5, <3>6 DEF Sound, SpanStep
  <2>2. CASE r # RootRun
    <3>1. spans' = Closed(spans, {RunSpan(r)}, status)
      BY <2>2, <1>0
    <3>2. Open(RunSpan(r)) /\ RunSpan(r) \in Spans
      BY <2>2, <1>0, SpanNames DEF OpenAreHeld
    <3> HIDE DEF status, IInv, FinishRun
    <3>3. /\ spans' \in [Spans -> SpanRecord]
          /\ \A q \in Spans :
               /\ spans'[q].ends = spans[q].ends + (IF q \in {RunSpan(r)} THEN 1 ELSE 0)
               /\ spans'[q].taken <=> spans[q].taken
               /\ spans'[q].stored = spans[q].stored
               /\ spans'[q].lost <=> spans[q].lost
          /\ \A q \in Spans : spans'[q].status =
               IF q \in {RunSpan(r)} /\ spans[q].status # "error" THEN status ELSE spans[q].status
      BY <3>1, <1>0, SpansClosed
    <3>4. \A q \in Spans : spans'[q].status = "none" <=> spans[q].status = "none"
      BY <3>2, <3>3, <1>0 DEF Open
    <3>5. \A k \in Keys : spans'[NodeSpan(k)].status = spans[NodeSpan(k)].status
      BY <3>3, SpanNames
    <3> QED BY <2>2, <3>2, <3>3, <3>4, <3>5 DEF Sound, SpanStep
  <2> QED BY <2>1, <2>2
<1>2. EndedOnce' /\ Stored' /\ Moved(S, E)
  <2>1. IInv /\ UNCHANGED exporter
    OBVIOUS
  <2> HIDE DEF S, E, IInv
  <2> QED BY <2>1, <1>1, SpanSteps
<1>3. /\ target'.run = [target.run EXCEPT ![r] = "ended"]
      /\ target'.running \in [Nodes -> BOOLEAN]
      /\ \A n \in Nodes : target'.running[n] <=> target.running[n] /\ RunOf[n] # r
      /\ target'.try = target.try
      /\ target'.call = target.call /\ target'.failed = target.failed
      /\ target.run \in [Runs -> {"new", "running", "ended"}] /\ target.failed \in SUBSET Keys
  BY DEF TargetOK
<1>4. /\ \A q \in Runs \ {RootRun} : runs'[q] = IF q = r THEN NoSpan ELSE runs[q]
      /\ runs'[RootRun] = runs[RootRun] /\ runs' \in [Runs -> Spans \cup {NoSpan}]
  BY FornaxAssumption DEF TypeOK
<1>5. TypeOK'
  BY <1>2, <1>4 DEF TypeOK, Moved, SpanRecord
<1>6. TargetOK'
  BY <1>3 DEF TargetOK
<1>7. Fresh'
  BY <1>2, <1>3, SpanNames DEF Fresh, Moved
<1>8. OpenAreHeld'
  BY <1>2, <1>4, SpanNames DEF OpenAreHeld, Moved
<1>9. HeldOnce'
  BY DEF HeldOnce
<1>10. Nested'
  <2>1. \A q \in Runs : target'.run[q] = "running" => q # r /\ target.run[q] = "running" /\ target'.run[RootRun] = "running"
    BY <1>3, FornaxAssumption DEF Nested
  <2>2. \A n \in Nodes : target'.running[n] => target'.run[RunOf[n]] = "running"
    <3>1. \A n \in Nodes : RunOf[n] \in Runs /\ (target.running[n] => target.run[RunOf[n]] = "running")
      BY FornaxAssumption DEF Nested
    <3> HIDE DEF IInv, FinishRun
    <3> QED BY <1>3, <3>1
  <2> QED BY <2>1, <2>2, <1>0, <1>3, <1>4, FornaxAssumption DEF Nested, UnderWay, Active, Callers
<1>11. FailuresNoted'
  BY <1>1, <1>3 DEF FailuresNoted
<1> QED BY <1>2, <1>5, <1>6, <1>7, <1>8, <1>9, <1>10, <1>11

\* The span of an attempt, which has no call yet.
LEMMA StartNodeKeeps == ASSUME IInv, NEW n \in Nodes, StartNode(n) PROVE IInv'
<1>a. /\ TypeOK /\ TargetOK /\ Fresh /\ OpenAreHeld /\ HeldOnce /\ Nested /\ FailuresNoted
      /\ invoke' = invoke /\ runs' = runs /\ direct' = direct /\ exporter' = exporter
  BY DEF IInv, StartNode
<1> USE <1>a
<1> DEFINE key == <<n, target.try[n] + 1>>
           S == {NodeSpan(key)}
           E == {}
<1>0. /\ key \in Keys /\ key[1] = n /\ key[2] = target.try[n] + 1 /\ target.try[n] \in 0..MaxTries
      /\ spans \in [Spans -> SpanRecord]
      /\ ~nodes[key].active /\ nodes[key].model = NoSpan /\ nodes[key].tools = {} /\ ~nodes[key].failed
      /\ NodeSpan(key) \in Spans /\ spans[NodeSpan(key)].status = "none"
  <2>1. target.try \in [Nodes -> 0..MaxTries]
    BY DEF TargetOK
  <2>2. key \in Keys /\ key[1] = n /\ key[2] = target.try[n] + 1 /\ target.try[n] \in 0..MaxTries
    BY <2>1, FornaxAssumption DEF Keys, StartNode
  <2> HIDE DEF key
  <2>3. ~nodes[key].active
    BY <2>2 DEF Nested
  <2> QED BY <2>2, <2>3, SpanNames DEF TypeOK, SpanRecord, HeldOnce, Fresh, NoNode
<1>1. /\ target'.try = [target.try EXCEPT ![n] = target.try[n] + 1]
      /\ target'.running = [target.running EXCEPT ![n] = TRUE]
      /\ target'.run = target.run /\ target'.call = target.call /\ target'.failed = target.failed
      /\ target.try \in [Nodes -> 0..MaxTries] /\ target.running \in [Nodes -> BOOLEAN]
      /\ target.failed \in SUBSET Keys
      /\ nodes' = [nodes EXCEPT ![key].active = TRUE]
      /\ spans' = Started(spans, NodeSpan(key))
  BY DEF TargetOK, StartNode
<1> HIDE DEF key
<1>2. /\ Sound(S, E) /\ \A p \in Spans : p # NodeSpan(key) => spans'[p] = spans[p]
      /\ spans'[NodeSpan(key)].status = "unset"
  BY <1>0, <1>1, StartedSpan DEF Sound, SpanStep, SpanRecord
<1>3. EndedOnce' /\ Stored' /\ Moved(S, E)
  <2>1. IInv /\ UNCHANGED exporter
    BY DEF StartNode
  <2> HIDE DEF S, E
  <2> QED BY <2>1, <1>2, SpanSteps
<1>4. /\ \A k \in Keys : k # key => nodes'[k] = nodes[k]
      /\ nodes'[key].active /\ nodes'[key].model = NoSpan /\ nodes'[key].tools = {} /\ ~nodes'[key].failed
      /\ nodes' \in [Keys -> NodeRecord]
  <2>1. nodes \in [Keys -> NodeRecord] /\ nodes[key] \in NodeRecord
    BY <1>0 DEF TypeOK, NodeRecord
  <2> DEFINE new == [nodes[key] EXCEPT !.active = TRUE]
  <2>2. new \in NodeRecord /\ new.active = TRUE /\ new.model = NoSpan /\ new.tools = {} /\ new.failed = nodes[key].failed
    BY <2>1, <1>0, NodeActive
  <2>3. nodes' = [nodes EXCEPT ![key] = new]
    BY <1>1
  <2> HIDE DEF new
  <2> QED BY <2>1, <2>2, <2>3, <1>0
<1>5. TypeOK'
  BY <1>3, <1>4 DEF TypeOK, Moved, SpanRecord, NodeRecord
<1>6. TargetOK'
  <2>1. target.try[n] + 1 \in 0..MaxTries
    BY <1>0 DEF Keys
  <2> QED BY <2>1 DEF TargetOK, StartNode
<1>7. \A k \in Keys : k # key => /\ target'.try[k[1]] < k[2] => target.try[k[1]] < k[2]
                                 /\ k[2] <= target.try[k[1]] => k[2] <= target'.try[k[1]]
  BY <1>0, <1>1, FornaxAssumption DEF Keys
<1>8. Fresh'
  <2>1. ~(target'.try[key[1]] < key[2])
    BY <1>0, <1>1
  <2> QED BY <1>0, <1>1, <1>3, <1>7, <2>1, SpanNames DEF Fresh, Moved
<1>9. OpenAreHeld'
  BY <1>0, <1>3, <1>4, SpanNames DEF OpenAreHeld, Moved
<1>10. HeldOnce'
  BY <1>0, <1>4 DEF HeldOnce, NoNode
<1>11. Nested'
  <2>1. /\ target'.try[n] = key[2] /\ <<n, target'.try[n]>> = key /\ target'.try[n] # 0
        /\ \A q \in Nodes : q # n => target'.try[q] = target.try[q] /\ target'.running[q] = target.running[q]
    BY <1>0, <1>1 DEF key
  <2>2. invoke = "running" /\ target.run[RunOf[n]] = "running"
    BY FornaxAssumption DEF Nested, StartNode
  <2>3. key[2] <= target'.try[key[1]]
    BY <1>0, <2>1 DEF Keys
  <2>4. \A q \in Nodes : target'.running[q] =>
            /\ target'.run[RunOf[q]] = "running"
            /\ target'.try[q] # 0
            /\ nodes'[<<q, target'.try[q]>>].active
    <3> SUFFICES ASSUME NEW q \in Nodes, target'.running[q]
                 PROVE /\ target'.run[RunOf[q]] = "running"
                       /\ target'.try[q] # 0
                       /\ nodes'[<<q, target'.try[q]>>].active
      OBVIOUS
    <3>1. CASE q = n
      BY <3>1, <2>1, <2>2, <1>1, <1>4
    <3>2. CASE q # n
      <4>1. /\ target.run[RunOf[q]] = "running" /\ target.try[q] # 0 /\ nodes[<<q, target.try[q]>>].active
        BY <3>2, <2>1 DEF Nested
      <4>2. <<q, target.try[q]>> \in Keys
        BY <4>1, <1>1, FornaxAssumption DEF Keys
      <4>3. <<q, target.try[q]>> # key
        BY <3>2, <1>0
      <4> QED BY <3>2, <2>1, <4>1, <4>2, <4>3, <1>1, <1>4
    <3> QED BY <3>1, <3>2
  <2>5. \A k \in Keys : nodes'[k].active => k[2] <= target'.try[k[1]]
    BY <1>4, <1>7, <2>3 DEF Nested
  <2>6. \A c \in Calls : UnderWay(c)' => UnderWay(c) /\ target'.call[c].node = target.call[c].node
    BY <1>1 DEF UnderWay
  <2>7. \A c \in Calls : UnderWay(c) => target.call[c].node \in Callers' /\ target.call[c].node # key
    <3> SUFFICES ASSUME NEW c \in Calls, UnderWay(c)
                 PROVE target.call[c].node \in Callers' /\ target.call[c].node # key
      OBVIOUS
    <3>1. target.call[c].node \in Callers
      BY DEF Nested
    <3>2. CASE target.call[c].node = Outside
      BY <3>2, <1>0, OutsideIsNoKey DEF Callers
    <3>3. CASE target.call[c].node \in Keys
      <4>1. target.call[c].node[2] <= target.try[target.call[c].node[1]]
        BY <3>1, <3>3, OutsideIsNoKey DEF Callers
      <4>2. target.call[c].node # key
        BY <4>1, <1>0
      <4> QED BY <3>3, <4>1, <4>2, <1>7 DEF Callers
    <3> QED BY <3>1, <3>2, <3>3 DEF Callers
  <2>8. \A t \in Tools : UnderWay(t)' /\ Active(target.call[t].node)' =>
          ToolSpan(t) \in nodes'[target'.call[t].node].tools
    <3> SUFFICES ASSUME NEW t \in Tools, UnderWay(t)', Active(target.call[t].node)'
                 PROVE ToolSpan(t) \in nodes'[target'.call[t].node].tools
      OBVIOUS
    <3>1. UnderWay(t) /\ target'.call[t].node = target.call[t].node /\ target.call[t].node # key
      BY <2>6, <2>7 DEF Calls
    <3>2. target.call[t].node \in Keys
      BY <3>1 DEF Active, TargetOK, Calls
    <3>3. nodes'[target.call[t].node] = nodes[target.call[t].node]
      BY <3>1, <3>2, <1>4
    <3>4. Active(target.call[t].node)
      BY <3>1, <3>3 DEF Active
    <3> QED BY <3>1, <3>3, <3>4 DEF Nested
  <2> QED BY <1>1, <2>2, <2>4, <2>5, <2>6, <2>7, <2>8 DEF Nested
<1>12. FailuresNoted'
  <2>1. key \notin target.failed
    BY <1>0 DEF FailuresNoted
  <2>2. \A k \in target.failed : /\ k \in Keys /\ k # key /\ nodes'[k] = nodes[k]
                                 /\ spans'[NodeSpan(k)] = spans[NodeSpan(k)]
    BY <2>1, <1>0, <1>1, <1>2, <1>4, SpanNames
  <2>3. \A k \in Keys : nodes'[k].active => spans'[NodeSpan(k)].status # "ok"
    BY <1>0, <1>2, <1>4, SpanNames DEF FailuresNoted
  <2> QED BY <2>2, <2>3, <1>1, <1>7 DEF FailuresNoted
<1> QED BY <1>3, <1>5, <1>6, <1>8, <1>9, <1>10, <1>11, <1>12 DEF IInv

\* What finishNodeComponents ends are the calls of the node that are open.
LEMMA ComponentsAreOpen ==
  ASSUME IInv, NEW k \in Keys
  PROVE /\ \A p \in ComponentsOf(nodes[k]) :
             /\ p \in Spans /\ Open(p)
             /\ (\E m \in Models : p = ModelSpan(m)) \/ (\E t \in Tools : p = ToolSpan(t))
        /\ nodes[k] \in NodeRecord
<1>1. nodes[k] \in NodeRecord
  BY DEF IInv, TypeOK, NodeRecord
<1>2. OpenAreHeld /\ HeldOnce
  BY DEF IInv
<1> QED BY <1>1, <1>2, SpanNames DEF ComponentsOf, OpenAreHeld, HeldOnce, NodeRecord

\* A node's spans end with it: the failures of its calls are on it.
LEMMA FinishNodeKeeps ==
  ASSUME IInv, NEW n \in Nodes, NEW completed \in BOOLEAN, FinishNode(n, completed)
  PROVE IInv'
<1>a. /\ TypeOK /\ TargetOK /\ Fresh /\ OpenAreHeld /\ HeldOnce /\ Nested /\ FailuresNoted
      /\ invoke' = invoke /\ runs' = runs /\ direct' = direct /\ exporter' = exporter
  BY DEF IInv, FinishNode
<1> USE <1>a
<1> DEFINE key == <<n, target.try[n]>>
           components == ComponentsOf(nodes[key])
           status == IF completed /\ ~nodes[key].failed THEN "ok" ELSE "error"
           S == {}
           E == components \cup {NodeSpan(key)}
<1>0. /\ key \in Keys /\ key[1] = n /\ key[2] = target.try[n]
      /\ nodes[key].active
      /\ NodeSpan(key) \in Spans /\ Open(NodeSpan(key))
      /\ status \in {"ok", "error"}
  <2>1. target.running[n] /\ target.try \in [Nodes -> 0..MaxTries]
    BY DEF TargetOK, FinishNode
  <2>2. key \in Keys /\ key[1] = n /\ key[2] = target.try[n]
    BY <2>1, FornaxAssumption DEF Keys, Nested
  <2>3. nodes[key].active
    BY <2>1 DEF Nested
  <2> HIDE DEF key
  <2> QED BY <2>2, <2>3, SpanNames DEF OpenAreHeld
<1>1. /\ target'.running = [target.running EXCEPT ![n] = FALSE]
      /\ target'.try = target.try
      /\ target'.run = target.run /\ target'.call = target.call /\ target'.failed = target.failed
      /\ target.running \in [Nodes -> BOOLEAN] /\ target.failed \in SUBSET Keys
      /\ nodes' = [nodes EXCEPT ![key] = NoNode]
      /\ spans' = Closed(EndedSpans(spans, components), {NodeSpan(key)}, status)
  BY DEF TargetOK, FinishNode
<1>2. /\ \A p \in components :
           /\ p \in Spans /\ Open(p)
           /\ (\E m \in Models : p = ModelSpan(m)) \/ (\E t \in Tools : p = ToolSpan(t))
      /\ nodes[key] \in NodeRecord
      /\ \A p \in Spans : p \in components <=> p = nodes[key].model \/ p \in nodes[key].tools
  BY <1>0, ComponentsAreOpen, SpanNames DEF ComponentsOf
<1>3. status = "ok" => ~nodes[key].failed
  OBVIOUS
<1> HIDE DEF key, components, status
<1>4. /\ Sound(S, E)
      /\ \A k \in Keys : spans'[NodeSpan(k)].status =
           IF k = key /\ spans[NodeSpan(k)].status # "error" THEN status ELSE spans[NodeSpan(k)].status
  <2> DEFINE mid == EndedSpans(spans, components)
  <2>0. spans \in [Spans -> SpanRecord] /\ \A q \in Spans : spans[q].ends \in Nat
    BY DEF TypeOK, SpanRecord
  <2>1. /\ mid \in [Spans -> SpanRecord]
        /\ \A q \in Spans : /\ mid[q].ends = spans[q].ends + (IF q \in components THEN 1 ELSE 0)
                            /\ mid[q].taken <=> spans[q].taken
                            /\ mid[q].stored = spans[q].stored
                            /\ mid[q].lost <=> spans[q].lost
        /\ \A q \in Spans : mid[q].status = spans[q].status
    BY <2>0, SpansEnded
  <2>2. spans' = Closed(mid, {NodeSpan(key)}, status)
    BY <1>1
  <2> HIDE DEF mid
  <2>3. /\ spans' \in [Spans -> SpanRecord]
        /\ \A q \in Spans :
             /\ spans'[q].ends = mid[q].ends + (IF q \in {NodeSpan(key)} THEN 1 ELSE 0)
             /\ spans'[q].taken <=> mid[q].taken
             /\ spans'[q].stored = mid[q].stored
             /\ spans'[q].lost <=> mid[q].lost
        /\ \A q \in Spans : spans'[q].status =
             IF q \in {NodeSpan(key)} /\ mid[q].status # "error" THEN status ELSE mid[q].status
    BY <2>1, <2>2, <1>0, SpansClosed
  <2>4. NodeSpan(key) \notin components
    BY <1>2, SpanNames
  <2>5. \A q \in Spans : spans'[q].ends = spans[q].ends + (IF q \in E THEN 1 ELSE 0)
    BY <2>0, <2>1, <2>3, <2>4
  <2>6. \A q \in Spans : spans'[q].status = "none" <=> spans[q].status = "none"
    BY <2>1, <2>3, <1>0 DEF Open
  <2>7. SpanStep(S, E)
    BY <2>1, <2>3, <2>5, <2>6 DEF SpanStep
  <2>8. Sound(S, E)
    BY <2>7, <1>0, <1>2 DEF Sound
  <2> QED BY <2>1, <2>3, <2>8, <1>0, SpanNames
<1>5. EndedOnce' /\ Stored' /\ Moved(S, E)
  <2>1. IInv /\ UNCHANGED exporter
    BY DEF FinishNode
  <2> HIDE DEF S, E
  <2> QED BY <2>1, <1>4, SpanSteps
<1>6. /\ \A k \in Keys : k # key => nodes'[k] = nodes[k]
      /\ ~nodes'[key].active /\ nodes'[key].model = NoSpan /\ nodes'[key].tools = {} /\ nodes'[key] = NoNode
      /\ nodes' \in [Keys -> NodeRecord]
  <2>1. nodes \in [Keys -> NodeRecord] /\ NoNode \in NodeRecord
    BY DEF TypeOK, NodeRecord, NoNode
  <2>2. ~NoNode.active /\ NoNode.model = NoSpan /\ NoNode.tools = {}
    BY DEF NoNode
  <2> QED BY <2>1, <2>2, <1>0, <1>1
<1>7. TypeOK'
  BY <1>5, <1>6 DEF TypeOK, Moved, SpanRecord, NodeRecord
<1>8. TargetOK'
  BY DEF TargetOK, FinishNode
<1>9. Fresh'
  <2>1. \A p \in Spans : spans'[p].status = "none" <=> spans[p].status = "none"
    BY <1>5 DEF Moved
  <2>2. \A p \in Spans : spans'[p].status = "none" =>
        spans'[p].ends = 0 /\ ~spans'[p].taken /\ spans'[p].stored = 0 /\ ~spans'[p].lost
    BY <1>5 DEF Moved
  <2>3. Fresh /\ invoke' = invoke /\ target'.run = target.run /\ target'.try = target.try /\ target'.call = target.call
    BY <1>1
  <2> HIDE DEF IInv, S, E
  <2> QED BY <2>1, <2>2, <2>3, SpanNames DEF Fresh
<1>10. OpenAreHeld'
  <2>1. \A p \in {Root, Agent} : Open(p)' <=> invoke' = "running"
    BY <1>2, <1>5, SpanNames DEF OpenAreHeld, Moved
  <2>2. \A r \in Runs \ {RootRun} : Open(RunSpan(r))' <=> runs'[r] = RunSpan(r)
    BY <1>2, <1>5, SpanNames DEF OpenAreHeld, Moved
  <2>3. \A k \in Keys : Open(NodeSpan(k))' <=> nodes'[k].active
    BY <1>0, <1>2, <1>5, <1>6, SpanNames DEF OpenAreHeld, Moved
  <2>4. \A m \in Models : Open(ModelSpan(m))' <=>
          \/ direct' = ModelSpan(m)
          \/ \E k \in Keys : nodes'[k].model = ModelSpan(m)
    <3> SUFFICES ASSUME NEW m \in Models
                 PROVE Open(ModelSpan(m))' <=>
                        \/ direct' = ModelSpan(m)
                        \/ \E k \in Keys : nodes'[k].model = ModelSpan(m)
      OBVIOUS
    <3>1. ModelSpan(m) \in Spans /\ ModelSpan(m) # NoSpan
      BY SpanNames
    <3>2. ModelSpan(m) \in E <=> nodes[key].model = ModelSpan(m)
      <4>1. ModelSpan(m) \notin nodes[key].tools
        BY <1>0, SpanNames DEF HeldOnce
      <4>2. ModelSpan(m) # NodeSpan(key)
        BY SpanNames
      <4> QED BY <1>2, <3>1, <4>1, <4>2
    <3>3. Open(ModelSpan(m)) <=> \/ direct = ModelSpan(m)
                                \/ \E k \in Keys : nodes[k].model = ModelSpan(m)
      BY DEF OpenAreHeld
    <3>4. nodes[key].model = ModelSpan(m) => direct # ModelSpan(m) /\ \A k \in Keys : k # key => nodes[k].model # ModelSpan(m)
      BY <1>0, <3>1 DEF HeldOnce
    <3>5. Open(ModelSpan(m))' <=> Open(ModelSpan(m)) /\ ModelSpan(m) \notin E
      BY <1>5, <3>1 DEF Moved
    <3> QED BY <3>1, <3>2, <3>3, <3>4, <3>5, <1>0, <1>6
  <2>5. \A t \in Tools : Open(ToolSpan(t))' <=> \E k \in Keys : ToolSpan(t) \in nodes'[k].tools
    <3> SUFFICES ASSUME NEW t \in Tools
                 PROVE Open(ToolSpan(t))' <=> \E k \in Keys : ToolSpan(t) \in nodes'[k].tools
      OBVIOUS
    <3>1. ToolSpan(t) \in Spans /\ ToolSpan(t) # NoSpan
      BY SpanNames
    <3>2. ToolSpan(t) \in E <=> ToolSpan(t) \in nodes[key].tools
      BY <1>0, <1>2, <3>1, SpanNames DEF HeldOnce
    <3>3. Open(ToolSpan(t)) <=> \E k \in Keys : ToolSpan(t) \in nodes[k].tools
      BY DEF OpenAreHeld
    <3>4. ToolSpan(t) \in nodes[key].tools => \A k \in Keys : k # key => ToolSpan(t) \notin nodes[k].tools
      BY <1>0 DEF HeldOnce
    <3>5. Open(ToolSpan(t))' <=> Open(ToolSpan(t)) /\ ToolSpan(t) \notin E
      BY <1>5, <3>1 DEF Moved
    <3> QED BY <3>1, <3>2, <3>3, <3>4, <3>5, <1>0, <1>6
  <2> QED BY <2>1, <2>2, <2>3, <2>4, <2>5 DEF OpenAreHeld
<1>11. HeldOnce'
  BY <1>0, <1>6 DEF HeldOnce
<1>12. Nested'
  <2>1. \A q \in Nodes : target'.running[q] =>
            /\ target'.run[RunOf[q]] = "running"
            /\ target'.try[q] # 0
            /\ nodes'[<<q, target'.try[q]>>].active
    <3> SUFFICES ASSUME NEW q \in Nodes, target'.running[q]
                 PROVE /\ target'.run[RunOf[q]] = "running"
                       /\ target'.try[q] # 0
                       /\ nodes'[<<q, target'.try[q]>>].active
      OBVIOUS
    <3>1. q # n /\ target.running[q]
      BY <1>1
    <3>2. /\ target.run[RunOf[q]] = "running" /\ target.try[q] # 0 /\ nodes[<<q, target.try[q]>>].active
      BY <3>1 DEF Nested
    <3>3. <<q, target.try[q]>> \in Keys
      BY <3>2, FornaxAssumption DEF Keys, TargetOK
    <3>4. <<q, target.try[q]>> # key
      BY <3>1, <1>0
    <3> QED BY <3>2, <3>3, <3>4, <1>1, <1>6
  <2>2. \A k \in Keys : nodes'[k].active => nodes[k].active /\ k # key
    BY <1>6
  <2>3. Callers' = Callers
    BY <1>1 DEF Callers
  <2>4. \A c \in Calls : UnderWay(c)' => UnderWay(c) /\ target'.call[c].node = target.call[c].node
    BY <1>1 DEF UnderWay
  <2>5. \A t \in Tools : UnderWay(t)' /\ Active(target.call[t].node)' =>
          ToolSpan(t) \in nodes'[target'.call[t].node].tools
    <3> SUFFICES ASSUME NEW t \in Tools, UnderWay(t)', Active(target.call[t].node)'
                 PROVE ToolSpan(t) \in nodes'[target'.call[t].node].tools
      OBVIOUS
    <3>1. UnderWay(t) /\ target'.call[t].node = target.call[t].node
      BY <2>4 DEF Calls
    <3>2. target.call[t].node \in Keys /\ nodes'[target.call[t].node].active
      BY <3>1 DEF Active, TargetOK, Calls
    <3>3. nodes'[target.call[t].node] = nodes[target.call[t].node]
      BY <3>2, <2>2, <1>6
    <3>4. Active(target.call[t].node)
      BY <3>1, <3>2, <3>3, OutsideIsNoKey DEF Active
    <3> QED BY <3>1, <3>3, <3>4 DEF Nested
  <2> QED BY <1>1, <2>1, <2>2, <2>3, <2>4, <2>5 DEF Nested
<1>13. FailuresNoted'
  <2>1. \A k \in target.failed : k \in Keys /\ (k = key => status # "ok")
    BY <1>0, <1>1, <1>3 DEF FailuresNoted
  <2>2. \A k \in Keys : nodes'[k].active => spans'[NodeSpan(k)].status # "ok"
    BY <1>4, <1>6 DEF FailuresNoted
  <2>3. \A k \in target'.failed : /\ k[2] <= target'.try[k[1]]
                                  /\ nodes'[k].active => nodes'[k].failed
    BY <2>1, <1>1, <1>6 DEF FailuresNoted
  <2>4. \A k \in target'.failed : spans'[NodeSpan(k)].status # "ok"
    BY <2>1, <1>1, <1>4 DEF FailuresNoted
  <2> QED BY <2>2, <2>3, <2>4 DEF FailuresNoted
<1> QED BY <1>5, <1>7, <1>8, <1>9, <1>10, <1>11, <1>12, <1>13 DEF IInv

\* The spans the sink holds for calls.
HeldModel(m) == direct = ModelSpan(m) \/ \E k \in Keys : nodes[k].model = ModelSpan(m)
HeldTool(t) == \E k \in Keys : ToolSpan(t) \in nodes[k].tools

\* A call that starts or ends keeps the invariant when what the sink holds
\* follows the spans and the node learns of a failure.
LEMMA CallKeeps ==
  ASSUME IInv, NEW c \in Calls, NEW S, NEW E, Sound(S, E),
         invoke' = invoke, runs' = runs, exporter' = exporter,
         \A p \in S \cup E : (\E m \in Models : p = ModelSpan(m)) \/ (\E t \in Tools : p = ToolSpan(t)),
         \A p \in S : (c \in Models /\ p = ModelSpan(c)) \/ (c \in Tools /\ p = ToolSpan(c)),
         \A k \in Keys : spans'[NodeSpan(k)].status = spans[NodeSpan(k)].status,
         TargetOK',
         target'.run = target.run, target'.try = target.try, target'.running = target.running,
         \A d \in Calls : d # c => target'.call[d] = target.call[d],
         target'.call[c].at # "new",
         UnderWay(c)' => invoke = "running" /\ target'.call[c].node \in Callers,
         nodes' \in [Keys -> NodeRecord], direct' \in Spans \cup {NoSpan},
         direct' # NoSpan => invoke = "running",
         \A k \in Keys : nodes'[k].active <=> nodes[k].active,
         \A k \in Keys : nodes[k].failed => nodes'[k].failed,
         \A k \in target'.failed : k \in target.failed \/ (nodes[k].active /\ nodes'[k].failed),
         \A m \in Models : HeldModel(m)' <=> (HeldModel(m) /\ ModelSpan(m) \notin E) \/ ModelSpan(m) \in S,
         \A t \in Tools : HeldTool(t)' <=> (HeldTool(t) /\ ToolSpan(t) \notin E) \/ ToolSpan(t) \in S,
         HeldOnce',
         \A k \in Keys, t \in Tools : t # c /\ ToolSpan(t) \in nodes[k].tools => ToolSpan(t) \in nodes'[k].tools,
         c \in Tools /\ UnderWay(c)' /\ Active(target'.call[c].node) =>
           ToolSpan(c) \in nodes'[target'.call[c].node].tools
  PROVE IInv'
<1>a. TypeOK /\ TargetOK /\ Fresh /\ OpenAreHeld /\ HeldOnce /\ Nested /\ FailuresNoted
  BY DEF IInv
<1>1. EndedOnce' /\ Stored' /\ Moved(S, E)
  BY SpanSteps
<1>2. TypeOK'
  BY <1>a, <1>1 DEF TypeOK, Moved, SpanRecord, NodeRecord
<1>3. Fresh'
  <2>1. \A p \in Spans : spans'[p].status = "none" =>
        spans'[p].ends = 0 /\ ~spans'[p].taken /\ spans'[p].stored = 0 /\ ~spans'[p].lost
    BY <1>1 DEF Moved
  <2>2. \A p \in Spans : p \notin S /\ spans[p].status = "none" => spans'[p].status = "none"
    BY <1>1 DEF Moved
  <2>3. Root \notin S /\ Agent \notin S /\ \A x : RunSpan(x) \notin S /\ NodeSpan(x) \notin S
    BY SpanNames
  <2>4. /\ \A m \in Models : target'.call[m].at = "new" => target.call[m].at = "new" /\ m # c
        /\ \A t \in Tools : target'.call[t].at = "new" => target.call[t].at = "new" /\ t # c
    BY DEF Calls
  <2>5. \A m \in Models : m # c => ModelSpan(m) \notin S
    BY SpanNames
  <2>6. \A t \in Tools : t # c => ToolSpan(t) \notin S
    BY SpanNames
  <2> QED BY <1>a, <2>1, <2>2, <2>3, <2>4, <2>5, <2>6, SpanNames DEF Fresh
<1>4. OpenAreHeld'
  <2>1. Root \notin S \cup E /\ Agent \notin S \cup E /\ \A x : RunSpan(x) \notin S \cup E /\ NodeSpan(x) \notin S \cup E
    BY SpanNames
  <2>2. \A p \in Spans : p \notin S \cup E => (Open(p)' <=> Open(p))
    BY <1>1 DEF Moved
  <2>3. /\ \A p \in {Root, Agent} : Open(p)' <=> invoke' = "running"
        /\ \A r \in Runs \ {RootRun} : Open(RunSpan(r))' <=> runs'[r] = RunSpan(r)
        /\ \A k \in Keys : Open(NodeSpan(k))' <=> nodes'[k].active
    BY <1>a, <2>1, <2>2, SpanNames DEF OpenAreHeld
  <2>4. \A m \in Models : Open(ModelSpan(m))' <=> HeldModel(m)'
    BY <1>a, <1>1, SpanNames DEF OpenAreHeld, HeldModel, Moved
  <2>5. \A t \in Tools : Open(ToolSpan(t))' <=> HeldTool(t)'
    BY <1>a, <1>1, SpanNames DEF OpenAreHeld, HeldTool, Moved
  <2> QED BY <2>3, <2>4, <2>5 DEF OpenAreHeld, HeldModel, HeldTool
<1>5. Nested'
  <2>1. Callers' = Callers
    BY DEF Callers
  <2>2. \A d \in Calls : d # c /\ UnderWay(d)' => UnderWay(d) /\ target'.call[d].node = target.call[d].node
    BY DEF UnderWay
  <2>3. \A d \in Calls : UnderWay(d)' => invoke' = "running" /\ target'.call[d].node \in Callers'
    BY <1>a, <2>1, <2>2 DEF Nested
  <2>4. \A t \in Tools : UnderWay(t)' /\ Active(target.call[t].node)' =>
          ToolSpan(t) \in nodes'[target'.call[t].node].tools
    <3> SUFFICES ASSUME NEW t \in Tools, UnderWay(t)', Active(target.call[t].node)'
                 PROVE ToolSpan(t) \in nodes'[target'.call[t].node].tools
      OBVIOUS
    <3>1. t \in Calls
      BY DEF Calls
    <3>2. target'.call[t].node \in Keys /\ nodes'[target'.call[t].node].active
      BY <3>1 DEF Active, TargetOK
    <3>3. Active(target'.call[t].node)
      BY <3>2, OutsideIsNoKey DEF Active
    <3>4. CASE t # c
      <4>1. UnderWay(t) /\ target'.call[t].node = target.call[t].node
        BY <2>2, <3>1, <3>4
      <4>2. ToolSpan(t) \in nodes[target.call[t].node].tools
        BY <1>a, <3>3, <4>1 DEF Nested
      <4> QED BY <3>2, <3>4, <4>1, <4>2
    <3> QED BY <3>3, <3>4
  <2>5. \A n \in Nodes : target.running[n] => <<n, target.try[n]>> \in Keys
    BY <1>a, FornaxAssumption DEF Keys, TargetOK, Nested
  <2>6. \A n \in Nodes : target'.running[n] => nodes'[<<n, target'.try[n]>>].active
    BY <1>a, <2>5 DEF Nested
  <2> QED BY <1>a, <2>3, <2>4, <2>6 DEF Nested
<1>6. FailuresNoted'
  <2>1. \A k \in Keys : nodes'[k].active => spans'[NodeSpan(k)].status # "ok"
    BY <1>a DEF FailuresNoted
  <2> SUFFICES ASSUME NEW k \in target'.failed
               PROVE /\ k[2] <= target'.try[k[1]]
                     /\ nodes'[k].active => nodes'[k].failed
                     /\ spans'[NodeSpan(k)].status # "ok"
    BY <2>1 DEF FailuresNoted
  <2>2. k \in Keys
    BY DEF TargetOK
  <2>3. CASE k \in target.failed
    BY <1>a, <2>2, <2>3 DEF FailuresNoted
  <2>4. CASE nodes[k].active /\ nodes'[k].failed
    BY <1>a, <2>1, <2>2, <2>4 DEF Nested
  <2> QED BY <2>3, <2>4
<1> QED BY <1>1, <1>2, <1>3, <1>4, <1>5, <1>6 DEF IInv

\* What the events of a call do to the target's call.
LEMMA CallMovesOn ==
  ASSUME TargetOK, NEW c \in Calls, NEW at \in {"started", "done"}, NEW key \in Keys \cup {Outside},
         CallMoves(c, at, key)
  PROVE /\ TargetOK'
        /\ target'.run = target.run /\ target'.try = target.try /\ target'.running = target.running
        /\ target'.failed = target.failed
        /\ \A d \in Calls : d # c => target'.call[d] = target.call[d]
        /\ target'.call[c].at = at /\ target'.call[c].node = key
<1>1. target' = [target EXCEPT !.call[c] = [at |-> at, node |-> key]]
  BY DEF CallMoves
<1> QED BY <1>1 DEF TargetOK

\* The end of a call, whose failure counts for an active node.
LEMMA CallEnded ==
  ASSUME TargetOK, NEW c \in Calls, NEW key \in Keys \cup {Outside}, NEW failed \in BOOLEAN,
         CallEnds(c, key, failed)
  PROVE /\ TargetOK'
        /\ target'.run = target.run /\ target'.try = target.try /\ target'.running = target.running
        /\ \A k \in target'.failed : k \in target.failed \/ (failed /\ k = key /\ Active(key))
        /\ \A d \in Calls : d # c => target'.call[d] = target.call[d]
        /\ target'.call[c].at = "done" /\ ~UnderWay(c)'
<1>1. target' = [target EXCEPT !.call[c] = [at |-> "done", node |-> Outside],
                               !.failed = IF failed /\ Active(key) THEN target.failed \cup {key} ELSE target.failed]
  BY DEF CallEnds
<1>2. Active(key) => key \in Keys
  BY DEF Active
<1>3. TargetOK'
  BY <1>1, <1>2 DEF TargetOK
<1>4. target'.call = [target.call EXCEPT ![c] = [at |-> "done", node |-> Outside]]
  BY <1>1 DEF TargetOK
<1>5. target'.call[c].at = "done" /\ \A d \in Calls : d # c => target'.call[d] = target.call[d]
  BY <1>4 DEF TargetOK
<1>6. ~UnderWay(c)'
  BY <1>5 DEF UnderWay
<1>7. target'.run = target.run /\ target'.try = target.try /\ target'.running = target.running
  BY <1>1 DEF TargetOK
<1>8. \A k \in target'.failed : k \in target.failed \/ (failed /\ k = key /\ Active(key))
  BY <1>1 DEF TargetOK
<1> QED BY <1>3, <1>5, <1>6, <1>7, <1>8

\* A call that ends without an event.
LEMMA CallDroppedKeeps == ASSUME IInv, NEW c \in Calls, CallDropped(c) PROVE IInv'
<1>1. /\ CallMoves(c, "done", Outside) /\ spans' = spans /\ nodes' = nodes /\ direct' = direct
      /\ invoke' = invoke /\ runs' = runs /\ exporter' = exporter
  BY DEF CallDropped, sinkVars
<1>2. /\ TargetOK' /\ target'.run = target.run /\ target'.try = target.try /\ target'.running = target.running
      /\ target'.failed = target.failed
      /\ \A d \in Calls : d # c => target'.call[d] = target.call[d]
      /\ target'.call[c].at = "done"
  BY <1>1, CallMovesOn DEF IInv
<1>3. ~UnderWay(c)'
  BY <1>2 DEF UnderWay
<1>4. Sound({}, {})
  BY <1>1 DEF Sound, SpanStep, IInv, TypeOK, SpanRecord
<1>5. nodes' \in [Keys -> NodeRecord] /\ direct' \in Spans \cup {NoSpan} /\ (direct' # NoSpan => invoke = "running")
  BY <1>1 DEF IInv, TypeOK, NodeRecord, Nested
<1>6. \A m \in Models : HeldModel(m)' <=> HeldModel(m)
  BY <1>1 DEF HeldModel
<1>7. \A t \in Tools : HeldTool(t)' <=> HeldTool(t)
  BY <1>1 DEF HeldTool
<1>8. HeldOnce'
  BY <1>1 DEF IInv, HeldOnce
<1> QED BY <1>1, <1>2, <1>3, <1>4, <1>5, <1>6, <1>7, <1>8, CallKeeps

\* A model call follows the one before it in its node; outside of the nodes
\* only the first has a span.
LEMMA ModelStartsKeeps ==
  ASSUME IInv, NEW m \in Models, NEW key \in Callers, ModelStarts(m, key)
  PROVE IInv'
<1>a. /\ TypeOK /\ TargetOK /\ Fresh /\ OpenAreHeld /\ HeldOnce /\ Nested
      /\ invoke' = invoke /\ runs' = runs /\ exporter' = exporter
      /\ invoke = "running" /\ key \in Keys \cup {Outside} /\ m \in Calls
      /\ ModelSpan(m) \in Spans /\ ModelSpan(m) # NoSpan
      /\ spans \in [Spans -> SpanRecord] /\ nodes \in [Keys -> NodeRecord]
      /\ spans[ModelSpan(m)].status = "none"
  BY SpanNames DEF IInv, ModelStarts, Callers, Calls, TypeOK, SpanRecord, NodeRecord, Fresh
<1>1. /\ TargetOK' /\ target'.run = target.run /\ target'.try = target.try /\ target'.running = target.running
      /\ target'.failed = target.failed
      /\ \A d \in Calls : d # m => target'.call[d] = target.call[d]
      /\ target'.call[m].at = "started" /\ target'.call[m].node \in Callers
  BY <1>a, CallMovesOn DEF ModelStarts
<1>2. m \notin Tools
  BY FornaxAssumption
<1>3. ~HeldModel(m)
  BY <1>a DEF OpenAreHeld, HeldModel, Open
<1>4. CASE Active(key)
  <2> DEFINE old == nodes[key].model
             S == {ModelSpan(m)}
             E == {old} \ {NoSpan}
             mid == EndedSpans(spans, E)
             new == [nodes[key] EXCEPT !.model = ModelSpan(m)]
  <2>1. /\ key \in Keys /\ nodes[key].active
        /\ spans' = Started(mid, ModelSpan(m))
        /\ nodes' = [nodes EXCEPT ![key] = new]
        /\ direct' = direct
    BY <1>4, <1>a DEF ModelStarts, Active
  <2>2. /\ mid \in [Spans -> SpanRecord]
        /\ \A q \in Spans : /\ mid[q].ends = spans[q].ends + (IF q \in E THEN 1 ELSE 0)
                            /\ mid[q].taken <=> spans[q].taken
                            /\ mid[q].stored = spans[q].stored
                            /\ mid[q].lost <=> spans[q].lost
        /\ \A q \in Spans : mid[q].status = spans[q].status
    BY <1>a, SpansEnded
  <2>3. /\ new \in NodeRecord /\ new.active = nodes[key].active /\ new.model = ModelSpan(m)
        /\ new.failed = nodes[key].failed /\ new.tools = nodes[key].tools
    <3>1. nodes[key] \in NodeRecord /\ ModelSpan(m) \in Spans \cup {NoSpan}
      BY <1>a, <2>1
    <3> QED BY <3>1, NodeModel
  <2>4. old # NoSpan => (\E q \in Models : old = ModelSpan(q) /\ q # m) /\ Open(old) /\ old \in Spans
    BY <1>a, <1>3, <2>1, SpanNames DEF HeldOnce, OpenAreHeld, HeldModel
  <2> HIDE DEF mid, new
  <2>5. /\ spans' \in [Spans -> SpanRecord]
        /\ spans'[ModelSpan(m)].status = "unset" /\ spans'[ModelSpan(m)].ends = 0
        /\ ~spans'[ModelSpan(m)].taken /\ spans'[ModelSpan(m)].stored = 0 /\ ~spans'[ModelSpan(m)].lost
        /\ \A q \in Spans : q # ModelSpan(m) => spans'[q] = mid[q]
    BY <1>a, <2>1, <2>2, StartedSpan
  <2>6. Sound(S, E)
    BY <1>a, <2>2, <2>4, <2>5 DEF Sound, SpanStep
  <2>7. \A k \in Keys : spans'[NodeSpan(k)].status = spans[NodeSpan(k)].status
    BY <2>2, <2>5, SpanNames
  <2>8. /\ nodes' \in [Keys -> NodeRecord]
        /\ nodes'[key] = new /\ \A k \in Keys : k # key => nodes'[k] = nodes[k]
    BY <1>a, <2>1, <2>3
  <2>9. \A k \in Keys : /\ nodes'[k].active <=> nodes[k].active
                        /\ nodes'[k].failed <=> nodes[k].failed
                        /\ nodes'[k].tools = nodes[k].tools
                        /\ k # key => nodes'[k].model = nodes[k].model
    BY <2>3, <2>8
  <2>10. HeldOnce'
    <3>1. \A k \in Keys : nodes[k].model # ModelSpan(m) /\ direct # ModelSpan(m)
      BY <1>3 DEF HeldModel
    <3>2. nodes'[key].model = ModelSpan(m) /\ nodes'[key].active
      BY <2>1, <2>3, <2>8
    <3>3. \A k \in Keys : k # key => nodes'[k] = nodes[k]
      BY <2>8
    <3>4. \A k \in Keys : ~nodes'[k].active => nodes'[k] = NoNode
      BY <1>a, <3>2, <3>3 DEF HeldOnce
    <3>5. \A k \in Keys : nodes'[k].model = NoSpan \/ \E q \in Models : nodes'[k].model = ModelSpan(q)
      BY <1>a, <3>2, <3>3 DEF HeldOnce
    <3>6. \A k \in Keys : /\ \A p \in nodes'[k].tools : \E t \in Tools : p = ToolSpan(t)
                          /\ \A j \in Keys \ {k} : \A p \in nodes'[k].tools : p \notin nodes'[j].tools
      BY <1>a, <2>9 DEF HeldOnce
    <3>7. \A k \in Keys : /\ nodes'[k].model # NoSpan => nodes'[k].model # direct
                          /\ \A j \in Keys \ {k} : nodes'[k].model # NoSpan => nodes'[j].model # nodes'[k].model
      BY <1>a, <3>1, <3>2, <3>3 DEF HeldOnce
    <3> QED BY <1>a, <2>1, <3>4, <3>5, <3>6, <3>7 DEF HeldOnce
  <2>11. \A q \in Models : HeldModel(q)' <=> (HeldModel(q) /\ ModelSpan(q) \notin E) \/ ModelSpan(q) \in S
    <3> SUFFICES ASSUME NEW q \in Models
                 PROVE HeldModel(q)' <=> (HeldModel(q) /\ ModelSpan(q) \notin E) \/ ModelSpan(q) \in S
      OBVIOUS
    <3>1. ModelSpan(q) \in S <=> q = m
      BY SpanNames
    <3>2. CASE q = m
      BY <2>1, <2>3, <2>8, <3>1, <3>2 DEF HeldModel
    <3>3. CASE q # m
      <4>1. ModelSpan(q) \in E <=> ModelSpan(q) = old
        BY SpanNames
      <4>2. ModelSpan(q) = old => direct # ModelSpan(q) /\ \A k \in Keys : k # key => nodes[k].model # ModelSpan(q)
        BY <1>a, <2>1, SpanNames DEF HeldOnce
      <4>3. nodes'[key].model # ModelSpan(q)
        BY <2>3, <2>8, <3>1, <3>3
      <4> HIDE DEF E, S
      <4> QED BY <2>1, <2>9, <3>1, <3>3, <4>1, <4>2, <4>3 DEF HeldModel
    <3> QED BY <3>2, <3>3
  <2>12. \A t \in Tools : HeldTool(t)' <=> (HeldTool(t) /\ ToolSpan(t) \notin E) \/ ToolSpan(t) \in S
    <3>1. \A t \in Tools : ToolSpan(t) \notin E /\ ToolSpan(t) \notin S
      BY <2>4, SpanNames
    <3>2. \A t \in Tools : HeldTool(t)' <=> HeldTool(t)
      BY <2>9 DEF HeldTool
    <3> QED BY <3>1, <3>2
  <2>13. /\ \A p \in S \cup E : (\E q \in Models : p = ModelSpan(q)) \/ (\E t \in Tools : p = ToolSpan(t))
         /\ \A p \in S : (m \in Models /\ p = ModelSpan(m)) \/ (m \in Tools /\ p = ToolSpan(m))
    BY <2>4
  <2>14. direct' \in Spans \cup {NoSpan} /\ (direct' # NoSpan => invoke = "running")
    BY <1>a, <2>1 DEF TypeOK
  <2> HIDE DEF S, E
  <2> QED BY <1>a, <1>1, <1>2, <2>6, <2>7, <2>8, <2>9, <2>10, <2>11, <2>12, <2>13, <2>14, CallKeeps
<1>5. CASE ~Active(key) /\ direct = NoSpan
  <2> DEFINE S == {ModelSpan(m)}
             E == {}
  <2>1. /\ spans' = Started(spans, ModelSpan(m))
        /\ nodes' = nodes
        /\ direct' = ModelSpan(m)
    BY <1>5 DEF ModelStarts
  <2>2. /\ spans' \in [Spans -> SpanRecord]
        /\ spans'[ModelSpan(m)].status = "unset" /\ spans'[ModelSpan(m)].ends = 0
        /\ ~spans'[ModelSpan(m)].taken /\ spans'[ModelSpan(m)].stored = 0 /\ ~spans'[ModelSpan(m)].lost
        /\ \A q \in Spans : q # ModelSpan(m) => spans'[q] = spans[q]
    BY <1>a, <2>1, StartedSpan
  <2>3. Sound(S, E)
    BY <1>a, <2>2 DEF Sound, SpanStep, SpanRecord
  <2>4. \A k \in Keys : spans'[NodeSpan(k)].status = spans[NodeSpan(k)].status
    BY <2>2, SpanNames
  <2>5. HeldOnce'
    BY <1>a, <1>3, <2>1 DEF HeldOnce, HeldModel
  <2>6. \A q \in Models : HeldModel(q)' <=> (HeldModel(q) /\ ModelSpan(q) \notin E) \/ ModelSpan(q) \in S
    <3>1. \A q \in Models : ModelSpan(q) \in S <=> q = m
      BY SpanNames
    <3> QED BY <1>5, <2>1, <3>1, SpanNames DEF HeldModel
  <2>7. \A t \in Tools : HeldTool(t)' <=> (HeldTool(t) /\ ToolSpan(t) \notin E) \/ ToolSpan(t) \in S
    BY <2>1, SpanNames DEF HeldTool
  <2>8. /\ \A p \in S \cup E : (\E q \in Models : p = ModelSpan(q)) \/ (\E t \in Tools : p = ToolSpan(t))
        /\ \A p \in S : (m \in Models /\ p = ModelSpan(m)) \/ (m \in Tools /\ p = ToolSpan(m))
    OBVIOUS
  <2>9. direct' \in Spans \cup {NoSpan}
    BY <1>a, <2>1
  <2> HIDE DEF S, E
  <2> QED BY <1>a, <1>1, <1>2, <2>1, <2>3, <2>4, <2>5, <2>6, <2>7, <2>8, <2>9, CallKeeps
<1>6. CASE ~Active(key) /\ direct # NoSpan
  <2>1. spans' = spans /\ nodes' = nodes /\ direct' = direct
    BY <1>6 DEF ModelStarts
  <2>2. Sound({}, {})
    BY <1>a, <2>1 DEF Sound, SpanStep, SpanRecord
  <2>3. HeldOnce'
    BY <1>a, <2>1 DEF HeldOnce
  <2>4. /\ \A q \in Models : HeldModel(q)' <=> HeldModel(q)
        /\ \A t \in Tools : HeldTool(t)' <=> HeldTool(t)
    BY <2>1 DEF HeldModel, HeldTool
  <2>5. direct' \in Spans \cup {NoSpan}
    BY <1>a, <2>1 DEF TypeOK
  <2> QED BY <1>a, <1>1, <1>2, <2>1, <2>2, <2>3, <2>4, <2>5, CallKeeps
<1> QED BY <1>4, <1>5, <1>6

\* The end of a model call is the end of the span its node holds, or of the one
\* outside of the nodes.
LEMMA ModelFinishesKeeps ==
  ASSUME IInv, NEW m \in Models, NEW failed \in BOOLEAN, ModelFinishes(m, failed)
  PROVE IInv'
<1> DEFINE key == target.call[m].node
           status == IF failed THEN "error" ELSE "ok"
<1>a. /\ TypeOK /\ TargetOK /\ OpenAreHeld /\ HeldOnce /\ Nested
      /\ invoke' = invoke /\ runs' = runs /\ exporter' = exporter
      /\ m \in Calls /\ key \in Keys \cup {Outside} /\ invoke = "running"
      /\ NoSpan \notin Spans /\ status \in {"ok", "error"}
      /\ spans \in [Spans -> SpanRecord] /\ nodes \in [Keys -> NodeRecord]
      /\ CallEnds(m, key, failed)
  BY SpanNames DEF IInv, ModelFinishes, Calls, TypeOK, SpanRecord, NodeRecord, TargetOK, Nested
<1>b. Active(key) => /\ key \in Keys /\ nodes[key].active
                     /\ nodes' = [nodes EXCEPT ![key].model = NoSpan, ![key].failed = nodes[key].failed \/ failed]
                     /\ direct' = direct
                     /\ spans' = Closed(spans, {nodes[key].model} \ {NoSpan}, status)
  BY <1>a DEF ModelFinishes, Active
<1>c. ~Active(key) => /\ nodes' = nodes
                      /\ direct' = NoSpan
                      /\ spans' = Closed(spans, {direct} \ {NoSpan}, status)
  BY <1>a DEF ModelFinishes
<1> HIDE DEF key, status
<1>1. /\ TargetOK' /\ target'.run = target.run /\ target'.try = target.try /\ target'.running = target.running
      /\ \A k \in target'.failed : k \in target.failed \/ (failed /\ k = key /\ Active(key))
      /\ \A d \in Calls : d # m => target'.call[d] = target.call[d]
      /\ target'.call[m].at = "done" /\ ~UnderWay(m)'
  BY <1>a, CallEnded
<1>2. m \notin Tools
  BY FornaxAssumption
<1>3. CASE Active(key)
  <2> DEFINE E == {nodes[key].model} \ {NoSpan}
             once == [nodes[key] EXCEPT !.model = NoSpan]
             new == [once EXCEPT !.failed = nodes[key].failed \/ failed]
  <2>1. /\ key \in Keys /\ nodes[key].active
        /\ nodes' = [nodes EXCEPT ![key] = new]
        /\ direct' = direct
        /\ spans' = Closed(spans, E, status)
        /\ nodes[key] \in NodeRecord /\ nodes[key].failed \in BOOLEAN
    BY <1>3, <1>a, <1>b DEF NodeRecord
  <2>2. /\ once \in NodeRecord /\ once.active = nodes[key].active /\ once.model = NoSpan
        /\ once.tools = nodes[key].tools
    BY <2>1, NodeModel
  <2> HIDE DEF once
  <2>3. /\ new \in NodeRecord /\ new.active = nodes[key].active /\ new.model = NoSpan
        /\ new.tools = nodes[key].tools /\ new.failed = (nodes[key].failed \/ failed)
    <3>1. (nodes[key].failed \/ failed) \in BOOLEAN
      OBVIOUS
    <3> QED BY <2>2, <3>1, NodeFailed
  <2> HIDE DEF new
  <2>4. \A p \in E : (\E q \in Models : p = ModelSpan(q)) /\ Open(p) /\ p \in Spans
    BY <1>a, <2>1, SpanNames DEF HeldOnce, OpenAreHeld
  <2>5. /\ spans' \in [Spans -> SpanRecord]
        /\ \A q \in Spans :
             /\ spans'[q].ends = spans[q].ends + (IF q \in E THEN 1 ELSE 0)
             /\ spans'[q].taken <=> spans[q].taken
             /\ spans'[q].stored = spans[q].stored
             /\ spans'[q].lost <=> spans[q].lost
        /\ \A q \in Spans : spans'[q].status =
             IF q \in E /\ spans[q].status # "error" THEN status ELSE spans[q].status
    BY <1>a, <2>1, SpansClosed
  <2>6. Sound({}, E)
    <3>1. \A q \in Spans : spans'[q].status = "none" <=> spans[q].status = "none"
      BY <1>a, <2>4, <2>5 DEF Open
    <3> QED BY <2>4, <2>5, <3>1 DEF Sound, SpanStep
  <2>7. \A k \in Keys : spans'[NodeSpan(k)].status = spans[NodeSpan(k)].status
    <3>1. \A k \in Keys : NodeSpan(k) \notin E /\ NodeSpan(k) \in Spans
      BY <2>4, SpanNames
    <3> QED BY <2>5, <3>1
  <2>8. /\ nodes' \in [Keys -> NodeRecord]
        /\ nodes'[key] = new /\ \A k \in Keys : k # key => nodes'[k] = nodes[k]
    BY <1>a, <2>1, <2>3
  <2>9. \A k \in Keys : /\ nodes'[k].active <=> nodes[k].active
                        /\ nodes[k].failed => nodes'[k].failed
                        /\ nodes'[k].tools = nodes[k].tools
                        /\ k # key => nodes'[k].model = nodes[k].model
    BY <2>3, <2>8
  <2>10. HeldOnce'
    <3>1. nodes'[key].model = NoSpan /\ nodes'[key].active
      BY <2>1, <2>3, <2>8
    <3>2. \A k \in Keys : /\ ~nodes'[k].active => nodes'[k] = NoNode
                          /\ nodes'[k].model = NoSpan \/ \E q \in Models : nodes'[k].model = ModelSpan(q)
      BY <1>a, <3>1, <2>8 DEF HeldOnce
    <3>3. \A k \in Keys : /\ \A p \in nodes'[k].tools : \E t \in Tools : p = ToolSpan(t)
                          /\ \A j \in Keys \ {k} : \A p \in nodes'[k].tools : p \notin nodes'[j].tools
      BY <1>a, <2>9 DEF HeldOnce
    <3>4. \A k \in Keys : /\ nodes'[k].model # NoSpan => nodes'[k].model # direct
                          /\ \A j \in Keys \ {k} : nodes'[k].model # NoSpan => nodes'[j].model # nodes'[k].model
      BY <1>a, <3>1, <2>8 DEF HeldOnce
    <3> QED BY <1>a, <2>1, <3>2, <3>3, <3>4 DEF HeldOnce
  <2>11. \A q \in Models : HeldModel(q)' <=> HeldModel(q) /\ ModelSpan(q) \notin E
    <3> SUFFICES ASSUME NEW q \in Models
                 PROVE HeldModel(q)' <=> HeldModel(q) /\ ModelSpan(q) \notin E
      OBVIOUS
    <3>1. ModelSpan(q) \in E <=> ModelSpan(q) = nodes[key].model
      BY SpanNames
    <3>2. ModelSpan(q) = nodes[key].model => direct # ModelSpan(q) /\ \A k \in Keys : k # key => nodes[k].model # ModelSpan(q)
      BY <1>a, <2>1, SpanNames DEF HeldOnce
    <3>3. nodes'[key].model # ModelSpan(q)
      BY <2>3, <2>8, SpanNames
    <3> HIDE DEF E
    <3> QED BY <2>1, <2>9, <3>1, <3>2, <3>3 DEF HeldModel
  <2>12. \A t \in Tools : HeldTool(t)' <=> HeldTool(t) /\ ToolSpan(t) \notin E
    <3>1. \A t \in Tools : ToolSpan(t) \notin E
      BY <2>4, SpanNames
    <3>2. \A t \in Tools : HeldTool(t)' <=> HeldTool(t)
      BY <2>9 DEF HeldTool
    <3> QED BY <3>1, <3>2
  <2>13. \A k \in target'.failed : k \in target.failed \/ (nodes[k].active /\ nodes'[k].failed)
    BY <1>1, <2>1, <2>3, <2>8
  <2>14. direct' \in Spans \cup {NoSpan}
    BY <1>a, <2>1 DEF TypeOK
  <2> HIDE DEF E
  <2> QED BY <1>a, <1>1, <1>2, <2>4, <2>6, <2>7, <2>8, <2>9, <2>10, <2>11, <2>12, <2>13, <2>14, CallKeeps
<1>4. CASE ~Active(key)
  <2> DEFINE E == {direct} \ {NoSpan}
  <2>1. nodes' = nodes /\ direct' = NoSpan /\ spans' = Closed(spans, E, status)
    BY <1>4, <1>c
  <2>4. \A p \in E : (\E q \in Models : p = ModelSpan(q)) /\ Open(p) /\ p \in Spans
    BY <1>a, SpanNames DEF HeldOnce, OpenAreHeld
  <2>5. /\ spans' \in [Spans -> SpanRecord]
        /\ \A q \in Spans :
             /\ spans'[q].ends = spans[q].ends + (IF q \in E THEN 1 ELSE 0)
             /\ spans'[q].taken <=> spans[q].taken
             /\ spans'[q].stored = spans[q].stored
             /\ spans'[q].lost <=> spans[q].lost
        /\ \A q \in Spans : spans'[q].status =
             IF q \in E /\ spans[q].status # "error" THEN status ELSE spans[q].status
    BY <1>a, <2>1, SpansClosed
  <2>6. Sound({}, E)
    <3>1. \A q \in Spans : spans'[q].status = "none" <=> spans[q].status = "none"
      BY <1>a, <2>4, <2>5 DEF Open
    <3> QED BY <2>4, <2>5, <3>1 DEF Sound, SpanStep
  <2>7. \A k \in Keys : spans'[NodeSpan(k)].status = spans[NodeSpan(k)].status
    <3>1. \A k \in Keys : NodeSpan(k) \notin E /\ NodeSpan(k) \in Spans
      BY <2>4, SpanNames
    <3> QED BY <2>5, <3>1
  <2>8. HeldOnce'
    BY <1>a, <2>1 DEF HeldOnce
  <2>9. \A q \in Models : HeldModel(q)' <=> HeldModel(q) /\ ModelSpan(q) \notin E
    BY <1>a, <2>1, SpanNames DEF HeldModel, HeldOnce
  <2>10. \A t \in Tools : HeldTool(t)' <=> HeldTool(t) /\ ToolSpan(t) \notin E
    BY <2>1, <2>4, SpanNames DEF HeldTool
  <2>11. \A k \in target'.failed : k \in target.failed
    BY <1>1, <1>4
  <2> HIDE DEF E
  <2> QED BY <1>a, <1>1, <1>2, <2>1, <2>4, <2>6, <2>7, <2>8, <2>9, <2>10, <2>11, CallKeeps
<1> QED BY <1>3, <1>4

\* A tool call has a span when its node is active.
LEMMA ToolStartsKeeps ==
  ASSUME IInv, NEW t \in Tools, NEW key \in Callers, ToolStarts(t, key)
  PROVE IInv'
<1>a. /\ TypeOK /\ TargetOK /\ Fresh /\ OpenAreHeld /\ HeldOnce /\ Nested
      /\ invoke' = invoke /\ runs' = runs /\ exporter' = exporter /\ direct' = direct
      /\ invoke = "running" /\ key \in Keys \cup {Outside} /\ t \in Calls
      /\ ToolSpan(t) \in Spans
      /\ spans \in [Spans -> SpanRecord] /\ nodes \in [Keys -> NodeRecord]
      /\ spans[ToolSpan(t)].status = "none"
      /\ direct \in Spans \cup {NoSpan}
  BY SpanNames DEF IInv, ToolStarts, Callers, Calls, TypeOK, SpanRecord, NodeRecord, Fresh
<1>1. /\ TargetOK' /\ target'.run = target.run /\ target'.try = target.try /\ target'.running = target.running
      /\ target'.failed = target.failed
      /\ \A d \in Calls : d # t => target'.call[d] = target.call[d]
      /\ target'.call[t].at = "started" /\ target'.call[t].node = key
  BY <1>a, CallMovesOn DEF ToolStarts
<1>2. t \notin Models
  BY FornaxAssumption
<1>3. \A k \in Keys : ToolSpan(t) \notin nodes[k].tools
  BY <1>a DEF OpenAreHeld, Open
<1>4. CASE Active(key)
  <2> DEFINE S == {ToolSpan(t)}
             E == {}
             more == nodes[key].tools \cup {ToolSpan(t)}
             new == [nodes[key] EXCEPT !.tools = more]
  <2>1. /\ key \in Keys /\ nodes[key].active
        /\ spans' = Started(spans, ToolSpan(t))
        /\ nodes' = [nodes EXCEPT ![key] = new]
        /\ nodes[key] \in NodeRecord /\ more \in SUBSET Spans
    BY <1>4, <1>a DEF ToolStarts, Active, NodeRecord
  <2>2. /\ new \in NodeRecord /\ new.active = nodes[key].active /\ new.model = nodes[key].model
        /\ new.failed = nodes[key].failed /\ new.tools = more
    <3> HIDE DEF more
    <3> QED BY <2>1, NodeTools
  <2> HIDE DEF new
  <2>3. /\ spans' \in [Spans -> SpanRecord]
        /\ spans'[ToolSpan(t)].status = "unset" /\ spans'[ToolSpan(t)].ends = 0
        /\ ~spans'[ToolSpan(t)].taken /\ spans'[ToolSpan(t)].stored = 0 /\ ~spans'[ToolSpan(t)].lost
        /\ \A q \in Spans : q # ToolSpan(t) => spans'[q] = spans[q]
    BY <1>a, <2>1, StartedSpan
  <2>4. Sound(S, E)
    BY <1>a, <2>3 DEF Sound, SpanStep, SpanRecord
  <2>5. \A k \in Keys : spans'[NodeSpan(k)].status = spans[NodeSpan(k)].status
    BY <2>3, SpanNames
  <2>6. /\ nodes' \in [Keys -> NodeRecord]
        /\ nodes'[key] = new /\ \A k \in Keys : k # key => nodes'[k] = nodes[k]
    BY <1>a, <2>1, <2>2
  <2>7. \A k \in Keys : /\ nodes'[k].active <=> nodes[k].active
                        /\ nodes'[k].failed <=> nodes[k].failed
                        /\ nodes'[k].model = nodes[k].model
                        /\ \A p : p \in nodes'[k].tools <=> p \in nodes[k].tools \/ (k = key /\ p = ToolSpan(t))
    BY <2>2, <2>6
  <2>8. HeldOnce'
    <3>1. \A k \in Keys : ~nodes'[k].active => nodes'[k] = NoNode
      BY <1>a, <2>1, <2>6, <2>7 DEF HeldOnce
    <3>2. \A k \in Keys : \A p \in nodes'[k].tools : \E q \in Tools : p = ToolSpan(q)
      BY <1>a, <2>7 DEF HeldOnce
    <3>3. \A k \in Keys : \A j \in Keys \ {k} : \A p \in nodes'[k].tools : p \notin nodes'[j].tools
      BY <1>a, <1>3, <2>7 DEF HeldOnce
    <3>4. \A k \in Keys : /\ nodes'[k].model = NoSpan \/ \E m \in Models : nodes'[k].model = ModelSpan(m)
                          /\ nodes'[k].model # NoSpan => nodes'[k].model # direct
                          /\ \A j \in Keys \ {k} : nodes'[k].model # NoSpan => nodes'[j].model # nodes'[k].model
      BY <1>a, <2>7 DEF HeldOnce
    <3> QED BY <1>a, <3>1, <3>2, <3>3, <3>4 DEF HeldOnce
  <2>9. \A m \in Models : HeldModel(m)' <=> (HeldModel(m) /\ ModelSpan(m) \notin E) \/ ModelSpan(m) \in S
    <3>1. \A m \in Models : ModelSpan(m) \notin S
      BY SpanNames
    <3>2. \A m \in Models : HeldModel(m)' <=> HeldModel(m)
      BY <1>a, <2>7 DEF HeldModel
    <3> QED BY <3>1, <3>2
  <2>10. \A q \in Tools : HeldTool(q)' <=> (HeldTool(q) /\ ToolSpan(q) \notin E) \/ ToolSpan(q) \in S
    <3> HIDE DEF more
    <3> QED BY <2>1, <2>7 DEF HeldTool
  <2>11. /\ \A p \in S \cup E : (\E m \in Models : p = ModelSpan(m)) \/ (\E q \in Tools : p = ToolSpan(q))
         /\ \A p \in S : (t \in Models /\ p = ModelSpan(t)) \/ (t \in Tools /\ p = ToolSpan(t))
    OBVIOUS
  <2>12. ToolSpan(t) \in nodes'[key].tools
    BY <2>1, <2>7
  <2> HIDE DEF S, E
  <2> QED BY <1>a, <1>1, <1>2, <2>4, <2>5, <2>6, <2>7, <2>8, <2>9, <2>10, <2>11, <2>12, CallKeeps
<1>5. CASE ~Active(key)
  <2>1. spans' = spans /\ nodes' = nodes
    BY <1>5 DEF ToolStarts
  <2>2. Sound({}, {})
    BY <1>a, <2>1 DEF Sound, SpanStep, SpanRecord
  <2>3. HeldOnce'
    BY <1>a, <2>1 DEF HeldOnce
  <2>4. /\ \A q \in Models : HeldModel(q)' <=> HeldModel(q)
        /\ \A q \in Tools : HeldTool(q)' <=> HeldTool(q)
    BY <1>a, <2>1 DEF HeldModel, HeldTool
  <2> QED BY <1>a, <1>1, <1>2, <1>5, <2>1, <2>2, <2>3, <2>4, CallKeeps
<1> QED BY <1>4, <1>5

\* The end of a tool call that the node knows ends its span.
LEMMA ToolFinishesKeeps ==
  ASSUME IInv, NEW t \in Tools, NEW failed \in BOOLEAN, ToolFinishes(t, failed)
  PROVE IInv'
<1> DEFINE key == target.call[t].node
           status == IF failed THEN "error" ELSE "ok"
           known == Active(key) /\ ToolSpan(t) \in nodes[key].tools
<1>a. /\ TypeOK /\ TargetOK /\ OpenAreHeld /\ HeldOnce /\ Nested /\ UnderWay(t)
      /\ invoke' = invoke /\ runs' = runs /\ exporter' = exporter /\ direct' = direct
      /\ t \in Calls /\ key \in Keys \cup {Outside} /\ invoke = "running"
      /\ status \in {"ok", "error"} /\ ToolSpan(t) \in Spans
      /\ spans \in [Spans -> SpanRecord] /\ nodes \in [Keys -> NodeRecord]
      /\ direct \in Spans \cup {NoSpan}
      /\ CallEnds(t, key, failed)
  BY SpanNames DEF IInv, ToolFinishes, Calls, TypeOK, SpanRecord, NodeRecord, TargetOK, Nested
<1>b. known => /\ key \in Keys /\ nodes[key].active
               /\ nodes' = [nodes EXCEPT ![key].tools = nodes[key].tools \ {ToolSpan(t)},
                                         ![key].failed = nodes[key].failed \/ failed]
               /\ spans' = Closed(spans, {ToolSpan(t)}, status)
  BY <1>a DEF ToolFinishes, Active
<1>c. Active(key) => known
  BY <1>a DEF Nested
<1>d. ~known => nodes' = nodes /\ spans' = spans
  BY <1>a DEF ToolFinishes
<1> HIDE DEF key, status
<1>1. /\ TargetOK' /\ target'.run = target.run /\ target'.try = target.try /\ target'.running = target.running
      /\ \A k \in target'.failed : k \in target.failed \/ (failed /\ k = key /\ Active(key))
      /\ \A d \in Calls : d # t => target'.call[d] = target.call[d]
      /\ target'.call[t].at = "done" /\ ~UnderWay(t)'
  BY <1>a, CallEnded
<1>2. t \notin Models
  BY FornaxAssumption
<1>3. CASE known
  <2> DEFINE E == {ToolSpan(t)}
             less == nodes[key].tools \ {ToolSpan(t)}
             once == [nodes[key] EXCEPT !.tools = less]
             new == [once EXCEPT !.failed = nodes[key].failed \/ failed]
  <2>1. /\ key \in Keys /\ nodes[key].active
        /\ nodes' = [nodes EXCEPT ![key] = new]
        /\ spans' = Closed(spans, E, status)
        /\ nodes[key] \in NodeRecord /\ nodes[key].failed \in BOOLEAN /\ less \in SUBSET Spans
    BY <1>3, <1>a, <1>b DEF NodeRecord
  <2>2. /\ once \in NodeRecord /\ once.active = nodes[key].active /\ once.model = nodes[key].model
        /\ once.tools = less
    <3> HIDE DEF less
    <3> QED BY <2>1, NodeTools
  <2> HIDE DEF once
  <2>3. /\ new \in NodeRecord /\ new.active = nodes[key].active /\ new.model = nodes[key].model
        /\ new.tools = less /\ new.failed = (nodes[key].failed \/ failed)
    <3>1. (nodes[key].failed \/ failed) \in BOOLEAN
      OBVIOUS
    <3> QED BY <2>2, <3>1, NodeFailed
  <2> HIDE DEF new
  <2>4. Open(ToolSpan(t))
    BY <1>3, <1>a, <2>1 DEF OpenAreHeld
  <2>5. /\ spans' \in [Spans -> SpanRecord]
        /\ \A q \in Spans :
             /\ spans'[q].ends = spans[q].ends + (IF q \in E THEN 1 ELSE 0)
             /\ spans'[q].taken <=> spans[q].taken
             /\ spans'[q].stored = spans[q].stored
             /\ spans'[q].lost <=> spans[q].lost
        /\ \A q \in Spans : spans'[q].status =
             IF q \in E /\ spans[q].status # "error" THEN status ELSE spans[q].status
    BY <1>a, <2>1, SpansClosed
  <2>6. Sound({}, E)
    <3>1. \A q \in Spans : spans'[q].status = "none" <=> spans[q].status = "none"
      BY <1>a, <2>4, <2>5 DEF Open
    <3> QED BY <1>a, <2>4, <2>5, <3>1 DEF Sound, SpanStep
  <2>7. \A k \in Keys : spans'[NodeSpan(k)].status = spans[NodeSpan(k)].status
    <3>1. \A k \in Keys : NodeSpan(k) \notin E /\ NodeSpan(k) \in Spans
      BY SpanNames
    <3> QED BY <2>5, <3>1
  <2>8. /\ nodes' \in [Keys -> NodeRecord]
        /\ nodes'[key] = new /\ \A k \in Keys : k # key => nodes'[k] = nodes[k]
    BY <1>a, <2>1, <2>3
  <2>9. \A k \in Keys : /\ nodes'[k].active <=> nodes[k].active
                        /\ nodes[k].failed => nodes'[k].failed
                        /\ nodes'[k].model = nodes[k].model
                        /\ \A p : p \in nodes'[k].tools <=> p \in nodes[k].tools /\ ~(k = key /\ p = ToolSpan(t))
    BY <2>3, <2>8
  <2>10. HeldOnce'
    <3>1. \A k \in Keys : ~nodes'[k].active => nodes'[k] = NoNode
      BY <1>a, <2>1, <2>8, <2>9 DEF HeldOnce
    <3>2. \A k \in Keys : \A p \in nodes'[k].tools : \E q \in Tools : p = ToolSpan(q)
      BY <1>a, <2>9 DEF HeldOnce
    <3>3. \A k \in Keys : \A j \in Keys \ {k} : \A p \in nodes'[k].tools : p \notin nodes'[j].tools
      BY <1>a, <2>9 DEF HeldOnce
    <3>4. \A k \in Keys : /\ nodes'[k].model = NoSpan \/ \E m \in Models : nodes'[k].model = ModelSpan(m)
                          /\ nodes'[k].model # NoSpan => nodes'[k].model # direct
                          /\ \A j \in Keys \ {k} : nodes'[k].model # NoSpan => nodes'[j].model # nodes'[k].model
      BY <1>a, <2>9 DEF HeldOnce
    <3> QED BY <1>a, <3>1, <3>2, <3>3, <3>4 DEF HeldOnce
  <2>11. \A m \in Models : HeldModel(m)' <=> HeldModel(m) /\ ModelSpan(m) \notin E
    <3>1. \A m \in Models : ModelSpan(m) \notin E
      BY SpanNames
    <3>2. \A m \in Models : HeldModel(m)' <=> HeldModel(m)
      BY <1>a, <2>9 DEF HeldModel
    <3> QED BY <3>1, <3>2
  <2>12. \A q \in Tools : HeldTool(q)' <=> HeldTool(q) /\ ToolSpan(q) \notin E
    <3>1. \A k \in Keys : k # key => ToolSpan(t) \notin nodes[k].tools
      BY <1>3, <1>a, <2>1 DEF HeldOnce
    <3> HIDE DEF less
    <3> QED BY <2>9, <3>1 DEF HeldTool
  <2>13. \A k \in target'.failed : k \in target.failed \/ (nodes[k].active /\ nodes'[k].failed)
    BY <1>1, <2>1, <2>3, <2>8
  <2>14. \A k \in Keys, q \in Tools : q # t /\ ToolSpan(q) \in nodes[k].tools => ToolSpan(q) \in nodes'[k].tools
    BY <2>9, SpanNames
  <2>15. \A p \in E : p = ToolSpan(t)
    OBVIOUS
  <2> HIDE DEF E
  <2> QED BY <1>a, <1>1, <1>2, <2>6, <2>7, <2>8, <2>9, <2>10, <2>11, <2>12, <2>13, <2>14, <2>15, CallKeeps
<1>4. CASE ~known
  <2>1. spans' = spans /\ nodes' = nodes
    BY <1>4, <1>d
  <2>2. Sound({}, {})
    BY <1>a, <2>1 DEF Sound, SpanStep, SpanRecord
  <2>3. HeldOnce'
    BY <1>a, <2>1 DEF HeldOnce
  <2>4. /\ \A q \in Models : HeldModel(q)' <=> HeldModel(q)
        /\ \A q \in Tools : HeldTool(q)' <=> HeldTool(q)
    BY <1>a, <2>1 DEF HeldModel, HeldTool
  <2>5. \A k \in target'.failed : k \in target.failed
    BY <1>1, <1>4, <1>c
  <2>6. direct # NoSpan => invoke = "running"
    BY <1>a
  <2> HIDE DEF known
  <2> QED BY <1>a, <1>1, <1>2, <2>1, <2>2, <2>3, <2>4, <2>5, <2>6, CallKeeps
<1> QED BY <1>3, <1>4

\* finish ends what is open, and nothing else.
LEMMA WhatIsOpen ==
  ASSUME IInv, invoke = "running", NEW p \in Spans
  PROVE Open(p) <=> p \in Ending
<1>a. TypeOK /\ OpenAreHeld /\ HeldOnce /\ Nested /\ p # NoSpan
  BY SpanNames DEF IInv
<1> DEFINE components == UNION {ComponentsOf(nodes[k]) : k \in Keys}
<1>0. \A k \in Keys : ComponentsOf(nodes[k]) \subseteq components
  OBVIOUS
<1>1. ASSUME Open(p)
      PROVE p \in OpenSpans \cup components \cup {Root, Agent}
  <2>2. ASSUME NEW r \in Runs \ {RootRun}, p = RunSpan(r) PROVE p \in OpenSpans
    BY <1>1, <2>2, <1>a DEF OpenSpans, OpenAreHeld
  <2>3. ASSUME NEW k \in Keys, p = NodeSpan(k) PROVE p \in OpenSpans
    BY <1>1, <2>3, <1>a DEF OpenSpans, OpenAreHeld
  <2>4. ASSUME NEW m \in Models, p = ModelSpan(m)
        PROVE p \in OpenSpans \cup components
    <3>1. direct = p \/ \E k \in Keys : nodes[k].model = p
      BY <1>1, <2>4, <1>a DEF OpenAreHeld
    <3>2. CASE direct = p
      BY <3>2, <1>a DEF OpenSpans
    <3>3. ASSUME NEW k \in Keys, nodes[k].model = p PROVE p \in ComponentsOf(nodes[k])
      BY <3>3, <1>a DEF ComponentsOf
    <3> QED BY <1>0, <3>1, <3>2, <3>3
  <2>5. ASSUME NEW t \in Tools, p = ToolSpan(t)
        PROVE p \in components
    <3>1. PICK k \in Keys : p \in nodes[k].tools
      BY <1>1, <2>5, <1>a DEF OpenAreHeld
    <3>2. p \in ComponentsOf(nodes[k])
      BY <3>1, <1>a DEF ComponentsOf
    <3> QED BY <1>0, <3>2
  <2> HIDE DEF components
  <2> QED BY <2>2, <2>3, <2>4, <2>5, SpanKinds
<1>2. p \in {Root, Agent} => Open(p)
  BY <1>a DEF OpenAreHeld
<1>3. ASSUME p \in components PROVE Open(p)
  BY <1>3, ComponentsAreOpen
<1>4. ASSUME p \in OpenSpans PROVE Open(p)
  <2>1. \/ \E k \in Keys : nodes[k].active /\ p = NodeSpan(k)
        \/ \E r \in Runs \ {RootRun} : p = runs[r]
        \/ p = direct
    BY <1>4 DEF OpenSpans
  <2>2. \A r \in Runs \ {RootRun} : p = runs[r] => p = RunSpan(r)
    BY <1>a DEF Nested
  <2>3. p = direct => \E m \in Models : p = ModelSpan(m)
    BY <1>a DEF HeldOnce
  <2>4. ASSUME NEW r \in Runs \ {RootRun}, p = runs[r] PROVE Open(p)
    BY <2>2, <2>4, <1>a DEF OpenAreHeld
  <2>5. ASSUME NEW k \in Keys, nodes[k].active, p = NodeSpan(k) PROVE Open(p)
    BY <2>5, <1>a DEF OpenAreHeld
  <2>6. p = direct => Open(p)
    BY <2>3, <1>a DEF OpenAreHeld
  <2> QED BY <2>1, <2>4, <2>5, <2>6
<1>5. p \in Ending <=> p \in OpenSpans \/ p \in components \/ p \in {Root, Agent}
  BY DEF Ending
<1> HIDE DEF components
<1> QED BY <1>1, <1>2, <1>3, <1>4, <1>5

\* When the Invoke returns nothing stays open.
LEMMA ReturnKeeps == ASSUME IInv, NEW failed \in BOOLEAN, Return(failed) PROVE IInv'
<1> DEFINE E == Ending
           which == IF failed THEN OpenSpans \cup {Root, Agent} ELSE {Root, Agent}
           status == IF failed THEN "error" ELSE "ok"
           mid == Marked(spans, which, status)
           Ended == {p \in Spans : Open(p)}
<1>a. /\ TypeOK /\ TargetOK /\ Fresh /\ OpenAreHeld /\ HeldOnce /\ Nested /\ FailuresNoted
      /\ exporter' = exporter /\ target' = target
      /\ invoke = "running" /\ invoke' \in {"returned", "failed"}
      /\ status \in {"ok", "error"}
      /\ spans \in [Spans -> SpanRecord] /\ \A q \in Spans : spans[q].ends \in Nat
      /\ \A c \in Calls : ~UnderWay(c)
      /\ target.run[RootRun] # "running"
      /\ runs' = [r \in Runs |-> NoSpan]
      /\ nodes' = [k \in Keys |-> NoNode]
      /\ direct' = NoSpan
  BY DEF IInv, Return, TypeOK, SpanRecord
<1>b. spans' = EndedSpans(mid, E)
  BY DEF Return
<1>1. \A p \in Spans : p \in E <=> Open(p)
  BY <1>a, WhatIsOpen
<1>2. \A p \in which : p \in E
  BY DEF Ending
<1>3. \A k \in Keys : NodeSpan(k) \in which => status = "error"
  BY SpanNames
<1> HIDE DEF E, which, status
<1>4. /\ mid \in [Spans -> SpanRecord]
      /\ \A q \in Spans :
           /\ mid[q].ends = spans[q].ends
           /\ mid[q].taken <=> spans[q].taken
           /\ mid[q].stored = spans[q].stored
           /\ mid[q].lost <=> spans[q].lost
      /\ \A q \in Spans : mid[q].status = IF q \in which /\ spans[q].status # "error" THEN status ELSE spans[q].status
  BY <1>a, MarkedSpans
<1> HIDE DEF mid
<1>5. /\ spans' \in [Spans -> SpanRecord]
      /\ \A q \in Spans :
           /\ spans'[q].ends = mid[q].ends + (IF q \in E THEN 1 ELSE 0)
           /\ spans'[q].taken <=> mid[q].taken
           /\ spans'[q].stored = mid[q].stored
           /\ spans'[q].lost <=> mid[q].lost
      /\ \A q \in Spans : spans'[q].status = mid[q].status
  BY <1>b, <1>4, SpansEnded
<1>6. Sound({}, Ended)
  <2>1. \A q \in Spans : spans'[q].status = "none" <=> spans[q].status = "none"
    BY <1>a, <1>1, <1>2, <1>4, <1>5 DEF Open
  <2>2. \A q \in Spans : spans'[q].ends = spans[q].ends + (IF q \in Ended THEN 1 ELSE 0)
    BY <1>a, <1>1, <1>4, <1>5
  <2> QED BY <2>1, <2>2, <1>4, <1>5 DEF Sound, SpanStep
<1>7. EndedOnce' /\ Stored' /\ Moved({}, Ended)
  <2> HIDE DEF Ended
  <2> QED BY <1>a, <1>6, SpanSteps
<1>8. \A p \in Spans : ~Open(p)'
  BY <1>7 DEF Moved
<1>9. \A p \in Spans : spans'[p].status = "none" <=> spans[p].status = "none"
  BY <1>7 DEF Moved
<1>10. \A k \in Keys : ~nodes'[k].active /\ nodes'[k].model = NoSpan /\ nodes'[k].tools = {} /\ nodes'[k] = NoNode
  BY <1>a DEF NoNode
<1>11. TypeOK'
  <2>1. NoNode \in NodeRecord
    BY DEF NoNode, NodeRecord
  <2> QED BY <1>a, <1>7, <2>1 DEF TypeOK, Moved, SpanRecord, NodeRecord
<1>12. TargetOK'
  BY <1>a DEF TargetOK
<1>13. Fresh'
  <2>1. \A p \in Spans : spans'[p].status = "none" =>
        spans'[p].ends = 0 /\ ~spans'[p].taken /\ spans'[p].stored = 0 /\ ~spans'[p].lost
    BY <1>7 DEF Moved
  <2> QED BY <2>1, <1>a, <1>9, SpanNames DEF Fresh
<1>14. OpenAreHeld'
  BY <1>a, <1>8, <1>10, SpanNames DEF OpenAreHeld
<1>15. HeldOnce'
  BY <1>a, <1>10 DEF HeldOnce
<1>16. Nested'
  <2>1. \A r \in Runs : target'.run[r] # "running"
    BY <1>a DEF Nested
  <2>2. \A n \in Nodes : ~target'.running[n]
    BY <1>a, <2>1, FornaxAssumption DEF Nested
  <2>3. \A c \in Calls : ~UnderWay(c)'
    BY <1>a DEF UnderWay
  <2>4. \A r \in Runs : runs'[r] = NoSpan
    BY <1>a
  <2>5. \A t \in Tools : t \in Calls
    BY DEF Calls
  <2> QED BY <1>a, <1>10, <2>1, <2>2, <2>3, <2>4, <2>5, FornaxAssumption DEF Nested
<1>17. FailuresNoted'
  <2>1. \A k \in target.failed : k \in Keys /\ NodeSpan(k) \in Spans /\ spans[NodeSpan(k)].status # "ok" /\ k[2] <= target.try[k[1]]
    BY <1>a, SpanNames DEF FailuresNoted, TargetOK
  <2>2. \A k \in target.failed : spans'[NodeSpan(k)].status # "ok"
    BY <2>1, <1>3, <1>4, <1>5
  <2> QED BY <1>a, <1>10, <2>1, <2>2 DEF FailuresNoted
<1> QED BY <1>7, <1>11, <1>12, <1>13, <1>14, <1>15, <1>16, <1>17 DEF IInv

\* The exporter does not start, mark or end spans.
LEMMA ExporterKeeps ==
  ASSUME IInv, UNCHANGED <<invoke, target, runs, nodes, direct>>,
         spans' \in [Spans -> SpanRecord],
         \A p \in Spans : spans'[p].status = spans[p].status /\ spans'[p].ends = spans[p].ends,
         \A p \in Spans : spans[p].status = "none" => spans'[p] = spans[p],
         exporter' \in [at : {"idle", "post", "refresh", "again"}, batch : SUBSET Spans, batches : 0..MaxBatches],
         Stored'
  PROVE IInv'
<1>a. TypeOK /\ TargetOK /\ Fresh /\ OpenAreHeld /\ HeldOnce /\ Nested /\ FailuresNoted /\ EndedOnce
  BY DEF IInv
<1>1. TypeOK'
  BY <1>a DEF TypeOK, SpanRecord
<1>2. TargetOK'
  BY <1>a DEF TargetOK
<1>3. Fresh'
  BY <1>a, SpanNames DEF Fresh
<1>4. OpenAreHeld'
  <2>1. \A p \in Spans : Open(p)' <=> Open(p)
    BY DEF Open
  <2> QED BY <1>a, <2>1, SpanNames DEF OpenAreHeld
<1>5. HeldOnce'
  BY <1>a DEF HeldOnce
<1>6. Nested'
  <2>1. \A k : Active(k)' <=> Active(k)
    BY DEF Active
  <2>2. \A c : UnderWay(c)' <=> UnderWay(c)
    BY DEF UnderWay
  <2>3. Callers' = Callers
    BY DEF Callers
  <2> QED BY <1>a, <2>1, <2>2, <2>3 DEF Nested, Active, UnderWay, Callers
<1>7. FailuresNoted'
  BY <1>a, SpanNames DEF FailuresNoted, TargetOK
<1>8. EndedOnce'
  BY <1>a DEF EndedOnce
<1> QED BY <1>1, <1>2, <1>3, <1>4, <1>5, <1>6, <1>7, <1>8 DEF IInv

\* A batch that is over is stored, or reported as lost.
LEMMA ExportedKeeps ==
  ASSUME IInv, NEW stored \in BOOLEAN, NEW lost \in BOOLEAN, stored \/ lost, Exported(stored, lost),
         UNCHANGED <<invoke, target, runs, nodes, direct>>
  PROVE IInv'
<1>a. /\ spans \in [Spans -> SpanRecord] /\ \A p \in Spans : spans[p].stored \in Nat
      /\ exporter.batches \in 0..MaxBatches
      /\ Fresh /\ Stored
  BY DEF IInv, TypeOK, SpanRecord
<1> DEFINE n == IF stored THEN 1 ELSE 0
<1>1. /\ spans' \in [Spans -> SpanRecord]
      /\ \A p \in Spans : p \notin exporter.batch => spans'[p] = spans[p]
      /\ \A p \in Spans : p \in exporter.batch =>
           /\ spans'[p].status = spans[p].status /\ spans'[p].ends = spans[p].ends
           /\ spans'[p].taken = spans[p].taken
           /\ spans'[p].stored = spans[p].stored + n /\ spans'[p].lost = lost
  <2>1. spans' = [p \in Spans |-> IF p \in exporter.batch
                                 THEN [spans[p] EXCEPT !.stored = spans[p].stored + n, !.lost = lost]
                                 ELSE spans[p]]
    BY DEF Exported
  <2>2. n \in Nat
    OBVIOUS
  <2> HIDE DEF n
  <2>3. ASSUME NEW s \in SpanRecord, NEW m \in Nat
        PROVE /\ [s EXCEPT !.stored = m, !.lost = lost] \in SpanRecord
              /\ [s EXCEPT !.stored = m, !.lost = lost].status = s.status
              /\ [s EXCEPT !.stored = m, !.lost = lost].ends = s.ends
              /\ [s EXCEPT !.stored = m, !.lost = lost].taken = s.taken
              /\ [s EXCEPT !.stored = m, !.lost = lost].stored = m
              /\ [s EXCEPT !.stored = m, !.lost = lost].lost = lost
    BY DEF SpanRecord
  <2> DEFINE row(p) == [spans[p] EXCEPT !.stored = spans[p].stored + n, !.lost = lost]
  <2>4. ASSUME NEW p \in Spans
        PROVE /\ row(p) \in SpanRecord
              /\ row(p).status = spans[p].status /\ row(p).ends = spans[p].ends
              /\ row(p).taken = spans[p].taken
              /\ row(p).stored = spans[p].stored + n /\ row(p).lost = lost
    <3>1. spans[p] \in SpanRecord /\ spans[p].stored + n \in Nat
      BY <1>a, <2>2
    <3> QED BY <2>3, <3>1
  <2>5. spans' = [p \in Spans |-> IF p \in exporter.batch THEN row(p) ELSE spans[p]]
    BY <2>1
  <2> HIDE DEF row
  <2> QED BY <1>a, <2>4, <2>5
<1>2. exporter' = Idle(exporter.batches)
  BY DEF Exported
<1>3. /\ exporter'.batch = {}
      /\ exporter' \in [at : {"idle", "post", "refresh", "again"}, batch : SUBSET Spans, batches : 0..MaxBatches]
  BY <1>a, <1>2 DEF Idle
<1>4. \A p \in Spans : spans[p].status = "none" => spans'[p] = spans[p]
  BY <1>a, <1>1 DEF Fresh, Stored
<1>5. Stored'
  <2>1. \A p \in Spans : p \in exporter.batch => spans[p].taken /\ spans[p].stored = 0
    BY <1>a DEF Stored
  <2>2. \A p \in Spans : p \in exporter.batch =>
          spans'[p].taken /\ spans'[p].stored <= 1 /\ (spans'[p].stored = 1 \/ spans'[p].lost)
    BY <1>1, <2>1
  <2> QED BY <1>a, <1>1, <1>3, <2>2 DEF Stored
<1> QED BY <1>1, <1>3, <1>4, <1>5, ExporterKeeps

\* An upload that goes on with another token.
LEMMA ExportMovesKeeps ==
  ASSUME IInv, NEW at \in {"refresh", "again"}, ExportMoves(at),
         UNCHANGED <<invoke, target, spans, runs, nodes, direct>>
  PROVE IInv'
<1>1. exporter' = [exporter EXCEPT !.at = at]
  BY DEF ExportMoves
<1>2. /\ exporter' \in [at : {"idle", "post", "refresh", "again"}, batch : SUBSET Spans, batches : 0..MaxBatches]
      /\ exporter'.batch = exporter.batch /\ exporter'.at # "idle"
  BY <1>1 DEF IInv, TypeOK
<1>3. Stored'
  BY <1>2 DEF IInv, Stored
<1>4. spans' \in [Spans -> SpanRecord]
  BY DEF IInv, TypeOK, SpanRecord
<1> QED BY <1>2, <1>3, <1>4, ExporterKeeps

\* What ended is handed over once.
LEMMA TakeBatchKeeps == ASSUME IInv, TakeBatch PROVE IInv'
<1> DEFINE batch == {p \in Spans : spans[p].ends > 0 /\ ~spans[p].taken}
           n == IF Returned THEN exporter.batches ELSE exporter.batches + 1
<1>a. /\ spans \in [Spans -> SpanRecord]
      /\ exporter.batches \in 0..MaxBatches /\ MaxBatches \in Nat
      /\ exporter.batch = {}
      /\ exporter.batches < MaxBatches \/ Returned
      /\ UNCHANGED <<invoke, target, runs, nodes, direct>>
      /\ Fresh /\ Stored
  BY FornaxAssumption DEF IInv, TypeOK, SpanRecord, TakeBatch, Stored, sinkVars
<1>1. /\ spans' = [p \in Spans |-> IF p \in batch THEN [spans[p] EXCEPT !.taken = TRUE] ELSE spans[p]]
      /\ exporter' = [at |-> "post", batch |-> batch, batches |-> n]
  BY DEF TakeBatch
<1>2. n \in 0..MaxBatches
  BY <1>a
<1>3. /\ batch \in SUBSET Spans
      /\ \A p \in Spans : spans[p].status = "none" => p \notin batch
      /\ \A p \in batch : ~spans[p].taken /\ spans[p].stored = 0
      /\ \A p \in Spans : spans[p].taken => p \notin batch
  BY <1>a DEF Fresh, Stored
<1> HIDE DEF batch, n
<1>4. /\ spans' \in [Spans -> SpanRecord]
      /\ \A p \in Spans : p \notin batch => spans'[p] = spans[p]
      /\ \A p \in Spans : p \in batch =>
           /\ spans'[p].status = spans[p].status /\ spans'[p].ends = spans[p].ends
           /\ spans'[p].taken
           /\ spans'[p].stored = spans[p].stored /\ spans'[p].lost = spans[p].lost
  BY <1>a, <1>1 DEF SpanRecord
<1>5. /\ exporter'.batch = batch /\ exporter'.at # "idle"
      /\ exporter' \in [at : {"idle", "post", "refresh", "again"}, batch : SUBSET Spans, batches : 0..MaxBatches]
  BY <1>1, <1>2, <1>3
<1>6. Stored'
  <2>1. \A p \in Spans : ~spans'[p].taken => ~spans[p].taken /\ p \notin batch
    BY <1>4
  <2>2. \A p \in Spans : p \notin batch /\ spans[p].taken => spans[p].stored = 1 \/ spans[p].lost
    BY <1>a DEF Stored
  <2> QED BY <1>a, <1>3, <1>4, <1>5, <2>1, <2>2 DEF Stored
<1> QED BY <1>a, <1>3, <1>4, <1>5, <1>6, ExporterKeeps

\* Every step keeps the invariant.
LEMMA NextIInv == IInv /\ [Next]_vars => IInv'
<1> SUFFICES ASSUME IInv, [Next]_vars PROVE IInv'
  OBVIOUS
<1>1. CASE StartTrace
  BY <1>1, StartTraceKeeps
<1>2. ASSUME NEW r \in Runs, StartRun(r) \/ \E completed \in BOOLEAN : FinishRun(r, completed)
      PROVE IInv'
  BY <1>2, StartRunKeeps, FinishRunKeeps
<1>3. ASSUME NEW n \in Nodes, StartNode(n) \/ \E completed \in BOOLEAN : FinishNode(n, completed)
      PROVE IInv'
  BY <1>3, StartNodeKeeps, FinishNodeKeeps
<1>4. ASSUME NEW m \in Models, \/ \E key \in Callers : ModelStarts(m, key)
                               \/ \E failed \in BOOLEAN : ModelFinishes(m, failed)
      PROVE IInv'
  BY <1>4, ModelStartsKeeps, ModelFinishesKeeps
<1>5. ASSUME NEW t \in Tools, \/ \E key \in Callers : ToolStarts(t, key)
                              \/ \E failed \in BOOLEAN : ToolFinishes(t, failed)
      PROVE IInv'
  BY <1>5, ToolStartsKeeps, ToolFinishesKeeps
<1>6. ASSUME NEW c \in Calls, CallDropped(c) PROVE IInv'
  BY <1>6, CallDroppedKeeps
<1>7. ASSUME NEW failed \in BOOLEAN, Return(failed) PROVE IInv'
  BY <1>7, ReturnKeeps
<1>8. CASE TakeBatch
  BY <1>8, TakeBatchKeeps
<1>9. CASE Post \/ Refresh \/ PostAgain
  <2>1. UNCHANGED <<invoke, target, runs, nodes, direct>>
    BY <1>9 DEF Post, Refresh, PostAgain, sinkVars
  <2>2. \/ \E stored, lost \in BOOLEAN : (stored \/ lost) /\ Exported(stored, lost)
        \/ \E at \in {"refresh", "again"} : ExportMoves(at) /\ spans' = spans
    BY <1>9 DEF Post, Refresh, PostAgain
  <2> QED BY <2>1, <2>2, ExportedKeeps, ExportMovesKeeps
<1>10. CASE UNCHANGED vars
  <2>1. UNCHANGED <<invoke, target, spans, runs, nodes, direct, exporter>>
    BY <1>10 DEF vars, sinkVars
  <2>2. Stored'
    BY <2>1, SpansStay
  <2>3. spans' \in [Spans -> SpanRecord] /\ exporter' \in [at : {"idle", "post", "refresh", "again"}, batch : SUBSET Spans, batches : 0..MaxBatches]
    BY <2>1 DEF IInv, TypeOK, SpanRecord
  <2> QED BY <2>1, <2>2, <2>3, ExporterKeeps
<1> QED BY <1>1, <1>2, <1>3, <1>4, <1>5, <1>6, <1>7, <1>8, <1>9, <1>10 DEF Next

-----------------------------------------------------------------------------

\* Types, for every workflow that is traced.
THEOREM TypeCorrect == Spec => []TypeOK
<1>1. IInv => TypeOK
  BY DEF IInv
<1> QED BY <1>1, InitIInv, NextIInv, PTL DEF Spec

\* Every span that was started is ended exactly once, at the latest when the
\* Invoke returns, whatever the target left behind (eventSink.finish).
THEOREM SpansEndOnce == Spec => []EverySpanEndsOnce
<1>1. IInv => EverySpanEndsOnce
  <2> SUFFICES ASSUME IInv PROVE EverySpanEndsOnce
    OBVIOUS
  <2>1. \A p \in Spans : spans[p].ends \in Nat /\ spans[p].ends <= 1
    BY DEF IInv, TypeOK, EndedOnce
  <2>2. ASSUME Returned, NEW p \in Spans PROVE ~Open(p)
    <3>1. invoke # "running" /\ invoke # "new"
      BY <2>2 DEF Returned
    <3>2. OpenAreHeld /\ HeldOnce /\ Nested
      BY DEF IInv
    <3>3. \A k \in Keys : ~nodes[k].active /\ nodes[k].model = NoSpan /\ nodes[k].tools = {}
      BY <3>1, <3>2 DEF Nested, HeldOnce, NoNode
    <3>4. direct = NoSpan
      BY <3>1, <3>2 DEF Nested
    <3>5. \A r \in Runs \ {RootRun} : runs[r] = NoSpan
      BY <3>1, <3>2 DEF Nested
    <3> QED BY <3>1, <3>2, <3>3, <3>4, <3>5, SpanKinds, SpanNames DEF OpenAreHeld
  <2> QED BY <2>1, <2>2 DEF EverySpanEndsOnce, Open, IInv
<1> QED BY <1>1, InitIInv, NextIInv, PTL DEF Spec

\* A failure of a call that ends while its node is active is on the node's span,
\* in whatever order the events come (nodeSpanState.failed).
THEOREM FailuresAreSeen == Spec => []FailuresReachTheirNode
<1>1. IInv => FailuresReachTheirNode
  BY DEF IInv, FailuresNoted, FailuresReachTheirNode
<1> QED BY <1>1, InitIInv, NextIInv, PTL DEF Spec

\* An ended span is uploaded once, or an error is returned for it (ExportSpans).
THEOREM UploadsAreAccounted == Spec => []StoredOnceOrReported
<1>1. IInv => StoredOnceOrReported
  BY DEF IInv, Stored, StoredOnceOrReported
<1> QED BY <1>1, InitIInv, NextIInv, PTL DEF Spec

=============================================================================
