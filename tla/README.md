# A verification development for gopact-ext

gopact-ext extends the gopact agent and workflow runtime with durable Stores,
agents, model clients and a tracing middleware. This directory holds TLA+ models
of its code, TLC configurations that check them on small instances, and TLAPS
proofs of what matters most for every instance.

It covers the relational Store and its upgrade, the agents, the ACP client, the
Codex credentials and model client, and the Fornax tracing. The proofs are about
the Store, which decides who may write to a run, what a log record may follow, and
what may be deleted; the agents; the turns of ACP; the Codex credentials,
calls and response stream; and the spans of Fornax.

## 1. The system

Line numbers are those of the repository's commit; `PROJECT.json` maps every
definition to its lines.

### 1.1 Components

| Component | State it keeps | Operations | Correct when |
|---|---|---|---|
| `stores/dbstore`: checkpoints, leases, RunLog (`operations.go`, `registry.go`, `clock.go`) | tables: checkpoints, runs (heads), RunLog, RunLog retention, run registry; the database clock | Create, Claim, RenewLease, Save, Finish, Append, AppendFenced, List, Load | one owner per claim; granted leases are kept; a superseded owner writes nothing; the head is the newest checkpoint; a cursor skips nothing silently |
| `stores/dbstore`: retention (`retention.go`) | the same tables; per call a selection and a budget | PurgeTerminalRuns, PurgeRunLog, PurgeConfirmedRunLog | a run that can still be resumed loses nothing it needs; a retired RunID never comes back; budgets are kept; ended runs are drained |
| `stores/dbstore`: open and migrations (`dbstore.go`, `migrations.go`) | migration marker rows, migration lock, schema | Open, Migrate, repair | a crash anywhere in a migration is repaired by the next one; two migrators do not overlap; version 2 is recorded only over complete metadata |
| `stores/sqlite`, `mysql`, `mariadb`, `postgres` | a connection pool | Open, Migrate, Close | no writer is lost in the conversion of a WAL database |
| `agents/react` | workflow state: messages, turn, tool calls left, pending observations | prepare, model, tools, observe | limits hold over interrupts and resumes; every tool call is answered once, in order |
| `agents/planexec`, `supervisor`, `loop` | plan and transitions; round; iteration | plan, execute, replan; decide, delegate; body, condition | the limit ends the run; a result belongs to the step that asked for it |
| `agents/sequential`, `parallel`, `router`, `agenttool` | state of a small workflow graph | run the children and merge | one output, branch order independent of completion order |
| `agents/acp` | map of session to turn, under a mutex | Invoke, Update | an update reaches the turn it was sent for or is refused; one turn a session |
| `models/openai/codexauth` | token store (file), mutex; device code | Token, Refresh, device login | a rotated refresh token is not lost and not used twice |
| `models/openai/codex` | per call: attempt, refreshed, stream result | openStream, consumeStream | one refresh a call; a call ends by a completed response or an error |
| `models/openai`, `glm`, `agnes`, `fake` | per call: attempt, stream | requests, streams | bounded retries with the same body |
| `middleware/byted/fornax` | maps of open run, node, model and tool spans; upload batch, authorization | Emit, ModelMiddleware, ToolMiddleware, ExportSpans | a span ends once; a batch goes up under one space |
| `agents/internal/contract`, `internal/carveout`, `scripts` | none that lasts | option checks, release guards | not part of the running system |

### 1.2 How they interact

The gopact workflow runtime (a library outside this repository) calls the Store.
One worker process owns a run under a *claim*: it renews its lease, saves a
checkpoint after each step and appends RunLog records fenced by the lease. If it
dies, another worker claims the run when the lease has passed. The processes
share nothing but the database, and the service calls retention on its own
schedule beside them. Agents are workflows the runtime executes; their limits
live in workflow state and so in checkpoints. Agents call models; models call
remote services; the tracing middleware observes events and calls.

### 1.3 What is hard

In the Store: zombie workers whose calls arrive after their lease was taken; a
lease checked against one clock and granted by another; retention that selects in
one statement and deletes in another transaction while workers append; calls that
end half way; budgets spent over several transactions; repeated appends after an
unknown outcome; an upgrade beside old binaries, connected stores and another
upgrade, any step of which may fail. In the agents: fan-outs whose results settle
in any order and are lost or repeated by a crash, interrupts that last for days,
limits and records that must agree over both. In the clients: a refresh token that
is void once it is rotated, streams that repeat themselves or break off, histories
that a stateless backend must accept, notifications that come late, spans whose
end comes in another order than their start. `PROJECT.json` lists each at its line
under "hazards".

## 2. The modules

| Module | What it is |
|---|---|
| `DBStore` | the Store: tables, clock, one action per transaction, properties, inductive invariant |
| `PurgeCalls` | extends DBStore: the retention calls made of several transactions, by several processes, cut short anywhere |
| `DurableRun` | the abstract specification: the life of a RunID, its token, its log |
| `StoreAsRuns` | the refinement mapping from DBStore to DurableRun |
| `DBStoreProofs` | theorems about DBStore: the inductive invariants; claims, fences, heads and leases; log, retention rows, floors and cursors; what one step can do to the life of a run, and that DBStore implements DurableRun; about PurgeCalls: its steps are DBStore's, budgets are hard, PurgeRunLog deletes only what it selected |
| `Migration` | open and migrate: deployers, instances, old binaries, connected stores, failures |
| `React` | the model-tool loop, with fan-outs, crashes and interrupts |
| `Conversation` | the abstract specification of a transcript, which React implements |
| `Recursion` | lemmas on induction, recursion and folds over sets, functions and sequences |
| `ReactProofs` | theorems about React: transcript, limits, barriers, and that it implements Conversation |
| `PlanExec`, `Supervisor`, `LoopAgent` | the three agents that judge their own work |
| `Composition` | sequential, parallel, router and the agent as a tool |
| `AgentRuns` | one run of any of these four modules; their properties and the refinement |
| `JudgedWork` | the abstract specification of bounded, judged work |
| `AgentRunsProofs` | theorems about AgentRuns: records, answers, settled children, and that the three agents that judge implement JudgedWork |
| `ACPTurns` | concurrent Invokes over one ACP connection |
| `ACPTurnsProofs` | theorems about ACPTurns: answers are what was sent, prompts carry the artifacts, sessions are released |
| `TokenSource` | device login, the Source and the issuer |
| `CodexCalls` | extends TokenSource: concurrent model calls, attempts, a crash |
| `CodexCallsProofs` | theorems about CodexCalls and TokenSource: the Store is never behind, calls are bounded, what is lost |
| `CodexStream` | the consumer of one response stream |
| `CodexTurns` | extends CodexStream: what the caller keeps of the answer, and the next request |
| `CodexTurnsProofs` | theorems about CodexStream within CodexTurns: what is gathered while the stream is read, answers are complete, arguments are seen once |
| `FornaxTrace` | the spans of one traced Invoke, and their upload |
| `FornaxTraceProofs` | theorems about FornaxTrace: spans end once, failures are seen, uploads are accounted for |
| `MC*` | constants of the TLC instances |

### 2.1 DBStore and the code

An action is one committed transaction. Every transaction first locks the
registry row or the head row of its run (`lockRunRegistry`, `lockRunHead`), so two
transactions on one run do not interleave; a call that is refused, fails or loses
its process before the commit leaves the tables alone, which is a stuttering step.
The one statement sequence that is not a transaction of its own, the retention
calls, is split in `PurgeCalls`.

| Variable | Table or code |
|---|---|
| `registry` | `runRegistryRow`; kind "none" codes a missing row. `updated` orders the purge queue and is kept for purging rows only |
| `heads` | `runRow`; version 0 codes a missing row |
| `checkpoints` | `checkpointRow`, with the record's fields that some decision reads |
| `events`, `retention` | `runLogRow`, `runLogRetentionRow` |
| `nextOrdinal` | the auto-increment ordinal |
| `clock` | `databaseNow` |

`events` carry the claim they were inserted under, which the code does not store;
no guard reads it, the properties about the fence do.

There is no worker variable. What a worker brings to a call is a checkpoint record
it read or wrote earlier, so `Claim` and `Write` take any row the run ever had
(`base`), any owner, any claim and any identity. Every stale, repeated, late or
mistaken call is among these. `Create`, `Claim`, `RenewLease`, `Write` (Save and
Finish share `write`), `AppendPlain` (Append), `AppendFenced`,
`EnrollTerminalRun`, `DeletePurgingHistory`, `PurgeJournalEvents` and
`PurgeConfirmedRunLog` are the actions; `ListRefused` and `ListRows` model List.

Abstractions:

- payloads, identities and owners are members of small sets; `identity` stands for
  the fields `sameCheckpointIdentity` compares; `completed` stands for the four
  terminal statuses, which the code treats alike;
- the size of a record is a function of its payload, of a checkpoint a constant;
- argument checks that only reject malformed calls (empty RunID, negative limits,
  4 MiB caps) are left out: a rejected call is a stuttering step;
- `List` is modelled for one RunID; the query over all runs is not;
- the hosts' clocks appear in the `stamp` a record carries (UpdatedAt) and in the
  expiry of a lease request without a duration; both are arbitrary.

Assumptions about callers (external to the repository): a worker confirms a
sequence only when every record up to it was accepted, and never confirms less than
its copy did (`Acknowledged`); `Create` is called with claim 1 for an owner and 0
without one, as `validateCheckpoint` demands.

### 2.2 PurgeCalls and the code

`purge[p]` and `sweep[p]` are the local variables of a running PurgeTerminalRuns or
PurgeRunLog call. What it selects is `PurgingRuns`, `TerminalRuns` and `SelectedRows`, in the
order of the select (`Sorted`). BeginPurge, SelectTerminal, InspectCandidate, RetireCandidate,
SelectPending, DeleteHistory and EndPurge are the statements and transactions of
the first in order; BeginSweep, SweepRun and EndSweep those of the second. Anything
may happen between two of them. AbortPurge and AbortSweep end a call anywhere: an
error, a cancelled context, the end of the process.

### 2.3 DurableRun

What the Store promises about a RunID, with no tables, versions, leases or clocks:
it is absent, a journal, open, ended, retired or gone; it is used once as a
workflow; its token only goes up, and only the current token appends fenced
records; the log grows at its end and is trimmed by retention. `StoreAsRuns` reads
phase, token and log off the tables; TLC checks `Spec => RunSpec` under this mapping and
`DBStoreProofs` proves it.

### 2.4 Migration

One step is one DDL statement, one transaction or one select, and the process that
takes it may fail instead or be the last step of its process (`Fail`). `row[r]` holds
of each run whether its rows exist and agree; `tables`, `versions`, `triggers` and
`wal` are the schema. `proc[p].todo` is what is left of the Migrate or Connect call of a
process, in the order of `initializeWithRepair` (`dbstore.go:837`); a batch that a
backfill selected (`SelectBatch`) and its write are two steps, between which others
write. The first database is empty, unversioned, v1, v2 or of a later version, with rows
that break the contract on identities or not, in WAL mode or not, on SQLite or on a
server with an advisory lock. Old binaries write as the compatibility triggers let
them; connected stores write what DBStore's transactions leave of a run's rows
(`NewCreate` to `NewSweep`).

External: operators stop old binaries some time (`StopOld`). A deployment that began while
they still wrote runs alone: a bound, in the guard of `Begin`, on what happens outside
the maintenance window `stores/dbstore/README.md:5` asks for. Deployers that began
later may overlap. `late` is a ghost: runs that an old
binary wrote and no Migrate started after `StopOld` and alone has reconciled. Several
tables of one AutoMigrate are one step, whose failure leaves any subset of them. The
columns, indexes and collations that `verifySchema` compares, and the compaction floor
of a head, are not modelled.

### 2.5 The agents

The workflow runtime is a library outside this repository. From its use: a node
commits its output and the State it set in one checkpoint or, after a crash, neither;
a crash loses any results of a fan-out that no checkpoint holds; an interrupt suspends
the run until a caller resumes it.

| Module | Code | State |
|---|---|---|
| `React` | `agents/react/react.go` | `state` is State; `at` the next node; `batch`, `branch` the fan-out of tool calls |
| `PlanExec` | `agents/planexec/planexec.go` | `state` is State, `given` the input of the next node, `child` the agent of a step |
| `Supervisor` | `agents/supervisor/supervisor.go` | `state`, `decision`; `asked` remembers the decisions for the properties |
| `LoopAgent` | `agents/loop/loop.go` | `state`, `request`, `response`; `judged` remembers what the condition saw |
| `Composition` | `sequential.go`, `parallel.go`, `router.go`, `agenttool.go` | `stage`, `branch`, `given`, `answer` |

What a model, planner, decider, condition or child returns is any of a set of
responses, among them one for each check that refuses it. A value of Composition is
the list of the children that worked on it, so an answer tells where it comes from.

`Conversation` promises that a transcript grows by whole turns within the limits and
that nothing is taken back. `JudgedWork` promises units of work within an allowance,
one judgement after each, and an answer only after a judgement that saw the last
unit. `AgentRuns` maps steps, delegations and iterations to units and replans,
decisions and conditions to judgements.

### 2.6 ACPTurns

`invoke[c]` is where an Invoke is, `turns` is Agent.turns, `turn[c]` the object a turn's
updates are added to; `reader` is the connection's goroutine between the lookup of a
turn under the mutex and the add (`acp.go:198`). External: the remote's messages arrive
in its order and are handled one after the other; it gives a session out again when it
has answered the prompt of it, so late updates and new turns meet. Close only closes
the connection and is left out. `sent[c]` and the number `n` of an update are history:
what the remote sent for the prompt of `c`, and which of it a message is; no guard reads
them.

### 2.7 Codex: TokenSource and CodexCalls, CodexStream and CodexTurns

`TokenSource`: tokens are generations 1, 2, ...; the issuer voids a refresh token when
it rotates it, may handle a request after its sender gave up (`wire`), and may leave
out of an answer what did not change. A Save that fails may have replaced the tokens
or not. `CodexCalls` adds openStream: attempts, the one forced refresh of a call,
backoff, and the end of the process. Two processes that share one Store are not
modelled: the mutex does not reach the other, and nothing in the code says that it is
allowed.

`CodexStream` is one response. The backend is external: it sends one item after
the other, the text of all messages in deltas or of none, and call ids are
unique. A piece of text is named by its item and place, so a lost, repeated or
displaced one shows. `CodexTurns` is what follows an answer of Invoke: the caller (external) keeps
it whole, without its response items, without or with edited calls, or in a
user message; then it adds outputs of any calls, questions or instructions, and
`NewResponsesRequest` encodes the conversation as `encodeMessages` does. Item
identifiers and terminal status that `canonicalResponseState` removes, tools,
schemas and the validation of sizes are left out.

### 2.8 FornaxTrace

`runs`, `nodes` and `direct` are the maps of eventSink, `spans` what became of each
span, `exporter` the upload under way. The target is external: runs nest, a node is
tried again, calls outlive their node and their events come late or never; it returns
when its calls did. In one attempt of a node model calls follow each other and tool
calls have different keys: with one key for two concurrent calls, `toolEventKey` has the
second replace the first (a listed hazard without a property). The batching processor
of the tracing library exports one batch at a time and drops it when that fails.

## 3. The runs

Twelve runs, one for each question. `CHECK_DEADLOCK FALSE` everywhere: runs and calls end, and the
bounds on versions, ordinals and the clock make the models stop, not the
program. The slowest takes about two minutes with two workers.

| Run | Instance | Question and answer |
|---|---|---|
| `fencing` | 1 run, 2 workers, 2 identities, TTLs 1 and 2 and an explicit expiry 3, clock 0..3, 3 versions, 2 records | Is a granted lease kept by the database clock under renewals, Saves, releases, claims and explicit expiries (`LeaseIsAPromise`)? One owner and identity per claim (`OneOwnerPerClaim`), a lost lease lost (`LeaseLossIsFinal`), fenced records in claim order (`FencedInClaimOrder`)? Yes |
| `retention` | 1 run, 1 worker, 3 versions, 2 sequences, 3 ordinals, 2 payload sizes, clock 0..2 | Does retention beside a worker keep `HeadMirrorsHistory`, `ListHasNoSilentGap`, `CompactedStaysCompacted`, `MetadataIsComplete`, `EndedRunsOnlyShrink`, `LiveHistoryIsKept`, and does DBStore implement DurableRun (`ImplementsDurableRun`)? Yes |
| `purge` | 2 runs, 2 purgers, RunLimit 1, budgets of 2 rows and 2 bytes, 1 abort, fair | Are the budgets of a whole call kept (`BudgetIsHard`), and is every ended run drained to its tombstone (`EveryEndedRunIsPurged`)? Yes, when every row fits the budget |
| `sweep` | 2 runs, 2 sweepers, 3 ordinals, clock 0..1, 1 abort | Does PurgeRunLog delete selected records only (`SweepDeletesOnlySelected`), and is every step of it a step of DBStore (`Spec`)? Yes |
| `oversized` | as purge, one purger, byte limit 1 and a record of 2 bytes | Is a row larger than the budget deleted alone, as two READMEs say? No: a finding |
| `migration` | 2 runs of a workflow and a journal, 2 deployers, 1 instance, batches of 2, 1 failure, 2 writes, every first database | Is version 2 recorded over complete metadata only (`UpgradeIsComplete`), and does an instance connect in the end (`UpgradeEnds`)? Yes, but for runs old binaries wrote behind a migration, until one that runs after they stopped |
| `react` | 3 turns, 4 calls, 2 at once, direct, invokable and unknown tools, 1 crash, 1 interrupt | `TranscriptIsWhole`, `WithinLimits`, `InvokableIsBarrier`, `RunEnds`, `ImplementsConversation`? Yes |
| `agents` | limits of 3, plans of 1 and 2 steps, 3 children of which 2 run at once, a sequence that calls one of them twice, 2 crashes, 2 interrupts | `RecordsAreWhatWasDone`, `AnswerFollowsShape`, `SettledIsNotRepeated`, `RunEnds`, `ImplementsJudgedWork`, whichever agent it is? Yes |
| `acp` | 2 Invokes, 2 sessions, 2 updates a prompt, 3 requests | `AnswerIsWhatWasSent`, `TurnsAreReleased`, `ArtifactsReachTheRemote`? Yes |
| `codexcalls` | 2 calls, 2 generations of tokens, 2 attempts, 1 crash | Is a rotated token never lost by the process itself (`RefusedOnlyWhenLost`, `StoreKeepsTheNewest`), a call bounded (`CallsStayInBounds`), and does everything end (`EverythingEnds`)? Yes |
| `codexstream` | 3 items of up to 2 pieces, 3 pieces fit, 2 messages after the answer | Is an answer the complete response (`AnswerIsTheResponse`), are arguments seen once (`ArgumentsAreSeenOnce`), and is exactly a coherent conversation sent on, with what the backend sent (`NextRequestContinues`)? Yes |
| `fornax` | a run nested in the root run, 1 node tried twice, 2 model calls, 1 tool call, 1 batch before Close | `EverySpanEndsOnce`, `FailuresReachTheirNode`, `StoredOnceOrReported`? Yes |

Why these bounds are enough to be interesting. Store: two workers and three versions hold
the stories of a lost lease: create, claim by the other, a write of the
first. Clock 0..3 with TTLs 1 and 2 has leases
before, at and after expiry, and a renewal past a Save. Two payload sizes against
byte budgets of 2 give budgets that are met exactly, left over and exceeded. Two
runs with RunLimit 1 make one run wait for another. Three ordinals let a journal
be forgotten and opened again while a sweep is under way. What is asked of one run
is asked with one run: no transaction except the selections of retention reads
another run's rows. Migration: batches of two over two runs are full, so that a last, empty one follows;
two deployers let a step of one fall between the select and the write of the
other. Agents: three children are one that settled, one that runs and one that waits
for its turn; two crashes and interrupts hit the resumed run again; limits of three
leave room for a refusal before they are met. Codex: two generations are a rotation
and one more that would void it; two attempts are a refresh and a retry in either
order; three items are a text between two others, which is what placing the text is
about, and two calls of one answer have outputs in either order, one of them missing,
repeated, or behind another message. ACP: one of two sessions is given out again while
the late updates of its first turn are still on their way.

Symmetry is used for workers, identities, sweepers, callers and sessions, models and
tools, in runs without liveness properties only; no definition chooses one of them
by `CHOOSE`.

Fairness, where liveness is asked:

- `FairCallsSpec` (purge): a purger that has begun a call takes its next step,
  since it waits only for row locks and transactions release those; and the service
  keeps calling PurgeTerminalRuns, which the sqlite README asks of it ("repeat until
  it reaches zero"). Workers, the clock, aborts and sweepers have no fairness.
- React and AgentRuns: a ready node runs and a running call or child returns, which
  the runtime gives; a caller resumes what waits for it, without which an
  interrupted run rightly waits. Nothing is assumed of what models and judges say.
- CodexCalls: the steps of the process; timeouts (`WithRequestTimeout`, `WithTimeout`) end a
  request; the device code expires. Nothing of the issuer, the backend and the user.
- Migration: a process goes on with its call, a failed one is started again, and old
  binaries are stopped. The premise of `UpgradeEnds` leaves out databases the code
  refuses, those of a later version and those with unreadable rows.

Every property has a mutant, a plausible bug in one mapped definition under which
TLC finds that property violated.

### The finding

`stores/dbstore/README.md:13` and `stores/sqlite/README.md:70` say that a single row
larger than the byte budget is deleted alone so that cleanup advances.
`deletionIDsWithinBudget` breaks at such a row (`retention.go:427`), and
`enrollTerminalRuns` stops at a run whose first row does not fit
(`retention.go:144`), which keeps the runs behind it from being retired too. The
comment at `retention.go:28`, "a hard upper bound", agrees with the code. Raising the
limit of the call gets past the row.

## 4. What is proved

For every value of the constants: any number of runs, workers, callers, tools, records,
turns and steps.

| Module | Theorem | Statement |
|---|---|---|
| `DBStoreProofs` | `StoreInvariant` | `Spec => []StoreInv` |
| | `Typed` | `Spec => []TypeOK` |
| | `ClaimsAreOwned` | `Spec => []OneOwnerPerClaim` |
| | `AppendsAreFenced` | `Spec => []FencedInClaimOrder` |
| | `HeadsMirrorHistory` | `Spec => []HeadMirrorsHistory` |
| | `LeasesArePromises` | `Spec => []LeaseIsAPromise` |
| | `LostLeasesStayLost` | `Spec => LeaseLossIsFinal` |
| | `RetentionInvariant` | `Spec => []RetentionInv` |
| | `MetadataStaysComplete` | `Spec => []MetadataIsComplete` |
| | `CompactionIsFinal` | `Spec => []CompactedStaysCompacted` |
| | `ListsAreGapless` | `Spec => []ListHasNoSilentGap` |
| | `EndedRunsStayEnded` | `Spec => EndedRunsOnlyShrink` |
| | `LiveRunsKeepHistory` | `Spec => LiveHistoryIsKept` |
| | `StoreImplementsDurableRun` | `Spec => ImplementsDurableRun` |
| | `AccountsHold` | `CallsSpec => []CallsInv` |
| | `CallsImplementStore` | `CallsSpec => Spec` |
| | `BudgetsAreHard` | `CallsSpec => []BudgetIsHard` |
| | `OnlySelectedRowsGo` | `CallsSpec => SweepDeletesOnlySelected` |
| `ReactProofs` | `TypeCorrect` | `Spec => []TypeOK` |
| | `LimitsHold` | `Spec => []WithinLimits` |
| | `TranscriptsAreWhole` | `Spec => []TranscriptIsWhole` |
| | `BarrierHolds` | `Spec => InvokableIsBarrier` |
| | `RunIsConversation` | `Spec => ImplementsConversation` |
| `AgentRunsProofs` | `AgentInvHolds` | `AgentSpec => []AgentInv` |
| | `WhatWasDoneIsRecorded` | `AgentSpec => []RecordsAreWhatWasDone` |
| | `AnswersFollowTheShape` | `AgentSpec => []AnswerFollowsShape` |
| | `SettledOnce` | `AgentSpec => SettledIsNotRepeated` |
| | `AgentsJudgeTheirWork` | `AgentSpec => ImplementsJudgedWork` |
| `ACPTurnsProofs` | `TypeCorrect` | `Spec => []TypeOK` |
| | `AnswersAreWhole` | `Spec => []AnswerIsWhatWasSent` |
| | `SessionsAreReleased` | `Spec => []TurnsAreReleased` |
| | `ArtifactsAreSent` | `Spec => []ArtifactsReachTheRemote` |
| `CodexCallsProofs` | `StoreNeverBehind` | `Spec => []StoreKeepsTheNewest` |
| | `CallsAreBounded` | `Spec => []CallsStayInBounds` |
| | `RefusedOnlyForLostTokens` | `Spec => RefusedOnlyWhenLost` |
| `CodexTurnsProofs` | `StreamInvHolds` | `TurnsSpec => []StreamInv` |
| | `AnswersAreResponses` | `TurnsSpec => []AnswerIsTheResponse` |
| | `CallsAreSeenOnce` | `TurnsSpec => []ArgumentsAreSeenOnce` |
| `FornaxTraceProofs` | `TypeCorrect` | `Spec => []TypeOK` |
| | `SpansEndOnce` | `Spec => []EverySpanEndsOnce` |
| | `FailuresAreSeen` | `Spec => []FailuresReachTheirNode` |
| | `UploadsAreAccounted` | `Spec => []StoredOnceOrReported` |

The assumptions are the named ones of the modules (`DBStoreAssumption`, `PurgeCallsAssumption`, `Limits`,
`ReactAssumption`, `PlanExecAssumption`, `SupervisorAssumption`, `LoopAssumption`,
`CompositionAssumption`, `ACPAssumption`, `TokenSourceAssumption`, `CodexCallsAssumption`,
`StreamAssumption`, `FornaxAssumption`): types of the constants, limits that are at least 1 where the
constructors demand it, different names of the children of a parallel agent
(`parallel.go:80`; those of a directory are different by its keys), and that a null value
is none of the values it stands beside. TLC evaluates them on every run. The assumption about callers of the Store named in 2.1
(`Acknowledged`) stands beside `Write` in `WorkerNext`; `RetentionInvariant` and what
follows from it rest on it.

### 4.1 The Store

**StoreInv.** None of the properties is inductive by itself. That a claim keeps its
owner depends on the latest row being the one the guards look at; that depends on
the head and on the versions having no gap and no duplicate (`HeadIsNewest`,
`KeysAreUnique`); that a head exists exactly for an active workflow
(`RegistryAccounts`) is what keeps the purge of an ended run, which removes old
checkpoints, away from runs with a head. The fence needs, besides, that no record
is ahead of its run's claim (`EventsWithinClaim`) and that ordinals only grow. The
proof has one lemma per action (`CreatePreservesInv`, `ClaimPreservesInv`, ...),
shared lemmas for what several have in common (`AdvancePreservesInv` for the insert
of the next version, `AppendPreservesInv`, `DeletingKeepsRows`), and lemmas that
turn `CHOOSE` into facts (`NewestOfKey`, `LatestOfHead`, `BaseIsLatest`). What an
action inserts is stated once (`ClaimInsertsRow`, `WriteInsertsRow`,
`RenewRewritesLatest`) and used by every later proof.

**RetentionInv** adds what retention relies on: a record and its retention row come
and go together (`RowsMatch`), only an active workflow has a floor
(`FloorsAreOfWorkflows`), and what the latest checkpoint confirms is in the log or
below the floor (`ConfirmedIsKept`). `CompactedStaysCompacted` is one of its
conjuncts. The work is in compaction: the selection is a gapless prefix of eligible
records from the floor on, so everything up to the last one selected goes and
nothing above it.

**Lifecycle.** `StepIsOfOneRun` says that every step but the clock's touches one run
and does to it one of seven things (starts, checkpoints, appends, retires, drains,
sheds, compacts). The two action properties and the refinement follow from that
list: in `StoreImplementsDurableRun` each of the seven is an action of DurableRun or a
stutter.

**The calls of retention.** `CallsInv` joins StoreInv with the accounts of the calls. What
a purge has left and what it deleted are its budget (`PurgeAccounts`). A sweep has
room for all that is left of its selection in the log (`SweepAccounts`): other calls
only make that smaller, and no later record joins it, since an ordinal is given once.
Both are about sizes of sets of rows. `Recursion` proves that a finite set has one sum
(`SumExists`, `SumIsUnique`), that it splits (`SumSplits`) and that an order has a first
element (`FirstExists`): the last row that a select admits counts all the others
(`EventsFitBudget`, `SelectionFitsBudget`). `FiniteTables` and `FewRuns` say that the
tables are finite, which sizes and queues need: a step of the Store inserts at most one
row into each (`SmallStep`). `CallsImplementStore` carries the theorems above over to the
calls.

### 4.2 The ReAct agent

The invariant is about a sequence no variable holds: `Transcript`, the messages, then
the observations that wait for the next turn, then the answers that the calls still
owed will get. `Answered(Transcript)` holds all the time, and every step but the
model's leaves Transcript as it is: settling, a crash and an interrupt move an answer from one of
its parts to another, or nothing. `Stages` says where what is owed is empty (`Quiet`), a
repair (`Repairing`) or the calls of the last message (`Calling`); `Counted` that the
counters count the transcript, `Reported` that artifacts are those of observed calls.
`Conversed` ties the counters to the turns of Conversation; then every step maps to a
turn within the limits, the end, or a stutter (`RunIsConversation`).

`Recursion` holds what these proofs need of folds. The induction theorems of the
library take an operator, which none of the provers instantiates; its well-founded
order of the naturals (`NatLessThanWellFounded`, `WFMin`) takes sets. So
`Induction` is stated of a set of naturals, `Iteration` and `SetRecursion` of functions, and from
them follow `FoldIsStepwise` and `FlattenIsStepwise`: the folds `React` is written with
go from left to right, one element after the other.

### 4.3 The agents that run others

`AgentInv` is the invariant of the agent that runs.

*planexec* (`PlanInv`). That a result fits its plan rests on what the nodes between were
given (`PlanGiven`): the step that executes is the next one of the plan, and the one
recorded is it, completed. That no step of a version has two results rests on the results
of older plans having lower versions (`PlanFollowed`), which is what `Newer` in accept-plan
is for, and on the distinct ids of a sound plan (`PlanAccepted`). `PlanCounted` says that
each result but the newest was replanned once and that only a plan called done is
reported.

*supervisor* (`SupervisorInv`). Between the decision and its result, the last one asked is
the delegation at work, valid and within the limit (`SupervisorDelegates`).

*loop* (`LoopInv`). `LoopStages` ties the number of judgements to the iteration at each
node and says that the child is asked the response judged last, however often it was
called again.

*compositions* (`CompositionInv`). A value lists who worked on it. `StageGiven` says
who did on what the children of the stage are given, `BranchSound` that a settled
child added itself and the others hold nothing; an answer is one step from there. A
sequence may name one child twice (only `parallel.New` refuses that), so the next child is
told by its place, the length of what it is given, and a stage by what it is given: the next
stage of a sequence is given one name more, which is what `SettledOnce` needs.

`AgentsJudgeTheirWork` takes each agent's few kinds of moves (`PlanMoves`, and likewise for the
other two): a unit is done only with verdict "go" and some of the allowance left, which are
`PlanCounted`, `SupervisorDelegates` and `LoopStages`.

### 4.4 ACP turns

`Held` and `Prompted` say whose a session is: `turns` holds the working Invokes, and
while a prompt is worked on or messages of it are under way, every other Invoke on
its session has ended. A message in the pipe belongs to the Invoke it was sent
for (`TurnMessages`), a session handed out again comes behind all that was sent on it
(`Handed`, `Opened`), and so an update that is looked up late finds the turn it was sent
for or none (`Reading`). `Sound` then follows the content: the parts
of a turn without an error are the first chunks of what was sent, and the chunk being
added and those in the pipe are the rest, in order.

`RequestsAreSent` says that an Invoke has nothing yet or the prompt of its own request.
`PromptContent` is the loop of the code as a fold (`FoldLeft`, not `SelectSeq`, which the
provers cannot expand), so `FoldIsStepwise` follows it: after the first j artifacts the
content begins with the messages, has those j, and repeats nothing (`ReachedBy`).

### 4.5 Codex credentials and calls

`Mutex` is what `Source.mu` gives: the caller between Lock and return is one. `Wire`
and `Kept` build on it: a request under way carries what its caller loaded, that is
what the Store holds until this caller saves, and an answer is part by part no older. So a
merge never goes back, and a waiting caller is refused only when the valid refresh
token is in no answer and not in the Store. `CallBounds` counts requests against
attempts and the one rotation.

### 4.6 The Codex response stream

The properties speak of the answer, which is made in one step; what makes it right
is what was gathered before. `StreamInv` says it while the stream is read: the text and
the refusal are what the finished items said and what the item under way said so far
(`TextGathered`, `RefusalGathered`), the calls are those of the finished items, and the parts
are theirs in order, with the place of the text at the first message that has some
(`PartsGathered`). A finished message repeats its deltas, so its item adds nothing if and
only if they were read: `sawTextDelta` is true exactly when there is text
and it came in deltas. `SeenOnce` ties the sinks to the finished calls: one got its arguments in
deltas or with its item, never both. `Said`, `Called` and `InOrder` are
flattened sequences over the items; `FlattenIsStepwise` and `FlattenGrows` say what one item
more adds to them.

### 4.7 Spans

The sink holds exactly the open spans (`OpenAreHeld`), each in one place
(`HeldOnce`), and knows the runs, nodes and calls that are under way (`Nested`). Whatever
end comes first takes its span out of its place, so a second one finds nothing.
`FailuresNoted` keeps a failure on the active node and on its span when that ends;
`Stored` follows a span through its batch.

### 4.8 What is only model-checked

- `CodexTurns`: `NextRequestContinues`; and `Migration`: `UpgradeIsComplete`. These have no
  inductive invariant yet.
- Every liveness property (`EveryEndedRunIsPurged`, `RunEnds`, `EverythingEnds`,
  `UpgradeEnds`): they rest on fairness and ENABLED, which the provers do not have.

## 5. Plan

More proofs: `NextRequestContinues` of CodexTurns, whose invariant must follow the
encoder's fold over the caller's messages, and `UpgradeIsComplete` of Migration.

Then, of the code: `StoreLocks`, the transactions of DBStore split at their row locks
(`registry.go:42`), and `OpenAICall` (`openai.go:447`).

## 6. Not modelled

- The row locks of the Store: transactions are atomic in DBStore, so a cycle of waits
  between them cannot show (planned).
- A repair of metadata beside PurgeRunLog of the same journal can leave a registry row
  without records, which reserves the RunID: the docs ask for an offline window and the
  model's Migration does not say anything of rows that are too many.
- `models/openai`, `models/glm`, `models/agnes`: the retry of one request with a
  replayed body is planned; the rest is one stateless HTTP call per operation, wrappers
  and encodings. `models/fake` serves tests.
- `codex/account.go`: models and usage, each one GET with the same refresh of a 401
  that CodexCalls has. Requests of Codex: tools, tool choice, schemas, cloning.
- Fornax: the authentication at construction, and the text of attributes.
- Schema verification: columns, indexes, collations, key layout. The database facades
  are wiring; of SQLite only the conversion of the WAL is modelled.
- `agents/internal/contract` collects construction errors; what it establishes is
  assumed of the constants of React and AgentRuns.
- Scripts and CI.
