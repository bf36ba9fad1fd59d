----------------------------- MODULE Migration -----------------------------
(***************************************************************************)
(* Deployment of the dbstore schema: processes that run Migrate beside     *)
(* each other, application instances that Connect, binaries of an older    *)
(* version that may still write, and stores that connected and go on.      *)
(* One step is one DDL statement, one transaction or one statement, and    *)
(* any of them may fail or be the last of its process.                     *)
(*                                                                         *)
(* Of a run the model keeps whether its rows exist and agree: the latest   *)
(* checkpoint, the head, the registry row, one record of the RunLog and    *)
(* the retention row of that record.                                       *)
(***************************************************************************)
EXTENDS Integers, Sequences, SequencesExt, FiniteSets, FiniteSetsExt

CONSTANTS
  MaxRun,        \* RunIDs are 1..MaxRun, in the order of the backfills
  Found,         \* what the first database may hold of each run
  Deployers,     \* processes that run Migrate
  Instances,     \* processes that Connect
  Batch,         \* backfillBatchSize
  MaxVersion,    \* bound on the checkpoints of one run
  MaxFailures,   \* bound on the failures and crashes of deployers and instances
  MaxWrites      \* bound on what old binaries and connected stores write

Runs == 1..MaxRun
Processes == Deployers \cup Instances

ASSUME MigrationAssumption ==
  /\ MaxRun \in Nat \ {0}
  /\ Found \subseteq [Runs -> {"nothing", "workflow", "journal", "both"}]
  /\ Batch \in Nat \ {0}
  /\ MaxVersion \in Nat \ {0}
  /\ MaxFailures \in Nat
  /\ MaxWrites \in Nat
  /\ Deployers \cap Instances = {}

SchemaVersion == 2
Attempts == 2      \* metadataReconcileAttempts

VARIABLES
  dialect,     \* "sqlite" or "server"
  legacy,      \* the schema found first: "empty", "unversioned", "v1", "v2", "v3"
  readable,    \* no legacy row breaks the contract on identities and sizes
  tables,
  versions,    \* rows of gopact_schema_migrations
  triggers,    \* the compatibility triggers exist
  wal,         \* the SQLite file is in WAL mode
  row,         \* run -> its rows
  old,         \* old binaries are running
  lock,        \* holder of the advisory lock
  proc,        \* what each process is at
  connected,   \* instances that have a store
  late,        \* runs old binaries wrote that no later Migrate could reconcile
  failures,
  writes

data == <<tables, versions, triggers, wal, row>>
given == <<dialect, legacy, readable>>
vars == <<given, data, old, lock, proc, connected, late, failures, writes>>

NoOne == "no one"
TablesV1 == {"checkpoints", "runlog", "heads"}
TablesV2 == {"retention", "registry"}
Tables == {"migrations"} \cup TablesV1 \cup TablesV2
Kinds == {"none", "journal", "workflow", "retired"}

\* No rows; "retired" is a registry row whose state is not active any more.
NoRows == [ckpt |-> 0, head |-> 0, kind |-> "none", event |-> FALSE, meta |-> FALSE]
Idle == [todo |-> <<>>, cursor |-> 0, picked |-> {}, attempt |-> 1, alone |-> FALSE]

\* What binaries of each version leave behind of a run: heads came with v1,
\* the registry and the retention rows with v2.
LegacyRow(found) ==
  LET c == IF found \in {"workflow", "both"} THEN 1 ELSE 0
      e == found \in {"journal", "both"}
  IN  CASE legacy = "empty" \/ found = "nothing" -> NoRows
        [] legacy = "unversioned" -> [NoRows EXCEPT !.ckpt = c, !.event = e]
        [] legacy = "v1" -> [NoRows EXCEPT !.ckpt = c, !.head = c, !.event = e]
        [] OTHER -> [ckpt |-> c, head |-> c, event |-> e, meta |-> e,
                     kind |-> IF c > 0 THEN "workflow" ELSE "journal"]

Init ==
  /\ dialect \in {"sqlite", "server"}
  /\ legacy \in {"empty", "unversioned", "v1", "v2", "v3"}
  /\ readable \in (IF legacy \in {"unversioned", "v1"} THEN BOOLEAN ELSE {TRUE})
  /\ tables = CASE legacy = "empty" -> {}
                [] legacy = "unversioned" -> {"checkpoints", "runlog"}
                [] legacy = "v1" -> {"migrations"} \cup TablesV1
                [] OTHER -> Tables
  /\ versions = CASE legacy \in {"empty", "unversioned"} -> {}
                  [] legacy = "v1" -> {1}
                  [] legacy = "v2" -> {1, 2}
                  [] legacy = "v3" -> {1, 2, 3}
  /\ triggers = (dialect = "sqlite" /\ legacy \in {"v2", "v3"})
  /\ wal \in (IF dialect = "sqlite" /\ legacy \in {"unversioned", "v1"} THEN BOOLEAN ELSE {FALSE})
  /\ \E found \in Found : row = [r \in Runs |-> LegacyRow(found[r])]
  /\ old \in (IF legacy \in {"unversioned", "v1"} THEN BOOLEAN ELSE {FALSE})
  /\ lock = NoOne
  /\ proc = [p \in Processes |-> Idle]
  /\ connected = {}
  /\ late = {}
  /\ failures = 0
  /\ writes = 0

-----------------------------------------------------------------------------
(* What a process has to do *)

Reconcile == <<"backfillRunLogRetention", "workflows", "journals", "promoteWorkflowRegistries",
               "v2MetadataGap">>
\* (mutant) version 1 is recorded with its tables
V1RecordedFirst == <<"tablesV1", "record1", "backfillRunHeads">>

V1 == <<"tablesV1", "backfillRunHeads", "record1">>
V2 == <<"tablesV2">> \o (IF dialect = "sqlite" THEN <<"triggers">> ELSE <<>>) \o Reconcile
Repair == V2 \o <<"verifySchema">>
Upgrade == V2 \o <<"record2", "verifySchema">>

At(p) == IF proc[p].todo = <<>> THEN "idle" ELSE Head(proc[p].todo)

\* The next step; a step that repeats itself keeps its place.
Advance(p) ==
  proc' = [proc EXCEPT ![p].todo = Tail(@), ![p].cursor = 0, ![p].picked = {}]

\* (mutant) only a Migrate that runs through gives the lock back
StopKeepingLock(p) ==
  /\ proc' = [proc EXCEPT ![p] = Idle]
  /\ lock' = IF lock = p /\ At(p) = "verifySchema" THEN NoOne ELSE lock

\* The process returns an error, or ends; what it committed stays, its
\* connection and with it the advisory lock is gone.
Stop(p) ==
  /\ proc' = [proc EXCEPT ![p] = Idle]
  /\ lock' = IF lock = p THEN NoOne ELSE lock

Return(p) == Stop(p) /\ UNCHANGED <<given, data, old, connected, late, failures, writes>>

\* A step that only reads and goes on.
Passes(p) == Advance(p) /\ UNCHANGED <<given, data, old, lock, connected, late, failures, writes>>

\* A step that writes.
Writes(p) == Advance(p) /\ UNCHANGED <<given, old, lock, connected, late, failures, writes>>

\* A bound of the model: deployers that began under old binaries are alone.
Begin(p) ==
  /\ At(p) = "idle"
  /\ p \notin connected
  /\ p \in Deployers =>
       \A q \in Deployers : At(q) # "idle" => ~old /\ proc[q].alone
  /\ proc' = [proc EXCEPT ![p] = [Idle EXCEPT !.alone = ~old, !.todo =
       (IF dialect = "sqlite" THEN <<"journal">> ELSE <<>>) \o
       (IF p \in Instances THEN <<"verifySchema">>
        ELSE IF dialect = "sqlite" THEN <<"inspect">> ELSE <<"lock", "inspect">>)]]
  /\ UNCHANGED <<given, data, old, lock, connected, late, failures, writes>>

\* withMigrationLock: acquire, or time out while another one has it.
AcquireLock(p) ==
  /\ At(p) = "lock"
  /\ lock = NoOne
  /\ lock' = p
  /\ Advance(p)
  /\ UNCHANGED <<given, data, old, connected, late, failures, writes>>

LockTimesOut(p) == At(p) = "lock" /\ lock # NoOne /\ Return(p)

\* prepareRollbackJournal of a deployer: the checkpoint of the WAL is busy
\* while another connection is there.  verifyRollbackJournal of an instance.
PrepareJournal(p) ==
  /\ At(p) = "journal"
  /\ IF p \in Deployers /\ ~(wal /\ old)
     THEN wal' = FALSE /\ Writes(p) /\ UNCHANGED <<tables, versions, triggers, row>>
     ELSE IF wal THEN Return(p) ELSE Passes(p)

\* validateLegacyIndexedIDs and the scan of the stored JSON: identities and
\* sizes of every legacy row, before anything is written.
Incompatible == ~readable

\* inspectSchemaVersion, and what initializeWithRepair makes of it.
InspectSchemaVersion(p) ==
  /\ At(p) = "inspect"
  /\ LET version == IF versions = {} THEN 0 ELSE Max(versions)
     IN  IF version > SchemaVersion THEN Return(p)
         ELSE IF version < SchemaVersion /\ Incompatible THEN Return(p)
         ELSE /\ proc' = [proc EXCEPT
                   ![p].todo = CASE version = 0 -> V1 \o Upgrade
                                 [] version = 1 -> Upgrade
                                 [] version = 2 -> Repair,
                   ![p].alone = @ /\ (version = 0 \/ legacy # "unversioned")]
              /\ UNCHANGED <<given, data, old, lock, connected, late, failures, writes>>

\* The tables of AutoMigrate, that of the versions with those of v1.
TablesAt(p) ==
  CASE At(p) = "tablesV1" -> {"migrations"} \cup TablesV1
    [] At(p) = "tablesV2" -> TablesV2
    [] OTHER -> {}

MigrateTables(p) ==
  /\ TablesAt(p) # {}
  /\ tables' = tables \cup TablesAt(p)
  /\ Writes(p)
  /\ UNCHANGED <<versions, triggers, wal, row>>

RecordSchemaVersion(p, version) ==
  /\ versions' = versions \cup {version}
  /\ Writes(p)
  /\ UNCHANGED <<tables, triggers, wal, row>>

CreateTriggers(p) ==
  /\ At(p) = "triggers"
  /\ triggers' = TRUE
  /\ Writes(p)
  /\ UNCHANGED <<tables, versions, wal, row>>

-----------------------------------------------------------------------------
(* What the triggers do to rows that anybody inserts *)

HeadRefused(r) == triggers /\ row[r].kind \in {"journal", "retired"}
EventRefused(r) == triggers /\ row[r].kind = "retired"

WithHead(x, version) ==
  [x EXCEPT !.head = version, !.kind = IF triggers /\ @ = "none" THEN "workflow" ELSE @]

WithEvent(x) ==
  [x EXCEPT !.event = TRUE,
            !.meta = @ \/ triggers,
            !.kind = IF triggers /\ @ = "none" THEN (IF x.head > 0 THEN "workflow" ELSE "journal")
                     ELSE @]

-----------------------------------------------------------------------------
(* Backfills: a select of one batch, then a write of what it found *)

\* The first runs of a set after the cursor.
BatchOf(R, cursor) ==
  LET after == {r \in R : r > cursor}
  IN  {r \in after : Cardinality({q \in after : q <= r}) <= Batch}

Backfills == {"backfillRunHeads", "backfillRunLogRetention", "workflows", "journals"}

\* A batch of retention rows is in the order of ordinals, which is none of the runs.
Selectable(p) ==
  LET cursor == proc[p].cursor
  IN  CASE At(p) = "backfillRunHeads" -> {BatchOf({r \in Runs : row[r].head < row[r].ckpt}, cursor)}
        [] At(p) = "backfillRunLogRetention" ->
             LET missing == {r \in Runs : row[r].event /\ ~row[r].meta}
             IN  kSubset(Min({Batch, Cardinality(missing)}), missing)
        [] At(p) = "workflows" -> {BatchOf({r \in Runs : row[r].head > 0}, cursor)}
        [] At(p) = "journals" -> {BatchOf({r \in Runs : row[r].event}, cursor)}

\* loadRunHeadBackfillBatch, the select of backfillRunLogRetention,
\* workflowRunIDBatch and journalRunIDBatch.  A head remembers the version it
\* was read with.
SelectBatch(p) ==
  /\ At(p) \in Backfills
  /\ proc[p].picked = {}
  /\ \E batch \in Selectable(p) :
       IF batch = {} THEN Passes(p)
       ELSE /\ proc' = [proc EXCEPT ![p].picked = {[run |-> r, version |-> row[r].ckpt] : r \in batch}]
            /\ UNCHANGED <<given, data, old, lock, connected, late, failures, writes>>

PickedRuns(p) == {x.run : x \in proc[p].picked}

\* A batch that was not full is the last one.
AfterBatch(p) ==
  /\ IF Cardinality(proc[p].picked) < Batch THEN Advance(p)
     ELSE proc' = [proc EXCEPT ![p].picked = {}, ![p].cursor = Max(PickedRuns(p))]
  /\ UNCHANGED <<given, tables, versions, triggers, wal, old, lock, connected, late, failures, writes>>

\* The source row is still there, and the newest.
IsLatest(x) == row[x.run].ckpt = x.version

\* backfillRunHead, for a batch in one transaction, which a trigger may abort.
BackfillRunHeads(p) ==
  LET current == {x \in proc[p].picked : IsLatest(x)}
      Filled(x) == IF row[x.run].head < x.version THEN WithHead(row[x.run], x.version) ELSE row[x.run]
  IN  /\ At(p) = "backfillRunHeads"
      /\ proc[p].picked # {}
      /\ IF \E x \in current : HeadRefused(x.run) THEN Return(p)
         ELSE /\ row' = [r \in Runs |->
                   IF \E x \in current : x.run = r
                   THEN Filled(CHOOSE x \in current : x.run = r) ELSE row[r]]
              /\ AfterBatch(p)

\* Rows that are there already are left alone.
BackfillRunLogRetention(p) ==
  /\ At(p) = "backfillRunLogRetention"
  /\ proc[p].picked # {}
  /\ row' = [r \in Runs |-> IF r \in PickedRuns(p) THEN [row[r] EXCEPT !.meta = TRUE] ELSE row[r]]
  /\ AfterBatch(p)

\* backfillRegistryKind.
BackfillRegistryKind(p, step, kind) ==
  /\ At(p) = step
  /\ proc[p].picked # {}
  /\ row' = [r \in Runs |->
       IF r \in PickedRuns(p) /\ row[r].kind = "none" THEN [row[r] EXCEPT !.kind = kind] ELSE row[r]]
  /\ AfterBatch(p)

PromoteWorkflowRegistries(p) ==
  /\ At(p) = "promoteWorkflowRegistries"
  /\ row' = [r \in Runs |-> IF row[r].kind = "journal" /\ row[r].head > 0
                            THEN [row[r] EXCEPT !.kind = "workflow"] ELSE row[r]]
  /\ Writes(p)
  /\ UNCHANGED <<tables, versions, triggers, wal>>

-----------------------------------------------------------------------------
(* The gate before version 2 is recorded, and the check of verifySchema *)

\* v2MetadataGap, its selects taken together: a retention row is missing, or a
\* registry row, or that is of the wrong kind.
V2MetadataGap(x) ==
  \/ x.event /\ ~x.meta
  \/ x.head > 0 /\ x.kind # "workflow"
  \/ x.event /\ x.kind = "none"
  \/ x.event /\ x.head = 0 /\ x.kind = "workflow"

HasGap == \E r \in Runs : V2MetadataGap(row[r])

\* A gap repeats the reconciliation once.
CheckGap(p) ==
  /\ At(p) = "v2MetadataGap"
  /\ IF ~HasGap THEN Passes(p)
     ELSE IF proc[p].attempt = Attempts THEN Return(p)
     ELSE /\ proc' = [proc EXCEPT ![p].attempt = @ + 1, ![p].todo = Reconcile \o Tail(@)]
          /\ UNCHANGED <<given, data, old, lock, connected, late, failures, writes>>

\* Migrate succeeds, Connect has a store.  A Migrate that had the database to itself leaves nothing that old binaries wrote.
Succeed(p) ==
  /\ Stop(p)
  /\ connected' = IF p \in Instances THEN connected \cup {p} ELSE connected
  /\ late' = IF p \in Deployers /\ proc[p].alone THEN {} ELSE late
  /\ UNCHANGED <<given, data, old, failures, writes>>

\* Of the shape of a table only that it is there.
SchemaMatches == tables = Tables

VerifySchema(p) ==
  /\ At(p) = "verifySchema"
  /\ IF versions = {} \/ ~SchemaMatches \/ HasGap THEN Return(p)
     ELSE IF Max(versions) # SchemaVersion THEN Return(p)
     ELSE Succeed(p)

\* Any step may fail, or be the last one of its process; MySQL commits the
\* tables of an AutoMigrate one by one.
Fail(p) ==
  /\ At(p) # "idle"
  /\ failures < MaxFailures
  /\ failures' = failures + 1
  /\ \E done \in SUBSET TablesAt(p) : tables' = tables \cup done
  /\ Stop(p)
  /\ UNCHANGED <<given, versions, triggers, wal, row, old, connected, late, writes>>

Step(p) ==
  \/ AcquireLock(p) \/ LockTimesOut(p)
  \/ PrepareJournal(p) \/ InspectSchemaVersion(p)
  \/ MigrateTables(p) \/ CreateTriggers(p)
  \/ At(p) = "record1" /\ RecordSchemaVersion(p, 1)
  \/ At(p) = "record2" /\ RecordSchemaVersion(p, 2)
  \/ SelectBatch(p) \/ BackfillRunHeads(p) \/ BackfillRunLogRetention(p)
  \/ BackfillRegistryKind(p, "workflows", "workflow")
  \/ BackfillRegistryKind(p, "journals", "journal")
  \/ PromoteWorkflowRegistries(p) \/ CheckGap(p) \/ VerifySchema(p)

-----------------------------------------------------------------------------
(* Old binaries, and stores that are connected *)

Rewrite(r, x) ==
  /\ writes < MaxWrites
  /\ writes' = writes + 1
  /\ row' = [row EXCEPT ![r] = x]
  /\ UNCHANGED <<given, tables, versions, triggers, wal, old, lock, proc, connected, failures>>

\* With the triggers, what a v1 binary inserts is complete.
OldRewrite(r, x) ==
  /\ old
  /\ Rewrite(r, x)
  /\ late' = IF legacy = "v1" /\ triggers THEN late ELSE late \cup {r}

OldCreate(r) ==
  /\ row[r].ckpt = 0
  /\ row[r].head = 0
  /\ legacy = "v1" => ~HeadRefused(r)
  /\ OldRewrite(r, IF legacy = "v1" THEN WithHead([row[r] EXCEPT !.ckpt = 1], 1)
                   ELSE [row[r] EXCEPT !.ckpt = 1])

OldSave(r) ==
  /\ row[r].ckpt \in 1..(MaxVersion - 1)
  /\ legacy = "v1" => row[r].head = row[r].ckpt
  /\ OldRewrite(r, IF legacy = "v1" THEN [row[r] EXCEPT !.ckpt = @ + 1, !.head = @ + 1]
                   ELSE [row[r] EXCEPT !.ckpt = @ + 1])

OldAppend(r) ==
  /\ ~row[r].event
  /\ ~EventRefused(r)
  /\ OldRewrite(r, WithEvent(row[r]))

StopOld ==
  /\ old
  /\ old' = FALSE
  /\ UNCHANGED <<given, data, lock, proc, connected, late, failures, writes>>

NewRewrite(r, x) == connected # {} /\ Rewrite(r, x) /\ UNCHANGED late

NewCreate(r) ==
  /\ row[r].kind \in {"none", "workflow"}
  /\ row[r].ckpt = 0
  /\ row[r].head = 0
  /\ NewRewrite(r, [row[r] EXCEPT !.ckpt = 1, !.head = 1, !.kind = "workflow"])

NewSave(r) ==
  /\ row[r].kind = "workflow"
  /\ row[r].head = row[r].ckpt
  /\ row[r].ckpt \in 1..(MaxVersion - 1)
  /\ NewRewrite(r, [row[r] EXCEPT !.ckpt = @ + 1, !.head = @ + 1])

NewAppend(r) ==
  /\ row[r].kind # "retired"
  /\ ~row[r].event
  /\ NewRewrite(r, [row[r] EXCEPT !.event = TRUE, !.meta = TRUE,
                                  !.kind = IF @ = "none" THEN "journal" ELSE @])

\* PurgeTerminalRuns enrols an ended run and drains it later; PurgeRunLog
\* deletes a journal and its registry row.
NewRetire(r) ==
  /\ row[r].kind = "workflow"
  /\ row[r].head > 0
  /\ row[r].head = row[r].ckpt
  /\ NewRewrite(r, [row[r] EXCEPT !.head = 0, !.kind = "retired"])

NewDrain(r) ==
  /\ row[r].kind = "retired"
  /\ row[r].ckpt > 0 \/ row[r].event
  /\ NewRewrite(r, [row[r] EXCEPT !.ckpt = 0, !.event = FALSE, !.meta = FALSE])

NewSweep(r) ==
  /\ row[r].kind = "journal"
  /\ row[r].event
  /\ row[r].meta
  /\ NewRewrite(r, [row[r] EXCEPT !.event = FALSE, !.meta = FALSE, !.kind = "none"])

Write(r) ==
  \/ OldCreate(r) \/ OldSave(r) \/ OldAppend(r)
  \/ NewCreate(r) \/ NewSave(r) \/ NewAppend(r) \/ NewRetire(r) \/ NewDrain(r) \/ NewSweep(r)

Next ==
  \/ \E p \in Processes : Begin(p) \/ Step(p) \/ Fail(p)
  \/ \E r \in Runs : Write(r)
  \/ StopOld

\* Processes go on, a deployment that failed is started again, and the old
\* application is stopped for it.
Spec ==
  /\ Init
  /\ [][Next]_vars
  /\ \A p \in Processes : WF_vars(Step(p)) /\ WF_vars(Begin(p))
  /\ WF_vars(StopOld)

-----------------------------------------------------------------------------
(* Properties *)

TypeOK ==
  /\ tables \subseteq Tables
  /\ versions \subseteq 1..3
  /\ row \in [Runs -> [ckpt : 0..MaxVersion, head : 0..MaxVersion, kind : Kinds,
                       event : BOOLEAN, meta : BOOLEAN]]
  /\ lock \in Deployers \cup {NoOne}
  /\ \A p \in Processes :
       /\ PickedRuns(p) \subseteq Runs
       /\ proc[p].attempt \in 1..Attempts
       /\ lock = p => At(p) # "idle"
  /\ connected \subseteq Instances
  /\ late \subseteq Runs
  /\ failures \in 0..MaxFailures
  /\ writes \in 0..MaxWrites

\* What Connect and retention rely on: every record of a RunLog has its
\* retention row and its run a registry row of the right kind, a head belongs
\* to an active workflow, and is the newest checkpoint.
Complete(x) ==
  /\ x.event => x.meta /\ x.kind # "none"
  /\ x.head > 0 => x.kind = "workflow"
  /\ x.ckpt > 0 /\ x.kind # "retired" => x.head = x.ckpt

\* Once version 2 is recorded every run is complete, whatever failed before,
\* however many deployers ran beside each other and whatever connected stores
\* did under a deployer that was still at it.  Left out are runs that an old
\* binary wrote behind the back of the migration, until a Migrate that is run
\* with the old ones stopped reconciles them (dbstore.go:837, migrations.go:328).
\* A database that is not compatible is left as it was.
UpgradeIsComplete ==
  /\ TypeOK
  /\ 2 \in versions => \A r \in Runs \ late : Complete(row[r])
  /\ connected # {} => 2 \in versions /\ tables = Tables /\ ~wal
  /\ ~readable => /\ versions \subseteq {1}
                  /\ tables = IF legacy = "v1" THEN {"migrations"} \cup TablesV1
                              ELSE {"checkpoints", "runlog"}

\* A compatible database is upgraded and every instance connects in the end:
\* no order of failures, locks that time out, WAL that is busy and old writers
\* leaves it where neither Migrate nor Connect gets on (dbstore.go:255,
\* sqlite.go:245).
UpgradeEnds == (readable /\ legacy # "v3") ~> connected # {}

=============================================================================
