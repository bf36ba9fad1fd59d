----------------------------- MODULE PurgeCalls -----------------------------
(***************************************************************************)
(* The two retention calls of stores/dbstore/retention.go that are made of *)
(* several statements and transactions, PurgeTerminalRuns and PurgeRunLog, *)
(* run by several maintenance processes beside the workers of DBStore.     *)
(* Between two steps of a call anything may happen: a worker's call, a     *)
(* step of another purger, the end of the process.                         *)
(***************************************************************************)
EXTENDS DBStore, Sequences

CONSTANTS
  Purgers,      \* processes that call PurgeTerminalRuns
  Sweepers,     \* processes that call PurgeRunLog
  RunLimit,     \* Limit: runs one PurgeTerminalRuns call looks at
  MaxAborts     \* bound on the calls that end early

ASSUME PurgeCallsAssumption ==
  /\ Runs \subseteq Nat
  /\ RunLimit \in Nat \ {0}
  /\ MaxAborts \in Nat

VARIABLES
  purge,   \* purger -> local state of its PurgeTerminalRuns call
  sweep,   \* sweeper -> local state of its PurgeRunLog call
  aborts   \* calls that ended early so far

callVars == <<purge, sweep, aborts>>
allVars == <<vars, callVars>>

\* capacity is how many runs the call may still enrol; rowLimit and byteLimit
\* are its arguments, rows and bytes what is left of them (remaining,
\* remainingBytes); deletedRows and deletedBytes count what
\* the call really deleted, for the properties.
NoPurge == [at |-> "idle", before |-> 0, queue |-> <<>>, capacity |-> 0, rowLimit |-> 0, byteLimit |-> 0,
            rows |-> 0, bytes |-> 0, deletedRows |-> 0, deletedBytes |-> 0]
NoSweep == [at |-> "idle", before |-> 0, queue |-> <<>>, ordinals |-> {},
            rowLimit |-> 0, byteLimit |-> 0, deletedRows |-> 0, deletedBytes |-> 0]

CallsInit ==
  /\ Init
  /\ purge = [p \in Purgers |-> NoPurge]
  /\ sweep = [p \in Sweepers |-> NoSweep]
  /\ aborts = 0

-----------------------------------------------------------------------------
(* PurgeTerminalRuns *)

Limited(seq, n) == SubSeq(seq, 1, IF Len(seq) <= n THEN Len(seq) ELSE n)

\* S as a sequence, in the order Before.
Sorted(S, Before(_, _)) ==
  CHOOSE q \in [1..Cardinality(S) -> S] :
    \A i, j \in 1..Cardinality(S) : i < j => q[i] # q[j] /\ Before(q[i], q[j])

\* Runs in the order of a time column, ties broken by RunID.
InOrder(S, Time(_)) ==
  Sorted(S, LAMBDA q, r : Time(q) < Time(r) \/ (Time(q) = Time(r) /\ q < r))

EnrolledAt(r) == registry[r].updated
FinishedAt(r) == heads[r].updated

PurgingRuns ==
  Limited(InOrder({r \in Runs : /\ registry[r].kind = "workflow"
                                /\ registry[r].state = "purging"}, EnrolledAt), RunLimit)

TerminalRuns(before, capacity) ==
  Limited(InOrder({r \in Runs : /\ ActiveWorkflow(r)
                                /\ HasHead(r)
                                /\ Terminal(heads[r].status)
                                /\ heads[r].updated < before
                                /\ \A c \in CheckpointsOf(r) : c.version <= heads[r].version},
                  FinishedAt), capacity)

\* (mutant) a row of exactly the budget does not fit
FirstRowFitsBelow(r, bytes) ==
  IF EventsOf(r) # {}
  THEN \A e \in EventsOf(r) :
         (\A f \in EventsOf(r) : e.sequence <= f.sequence) => BytesOf(e) < bytes
  ELSE CheckpointsOf(r) # {} => CheckpointBytes < bytes

\* firstHistoryRowFits: the row that would be deleted first fits the budget.
FirstRowFits(r, bytes) ==
  IF EventsOf(r) # {}
  THEN \A e \in EventsOf(r) :
         (\A f \in EventsOf(r) : e.sequence <= f.sequence) => BytesOf(e) <= bytes
  ELSE CheckpointsOf(r) # {} => CheckpointBytes <= bytes

\* The call starts by counting the runs that are still being drained.
BeginPurge(p, before, rowLimit, byteLimit) ==
  /\ purge[p].at = "idle"
  /\ purge' = [purge EXCEPT ![p] =
       [NoPurge EXCEPT !.at = IF Len(PurgingRuns) < RunLimit THEN "select" ELSE "pending",
                       !.before = before,
                       !.capacity = RunLimit - Len(PurgingRuns),
                       !.rowLimit = rowLimit, !.byteLimit = byteLimit]]
  /\ UNCHANGED <<vars, sweep, aborts>>

SelectTerminal(p) ==
  /\ purge[p].at = "select"
  /\ purge' = [purge EXCEPT ![p].at = "enroll",
                            ![p].queue = TerminalRuns(purge[p].before, purge[p].capacity)]
  /\ UNCHANGED <<vars, sweep, aborts>>

\* enrollTerminalRuns inspects the next candidate; one that does not fit ends
\* the enrolment, whatever follows it.
InspectCandidate(p) ==
  /\ purge[p].at = "enroll"
  /\ purge' = [purge EXCEPT ![p].at =
       IF purge[p].queue # <<>> /\ FirstRowFits(Head(purge[p].queue), purge[p].byteLimit)
       THEN "retire" ELSE "pending"]
  /\ UNCHANGED <<vars, sweep, aborts>>

\* (mutant) the transaction trusts what the call selected before
RetireCandidateTrusting(p) ==
  LET r == Head(purge[p].queue)
  IN  /\ purge[p].at = "retire"
      /\ registry' = [registry EXCEPT ![r].state = "purging"]
      /\ heads' = [heads EXCEPT ![r] = NoHead]
      /\ purge' = [purge EXCEPT ![p].at = "enroll", ![p].queue = Tail(@)]
      /\ UNCHANGED <<checkpoints, events, retention, nextOrdinal, clock, sweep, aborts>>

\* The transaction of enrollTerminalRun, which leaves a run alone that is no
\* longer terminal, old or active.
RetireCandidate(p) ==
  LET r == Head(purge[p].queue)
  IN  /\ purge[p].at = "retire"
      /\ \/ \E stamp \in Stamps : EnrollTerminalRun(r, purge[p].before, stamp)
         \/ ~Enrollable(r, purge[p].before) /\ UNCHANGED vars
      /\ purge' = [purge EXCEPT ![p].at = "enroll", ![p].queue = Tail(@)]
      /\ UNCHANGED <<sweep, aborts>>

SelectPending(p) ==
  /\ purge[p].at = "pending"
  /\ purge' = [purge EXCEPT ![p].at = "delete", ![p].queue = PurgingRuns,
                            ![p].rows = purge[p].rowLimit, ![p].bytes = purge[p].byteLimit]
  /\ UNCHANGED <<vars, sweep, aborts>>

\* One deletePurgingHistory transaction.  A run another purger has finished
\* meanwhile is left alone.
DeleteHistory(p) ==
  LET call == purge[p]
      r == Head(call.queue)
      goneRows == Cardinality(events \ events') + Cardinality(checkpoints \ checkpoints')
      goneBytes == MapThenSumSet(BytesOf, events \ events')
                     + CheckpointBytes * Cardinality(checkpoints \ checkpoints')
  IN  /\ call.at = "delete"
      /\ call.queue # <<>>
      /\ call.rows > 0
      /\ call.bytes > 0
      /\ IF registry[r].state = "purging"
         THEN DeletePurgingHistory(r, call.rows, call.bytes)
         ELSE UNCHANGED vars
      /\ purge' = [purge EXCEPT ![p].queue = Tail(@),
                                ![p].rows = @ - goneRows,
                                ![p].bytes = @ - goneBytes,
                                ![p].deletedRows = @ + goneRows,
                                ![p].deletedBytes = @ + goneBytes]
      /\ UNCHANGED <<sweep, aborts>>

EndPurge(p) ==
  /\ purge[p].at = "delete"
  /\ purge[p].queue = <<>> \/ purge[p].rows <= 0 \/ purge[p].bytes <= 0
  /\ purge' = [purge EXCEPT ![p] = NoPurge]
  /\ UNCHANGED <<vars, sweep, aborts>>

\* A statement fails, the context is cancelled or the process ends: what has
\* been committed stays.
AbortPurge(p) ==
  /\ purge[p].at # "idle"
  /\ aborts < MaxAborts
  /\ aborts' = aborts + 1
  /\ purge' = [purge EXCEPT ![p] = NoPurge]
  /\ UNCHANGED <<vars, sweep>>

-----------------------------------------------------------------------------
(* PurgeRunLog *)

JournalCandidates(before) ==
  {x \in retention : /\ registry[x.run].kind = "journal"
                     /\ registry[x.run].state = "active"
                     /\ x.appendedAt < before
                     /\ \E e \in events : e.ordinal = x.ordinal}

\* Retention rows in the order of append time, then ordinal.
Older(x, y) ==
  x.appendedAt < y.appendedAt \/ (x.appendedAt = y.appendedAt /\ x.ordinal <= y.ordinal)

EventOf(x) == CHOOSE e \in events : e.ordinal = x.ordinal
RetainedRows(x) == 1  \* (mutant) rows are taken for bytes
RetainedBytes(x) == BytesOf(EventOf(x))

\* The oldest journal rows that fit the limits.
SelectedRows(before, rowLimit, byteLimit) ==
  LET candidates == JournalCandidates(before)
      upTo(x) == {y \in candidates : Older(y, x)}
  IN  {x \in candidates : /\ Cardinality(upTo(x)) <= rowLimit
                          /\ MapThenSumSet(RetainedBytes, upTo(x)) <= byteLimit}

OldestRow(rows, r) ==
  CHOOSE x \in rows : x.run = r /\ \A y \in rows : y.run = r => Older(x, y)

\* The select of PurgeRunLog, and the runs in the order it first meets them.
BeginSweep(p, before, rowLimit, byteLimit) ==
  LET rows == SelectedRows(before, rowLimit, byteLimit)
  IN  /\ sweep[p].at = "idle"
      /\ sweep' = [sweep EXCEPT ![p] =
           [NoSweep EXCEPT !.at = "sweep", !.before = before,
              !.queue = Sorted({x.run : x \in rows},
                               LAMBDA q, r : Older(OldestRow(rows, q), OldestRow(rows, r))),
              !.ordinals = {x.ordinal : x \in rows},
              !.rowLimit = rowLimit, !.byteLimit = byteLimit]]
      /\ UNCHANGED <<vars, purge, aborts>>

\* (mutant) the transaction forgets the run whatever it has appended since
SweepRunForgetting(p) ==
  LET r == Head(sweep[p].queue)
  IN  /\ sweep[p].at = "sweep"
      /\ sweep[p].queue # <<>>
      /\ events' = {e \in events : e.run # r \/ e.ordinal \notin sweep[p].ordinals}
      /\ retention' = {x \in retention : x.run # r \/ x.ordinal \notin sweep[p].ordinals}
      /\ registry' = [registry EXCEPT ![r] = NoRegistry]
      /\ sweep' = [sweep EXCEPT ![p].queue = Tail(@)]
      /\ UNCHANGED <<heads, checkpoints, nextOrdinal, clock, purge, aborts>>

\* The transaction for one run.  It looks again at the registry and at the
\* selected rows, which another call may have changed since.
SweepRun(p) ==
  LET call == sweep[p]
      r == Head(call.queue)
      gone == events \ events'
  IN  /\ call.at = "sweep"
      /\ call.queue # <<>>
      /\ \/ PurgeJournalEvents(r, call.ordinals, call.before)
         \/ ~JournalPurgeable(r, call.ordinals, call.before) /\ UNCHANGED vars
      /\ sweep' = [sweep EXCEPT ![p].queue = Tail(@),
                                ![p].deletedRows = @ + Cardinality(gone),
                                ![p].deletedBytes = @ + MapThenSumSet(BytesOf, gone)]
      /\ UNCHANGED <<purge, aborts>>

EndSweep(p) ==
  /\ sweep[p].at = "sweep"
  /\ sweep[p].queue = <<>>
  /\ sweep' = [sweep EXCEPT ![p] = NoSweep]
  /\ UNCHANGED <<vars, purge, aborts>>

AbortSweep(p) ==
  /\ sweep[p].at # "idle"
  /\ aborts < MaxAborts
  /\ aborts' = aborts + 1
  /\ sweep' = [sweep EXCEPT ![p] = NoSweep]
  /\ UNCHANGED <<vars, purge>>

-----------------------------------------------------------------------------
(* What may happen next *)

PurgeStep(p) ==
  \/ SelectTerminal(p)
  \/ InspectCandidate(p)
  \/ RetireCandidate(p)
  \/ SelectPending(p)
  \/ DeleteHistory(p)
  \/ EndPurge(p)

CallPurge(p) ==
  \E before \in Cutoffs, rowLimit \in RowLimits, byteLimit \in ByteLimits :
    BeginPurge(p, before, rowLimit, byteLimit)

CallSweep(p) ==
  \E before \in Cutoffs, rowLimit \in RowLimits, byteLimit \in ByteLimits :
    BeginSweep(p, before, rowLimit, byteLimit)

\* PurgeConfirmedRunLog is one transaction.
CompactNext ==
  \E r \in Runs, before \in Cutoffs, rows \in RowLimits, bytes \in ByteLimits :
    PurgeConfirmedRunLog(r, before, rows, bytes)

CallsNext ==
  \/ (Tick \/ WorkerNext \/ CompactNext) /\ UNCHANGED callVars
  \/ \E p \in Purgers : CallPurge(p) \/ PurgeStep(p) \/ AbortPurge(p)
  \/ \E p \in Sweepers : CallSweep(p) \/ SweepRun(p) \/ EndSweep(p) \/ AbortSweep(p)

CallsSpec == CallsInit /\ [][CallsNext]_allVars

\* The service keeps calling PurgeTerminalRuns, as the Store's documentation
\* asks ("repeat until it reaches zero"), and a call that has begun takes its
\* next step: it waits for nothing but row locks, which transactions release.
FairCallsSpec ==
  /\ CallsSpec
  /\ \A p \in Purgers : WF_allVars(CallPurge(p)) /\ WF_allVars(PurgeStep(p))

-----------------------------------------------------------------------------
(* Properties *)

\* "a hard upper bound": over all the transactions of one call, and whatever
\* the other purgers delete meanwhile, a call deletes no more rows and no more
\* bytes than its arguments allow.
BudgetIsHard ==
  /\ \A p \in Purgers : /\ purge[p].deletedRows <= purge[p].rowLimit
                        /\ purge[p].deletedBytes <= purge[p].byteLimit
  /\ \A p \in Sweepers : /\ sweep[p].deletedRows <= sweep[p].rowLimit
                         /\ sweep[p].deletedBytes <= sweep[p].byteLimit

\* A journal record disappears only if a running PurgeRunLog call selected it
\* as old enough, however the run changed between the call's select and its
\* transaction: purged, forgotten, opened again with new records.
SweepDeletesOnlySelected ==
  [][\A e \in events \ events' :
       registry[e.run].kind = "journal" =>
         \E p \in Sweepers, x \in retention :
           /\ x.ordinal = e.ordinal
           /\ e.ordinal \in sweep[p].ordinals
           /\ x.appendedAt < sweep[p].before]_allVars

\* Retention completes: with budgets every row fits, repeated calls drain every
\* ended run that is older than the cut-off down to its tombstone, also when
\* calls are cut short and purgers meet on the same run.
EveryEndedRunIsPurged ==
  \A r \in Runs : Ended(r) ~> registry[r].state = "purged"

\* stores/dbstore/README.md of a row larger than the byte budget: it "is
\* deleted alone to guarantee progress".
Oversized(r) == Ended(r) /\ \E e \in EventsOf(r) : \A n \in ByteLimits : BytesOf(e) > n
OversizedRowIsDeletedAlone ==
  \A r \in Runs : Oversized(r) ~> ~Oversized(r)

-----------------------------------------------------------------------------
(* The inductive invariant behind the theorems of DBStoreProofs *)

\* The tables hold finitely many rows, of finitely many runs.
FiniteTables == IsFiniteSet(events) /\ IsFiniteSet(checkpoints) /\ IsFiniteSet(retention)
Registered == {r \in Runs : registry[r].kind # "none"}
FewRuns == IsFiniteSet(Registered)

BytesIn(S) == MapThenSumSet(BytesOf, S)
Numbered(log, ordinals) == {e \in log : e.ordinal \in ordinals}

PurgeCall ==
  [at : {"idle", "select", "enroll", "retire", "pending", "delete"},
   before : Nat, queue : Seq(Runs), capacity : Nat, rowLimit : Nat, byteLimit : Nat,
   rows : Nat, bytes : Nat, deletedRows : Nat, deletedBytes : Nat]

\* What a PurgeTerminalRuns call deleted and what it may still delete make up
\* its budget.
PurgeAccounts(call) ==
  /\ call \in PurgeCall
  /\ call.at # "idle" =>
       call.before \in Cutoffs /\ call.rowLimit \in RowLimits /\ call.byteLimit \in ByteLimits
  /\ call.at = "retire" => call.queue # <<>>
  /\ call.at # "delete" => call.deletedRows = 0 /\ call.deletedBytes = 0
  /\ call.at = "delete" => /\ call.rows + call.deletedRows = call.rowLimit
                           /\ call.bytes + call.deletedBytes = call.byteLimit

SweepCall ==
  [at : {"idle", "sweep"}, before : Nat, queue : Seq(Runs), ordinals : SUBSET Nat,
   rowLimit : Nat, byteLimit : Nat, deletedRows : Nat, deletedBytes : Nat]

\* A PurgeRunLog call has room for all that is left of its selection, to which
\* no later record is added: an ordinal is never given twice.
SweepAccounts(call, log, next) ==
  /\ call \in SweepCall
  /\ call.at # "idle" => call.before \in Cutoffs
  /\ \A o \in call.ordinals : o < next
  /\ call.deletedRows + Cardinality(Numbered(log, call.ordinals)) <= call.rowLimit
  /\ call.deletedBytes + BytesIn(Numbered(log, call.ordinals)) <= call.byteLimit

CallsInv ==
  /\ StoreInv
  /\ FiniteTables
  /\ FewRuns
  /\ purge \in [Purgers -> PurgeCall]
  /\ sweep \in [Sweepers -> SweepCall]
  /\ \A p \in Purgers : PurgeAccounts(purge[p])
  /\ \A p \in Sweepers : SweepAccounts(sweep[p], events, nextOrdinal)

=============================================================================
