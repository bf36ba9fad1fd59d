------------------------------ MODULE DBStore ------------------------------
(***************************************************************************)
(* The relational Store shared by the SQLite, MySQL, MariaDB and           *)
(* PostgreSQL packages (stores/dbstore): checkpoints under version CAS and *)
(* leases, a RunLog fenced by the same lease, and retention.               *)
(*                                                                         *)
(* The variables are the database tables and the database clock.  An       *)
(* action is one committed transaction.  Every transaction first locks the *)
(* registry row or the head row of its run, so transactions on one run are *)
(* serial; a call that is refused, times out or crashes before its commit  *)
(* changes nothing and is a stuttering step.  Callers keep no state here:  *)
(* whatever a stale or restarted worker may present is a record derived    *)
(* from SOME row the run ever had ("base"), so every delayed, repeated or  *)
(* zombie call is among the calls the actions allow.                       *)
(***************************************************************************)
EXTENDS Integers, FiniteSets, FiniteSetsExt

CONSTANTS
  Runs,             \* run identifiers
  Owners,           \* worker identifiers (workflow owner IDs)
  NoOwner,          \* the empty OwnerID
  Identities,       \* checkpoint id, session, workflow, topology and schema of a run
  Payloads,         \* contents of RunLog records
  EventBytes,       \* encoded size of a RunLog record, by payload
  CheckpointBytes,  \* encoded size of one checkpoint row
  Leases,           \* lease requests: [at |-> expiry, duration |-> ttl]
  Cutoffs,          \* Before arguments of purge calls
  RowLimits,        \* row budgets of purge calls
  ByteLimits,       \* byte budgets of purge calls
  Progress,         \* what a saved checkpoint confirms: [confirmed, pending]
  Stamps,           \* UpdatedAt times the hosts' own clocks may produce
  MaxTime,          \* bound on the database clock
  MaxVersion,       \* bound on checkpoint versions
  MaxSequence,      \* bound on RunLog sequence numbers
  MaxOrdinal        \* bound on RunLog ordinals

ASSUME DBStoreAssumption ==
  /\ NoOwner \notin Owners
  /\ EventBytes \in [Payloads -> Nat]
  /\ CheckpointBytes \in Nat
  /\ Leases \subseteq [at : Nat, duration : Nat]
  /\ Cutoffs \subseteq Nat
  /\ RowLimits \subseteq Nat \ {0}
  /\ ByteLimits \subseteq Nat \ {0}
  /\ Progress \subseteq [confirmed : Nat, pending : BOOLEAN]
  /\ Stamps \subseteq Nat
  /\ MaxTime \in Nat
  /\ MaxVersion \in Nat
  /\ MaxSequence \in Nat
  /\ MaxOrdinal \in Nat

VARIABLES
  registry,     \* run -> registry row (kind, state, compaction floor)
  heads,        \* run -> row of the runs table: version and status of the run
  checkpoints,  \* rows of the checkpoint table
  events,       \* rows of the RunLog table
  retention,    \* rows of the RunLog retention table
  nextOrdinal,  \* next value of the auto-increment RunLog ordinal
  clock         \* the database clock

tables == <<registry, heads, checkpoints, events, retention, nextOrdinal>>
vars == <<tables, clock>>

-----------------------------------------------------------------------------
(* Rows *)

Live == {"running", "interrupted"}
\* "completed" stands for the four terminal statuses, which the code treats alike
Status == Live \cup {"completed"}
Terminal(status) == status \notin Live

\* The registry row of a run; kind "none" codes that there is no row.  Only the
\* purge queue reads "updated", so the model keeps it for purging rows alone.
RegistryRow ==
  [kind : {"none", "journal", "workflow"}, state : {"none", "active", "purging", "purged"},
   floor : Nat, updated : Nat]
NoRegistry == [kind |-> "none", state |-> "none", floor |-> 0, updated |-> 0]

\* The head of a run; version 0 codes that there is no row.
HeadRow == [version : Nat, status : Status, updated : Nat]
NoHead == [version |-> 0, status |-> "completed", updated |-> 0]

CheckpointRow ==
  [run : Runs, version : Nat \ {0}, identity : Identities, status : Status,
   owner : Owners \cup {NoOwner}, claim : Nat, lease : Nat,
   confirmed : Nat, pending : BOOLEAN, updated : Nat]

\* "claim" is the fence the row was inserted under, 0 for a plain Append; the
\* code does not store it, and only the properties read it.
EventRow ==
  [run : Runs, sequence : Nat \ {0}, ordinal : Nat \ {0}, payload : Payloads, claim : Nat]

RetentionRow == [run : Runs, ordinal : Nat \ {0}, appendedAt : Nat]

-----------------------------------------------------------------------------
(* Reads *)

CheckpointsOf(r) == {c \in checkpoints : c.run = r}
EventsOf(r) == {e \in events : e.run = r}
RetentionOf(r) == {x \in retention : x.run = r}

HasHead(r) == heads[r].version # 0
ActiveWorkflow(r) == registry[r].kind = "workflow" /\ registry[r].state = "active"

\* loadCheckpoint: the row with the highest version
NewestOf(C) == CHOOSE c \in C : \A d \in C : d.version <= c.version
Latest(r) == NewestOf(CheckpointsOf(r))

Later(s, t) == IF s >= t THEN s ELSE t

\* A lease is held while it expires after the database clock.
Held(c) == c.lease > clock

ResolveLeaseExpiry(lease) ==
  IF lease.duration > 0 THEN clock + lease.duration ELSE lease.at

\* List for one RunID.  A cursor below the compaction floor of a workflow run
\* is refused; otherwise the rows after it, if the registry row is active.
ListRefusedLate(r, after) == registry[r].kind = "workflow" /\ after + 1 < registry[r].floor
ListRefused(r, after) == registry[r].kind = "workflow" /\ after < registry[r].floor
ListRows(r, after) ==
  IF registry[r].state = "active" THEN {e \in EventsOf(r) : e.sequence > after} ELSE {}

-----------------------------------------------------------------------------
(* Init *)

Init ==
  /\ registry = [r \in Runs |-> NoRegistry]
  /\ heads = [r \in Runs |-> NoHead]
  /\ checkpoints = {}
  /\ events = {}
  /\ retention = {}
  /\ nextOrdinal = 1
  /\ clock = 0

Tick ==
  /\ clock < MaxTime
  /\ clock' = clock + 1
  /\ UNCHANGED tables

-----------------------------------------------------------------------------
(* Registry: insert if absent, then lock and check *)

Ensured(r, kind) ==
  IF registry[r].kind = "none"
  THEN [NoRegistry EXCEPT !.kind = kind, !.state = "active"]
  ELSE registry[r]

\* (mutants) a retired run is let through; a journal may become a workflow
EnsureRetiredAllowed(r, kind) ==
  \/ Ensured(r, kind).kind = kind
  \/ kind = "journal" /\ Ensured(r, kind).kind = "workflow"
EnsureAnyKindAllowed(r, kind) == Ensured(r, kind).state = "active"

\* A plain Append may join a workflow run; a journal run is never promoted.
EnsureAllowed(r, kind) ==
  /\ Ensured(r, kind).state = "active"
  /\ \/ Ensured(r, kind).kind = kind
     \/ kind = "journal" /\ Ensured(r, kind).kind = "workflow"

-----------------------------------------------------------------------------
(* Checkpoints *)

HeadOf(c) == [version |-> c.version, status |-> c.status, updated |-> c.updated]

\* Create: version one, running.  An explicit expiry is stored as supplied; a
\* duration is resolved on the database clock and must lie in the future.
Create(r, identity, owner, lease, stamp) ==
  LET expiry == ResolveLeaseExpiry(lease)
      row == [run |-> r, version |-> 1, identity |-> identity, status |-> "running",
              owner |-> owner, claim |-> IF owner = NoOwner THEN 0 ELSE 1,
              lease |-> expiry, confirmed |-> 0, pending |-> FALSE, updated |-> stamp]
  IN  /\ EnsureAllowed(r, "workflow")
      /\ lease.duration > 0 => expiry > clock
      /\ \A c \in CheckpointsOf(r) : c.version # 1
      /\ ~HasHead(r)
      /\ registry' = [registry EXCEPT ![r] = Ensured(r, "workflow")]
      /\ checkpoints' = checkpoints \cup {row}
      /\ heads' = [heads EXCEPT ![r] = HeadOf(row)]
      /\ UNCHANGED <<events, retention, nextOrdinal, clock>>

\* (mutant) the head stays behind
AdvanceCheckpointOnly(row, prior) ==
  /\ row.version <= MaxVersion
  /\ \A c \in CheckpointsOf(row.run) : c.version # row.version
  /\ heads[row.run].version = prior
  /\ checkpoints' = checkpoints \cup {row}
  /\ UNCHANGED <<registry, heads, events, retention, nextOrdinal, clock>>

\* advanceCheckpoint: insert the next version and move the head from the prior
\* one; a duplicate row or a moved head rolls the transaction back.
AdvanceCheckpoint(row, prior) ==
  /\ row.version <= MaxVersion
  /\ \A c \in CheckpointsOf(row.run) : c.version # row.version
  /\ heads[row.run].version = prior
  /\ checkpoints' = checkpoints \cup {row}
  /\ heads' = [heads EXCEPT ![row.run] = HeadOf(row)]
  /\ UNCHANGED <<registry, events, retention, nextOrdinal, clock>>

\* Claim by owner, from its copy base of the run's checkpoint.
Claim(r, base, owner, claim, identity, lease, stamp) ==
  LET current == Latest(r)
      expiry == ResolveLeaseExpiry(lease)
  IN  /\ HasHead(r)
      /\ expiry > clock
      /\ current.version = base.version
      /\ current.status \in Live
      /\ identity = current.identity
      /\ ~Held(current)
      /\ claim = current.claim + 1
      /\ AdvanceCheckpoint(
           [base EXCEPT !.version = base.version + 1, !.identity = identity,
                        !.status = "running", !.owner = owner, !.claim = claim,
                        !.lease = expiry, !.updated = stamp],
           base.version)

\* (mutants) the claim, or the expiry, is not looked at
HoldsFenceByOwner(r, owner, claim) ==
  /\ HasHead(r)
  /\ Latest(r).status = "running"
  /\ Latest(r).owner = owner
  /\ Held(Latest(r))
HoldsFenceExpired(r, owner, claim) ==
  /\ HasHead(r)
  /\ Latest(r).status = "running"
  /\ Latest(r).owner = owner
  /\ Latest(r).claim = claim

\* The lease conditions RenewLease and AppendFenced share.
HoldsFence(r, owner, claim) ==
  /\ HasHead(r)
  /\ Latest(r).status = "running"
  /\ Latest(r).owner = owner
  /\ Latest(r).claim = claim
  /\ Held(Latest(r))

\* RenewLease rewrites the latest row in place; it never shortens a lease.
RenewLease(r, owner, claim, lease) ==
  LET current == Latest(r)
      expiry == ResolveLeaseExpiry(lease)
  IN  /\ HoldsFence(r, owner, claim)
      /\ expiry > clock
      /\ expiry > current.lease
      /\ checkpoints' = (checkpoints \ {current}) \cup {[current EXCEPT !.lease = expiry]}
      /\ UNCHANGED <<registry, heads, events, retention, nextOrdinal, clock>>

\* (mutant) any owner that shows the current claim is accepted
WriteClaimAccepted(current, owner, claim) ==
  /\ claim = current.claim
  /\ current.owner = NoOwner \/ Held(current)

\* prepareCheckpointWriteLease accepts the write of owner under claim.
WriteLeaseAccepted(current, owner, claim) ==
  /\ claim = current.claim
  /\ owner = NoOwner \/ owner = current.owner
  /\ current.owner = NoOwner \/ Held(current)

\* (mutant) a Save takes its TTL as it comes
WriteLeaseShortening(current, owner, lease) ==
  IF current.owner = NoOwner \/ owner = NoOwner \/ lease.duration = 0
  THEN lease.at ELSE clock + lease.duration

\* The expiry the new row carries: a release or an ownerless write keeps the
\* supplied one, an owner's write never shortens the current lease.
WriteLease(current, owner, lease) ==
  IF current.owner = NoOwner \/ owner = NoOwner
  THEN IF owner = current.owner THEN Later(current.lease, lease.at) ELSE lease.at
  ELSE IF lease.duration > 0
       THEN Later(current.lease, clock + lease.duration)
       ELSE current.lease

\* Save and Finish: base is the caller's copy of the checkpoint.
Write(r, base, owner, identity, status, lease, progress, stamp) ==
  LET current == Latest(r)
  IN  /\ HasHead(r)
      /\ identity = current.identity
      /\ WriteLeaseAccepted(current, owner, base.claim)
      /\ current.version = base.version
      /\ ~Terminal(current.status)
      /\ AdvanceCheckpoint(
           [base EXCEPT !.version = base.version + 1, !.identity = identity,
                        !.status = status, !.owner = owner,
                        !.lease = WriteLease(current, owner, lease),
                        !.confirmed = progress.confirmed, !.pending = progress.pending,
                        !.updated = stamp],
           base.version)

-----------------------------------------------------------------------------
(* RunLog *)

\* appendRunLog: insert unless (run, sequence) exists; an equal payload is an
\* idempotent success that restores a missing retention row, and a different
\* one is a conflict that rolls the transaction back.
AppendRunLog(r, sequence, payload, claim) ==
  \/ /\ nextOrdinal <= MaxOrdinal
     /\ \A e \in EventsOf(r) : e.sequence # sequence
     /\ events' = events \cup
          {[run |-> r, sequence |-> sequence, ordinal |-> nextOrdinal,
            payload |-> payload, claim |-> claim]}
     /\ retention' = retention \cup
          {[run |-> r, ordinal |-> nextOrdinal, appendedAt |-> clock]}
     /\ nextOrdinal' = nextOrdinal + 1
  \/ \E e \in EventsOf(r) :
       /\ e.sequence = sequence
       /\ e.payload = payload
       /\ retention' = IF \E x \in retention : x.ordinal = e.ordinal
                       THEN retention
                       ELSE retention \cup
                              {[run |-> r, ordinal |-> e.ordinal, appendedAt |-> clock]}
       /\ UNCHANGED <<events, nextOrdinal>>

\* (mutant) the compaction floor is not looked at
AppendPlainLate(r, sequence, payload) ==
  /\ EnsureAllowed(r, "journal")
  /\ registry' = [registry EXCEPT ![r] = Ensured(r, "journal")]
  /\ AppendRunLog(r, sequence, payload, 0)
  /\ UNCHANGED <<heads, checkpoints, clock>>

\* Append (named apart from Sequences' Append), for a journal of its own or
\* beside a workflow's checkpointer.
AppendPlain(r, sequence, payload) ==
  /\ EnsureAllowed(r, "journal")
  /\ sequence > Ensured(r, "journal").floor
  /\ registry' = [registry EXCEPT ![r] = Ensured(r, "journal")]
  /\ AppendRunLog(r, sequence, payload, 0)
  /\ UNCHANGED <<heads, checkpoints, clock>>

\* AppendFenced validates the lease and appends in one transaction.
AppendFenced(r, owner, claim, sequence, payload) ==
  /\ EnsureAllowed(r, "workflow")
  /\ sequence > Ensured(r, "workflow").floor
  /\ HoldsFence(r, owner, claim)
  /\ registry' = [registry EXCEPT ![r] = Ensured(r, "workflow")]
  /\ AppendRunLog(r, sequence, payload, claim)
  /\ UNCHANGED <<heads, checkpoints, clock>>

-----------------------------------------------------------------------------
(* Retention *)

BytesOf(e) == EventBytes[e.payload]

\* The rows a budget admits: in the order of key, the longest prefix that has
\* at most rowLimit rows and at most byteLimit bytes.
WithinBudget(S, Key(_), Size(_), rowLimit, byteLimit) ==
  LET upTo(c) == {d \in S : Key(d) <= Key(c)}
  IN  {c \in S : /\ Cardinality(upTo(c)) <= rowLimit
                 /\ MapThenSumSet(Size, upTo(c)) <= byteLimit}

EventSequence(e) == e.sequence
CheckpointVersion(c) == c.version
CheckpointSize(c) == CheckpointBytes

EventsWithin(r, rows, bytes) ==
  WithinBudget(EventsOf(r), EventSequence, BytesOf, rows, bytes)
\* (mutant) the checkpoints are deleted without a limit
CheckpointsWithoutLimit(r, rows, bytes) == CheckpointsOf(r)
CheckpointsWithin(r, rows, bytes) ==
  WithinBudget(CheckpointsOf(r), CheckpointVersion, CheckpointSize, rows, bytes)

\* (mutant) the retention rows stay
RetentionKept(E) == retention
WithoutRetention(E) ==
  {x \in retention : \A e \in E : e.ordinal # x.ordinal}

\* enrollTerminalRun: retire a terminal run older than before; from here on its
\* registry row refuses every append, claim and re-creation.
Enrollable(r, before) ==
  /\ ActiveWorkflow(r)
  /\ HasHead(r)
  /\ heads[r] = HeadOf(Latest(r))
  /\ Terminal(Latest(r).status)
  /\ heads[r].updated < before

EnrollTerminalRun(r, before, stamp) ==
  /\ Enrollable(r, before)
  /\ registry' = [registry EXCEPT ![r].state = "purging", ![r].updated = stamp]
  /\ heads' = [heads EXCEPT ![r] = NoHead]
  /\ UNCHANGED <<checkpoints, events, retention, nextOrdinal, clock>>

\* deletePurgingHistory: one bounded transaction, RunLog rows before checkpoint
\* rows; the transaction that empties the history leaves the tombstone.
DeletePurgingHistory(r, rows, bytes) ==
  LET E == EventsWithin(r, rows, bytes)
      rowsLeft == rows - Cardinality(E)
      bytesLeft == bytes - MapThenSumSet(BytesOf, E)
      C == IF rowsLeft > 0 /\ bytesLeft > 0
           THEN CheckpointsWithin(r, rowsLeft, bytesLeft) ELSE {}
  IN  /\ registry[r].kind = "workflow"
      /\ registry[r].state = "purging"
      /\ events' = events \ E
      /\ retention' = WithoutRetention(E)
      /\ checkpoints' = checkpoints \ C
      /\ registry' = IF E = EventsOf(r) /\ C = CheckpointsOf(r)
                     THEN [registry EXCEPT ![r].state = "purged"]
                     ELSE registry
      /\ UNCHANGED <<heads, nextOrdinal, clock>>

\* The transaction of PurgeRunLog for one run, over the ordinals its earlier
\* select found; a journal left without events loses its registry row.
EligibleRetentionOfAll(r, ordinals, before) ==  \* (mutant) whatever was selected
  {x \in RetentionOf(r) : x.appendedAt < before}
EligibleRetention(r, ordinals, before) ==
  {x \in RetentionOf(r) : x.ordinal \in ordinals /\ x.appendedAt < before}

JournalPurgeable(r, ordinals, before) ==
  /\ registry[r].kind = "journal"
  /\ registry[r].state = "active"
  /\ EligibleRetention(r, ordinals, before) # {}

PurgeJournalEvents(r, ordinals, before) ==
  LET eligible == EligibleRetention(r, ordinals, before)
      purged == {e \in EventsOf(r) : \E x \in eligible : x.ordinal = e.ordinal}
  IN  /\ JournalPurgeable(r, ordinals, before)
      /\ retention' = {y \in retention : \A x \in eligible : x.ordinal # y.ordinal}
      /\ events' = events \ purged
      /\ registry' = IF purged = EventsOf(r)
                     THEN [registry EXCEPT ![r] = NoRegistry]
                     ELSE registry
      /\ UNCHANGED <<heads, checkpoints, nextOrdinal, clock>>

\* contiguousConfirmedCandidates over confirmedRunLogCandidates: the events
\* after the floor that are confirmed, have no sequence gap below them, are old
\* enough and fit the limits, in sequence order.
UnconfirmedCandidates(r, limit) ==  \* (mutant) the confirmed sequence is not looked at
  LET above == {e \in EventsOf(r) : registry[r].floor < e.sequence}
  IN  {e \in above : Cardinality({d \in above : d.sequence <= e.sequence}) <= limit}
ConfirmedCandidates(r, limit) ==
  LET confirmed == {e \in EventsOf(r) :
                      /\ registry[r].floor < e.sequence
                      /\ e.sequence <= Latest(r).confirmed
                      /\ \E x \in RetentionOf(r) : x.ordinal = e.ordinal}
  IN  {e \in confirmed : Cardinality({d \in confirmed : d.sequence <= e.sequence}) <= limit}

\* The longest prefix of the candidates that is old enough and fits the bytes.
ContiguousPrefix(r, before, limit, bytes) ==
  LET candidates == ConfirmedCandidates(r, limit)
      upTo(e) == {d \in candidates : d.sequence <= e.sequence}
      old(e) == \A x \in RetentionOf(r) : x.ordinal = e.ordinal => x.appendedAt < before
  IN  {e \in candidates :
         /\ \A s \in (registry[r].floor + 1)..e.sequence : \E d \in upTo(e) : d.sequence = s
         /\ \A d \in upTo(e) : old(d) /\ MapThenSumSet(BytesOf, upTo(d)) <= bytes}

\* The scan errs, and deletes nothing, if it reaches a candidate whose sequence
\* is not the next one; it stops before that when the byte budget is spent.
GapMet(r, selected, limit, bytes) ==
  /\ MapThenSumSet(BytesOf, selected) < bytes
  /\ \E c \in ConfirmedCandidates(r, limit) \ selected :
       /\ c.sequence # registry[r].floor + Cardinality(selected) + 1
       /\ \A d \in ConfirmedCandidates(r, limit) : d.sequence < c.sequence => d \in selected

\* PurgeConfirmedRunLog: one transaction that deletes a confirmed prefix of a
\* live run and raises the floor to the last sequence it deleted.
PurgeConfirmedRunLog(r, before, limit, bytes) ==
  LET selected == ContiguousPrefix(r, before, limit, bytes)
  IN  /\ ActiveWorkflow(r)
      /\ HasHead(r)
      /\ heads[r] = HeadOf(Latest(r))
      /\ Latest(r).status \in Live
      /\ ~Latest(r).pending
      /\ Latest(r).confirmed > registry[r].floor
      /\ ~GapMet(r, selected, limit, bytes)
      /\ \E last \in selected :
           /\ \A e \in selected : e.sequence <= last.sequence
           /\ registry' = [registry EXCEPT ![r].floor = last.sequence]
      /\ retention' = WithoutRetention(selected)
      /\ events' = events \ selected
      /\ UNCHANGED <<heads, checkpoints, nextOrdinal, clock>>

-----------------------------------------------------------------------------
(* What may happen next *)

\* The workflow runtime confirms a sequence only once every record up to it was
\* accepted by AppendFenced or Append, and never confirms less than the copy it
\* writes from did (assumptions on the caller).
Acknowledged(r, confirmed) ==
  \A s \in 1..confirmed : s <= registry[r].floor \/ \E e \in EventsOf(r) : e.sequence = s

\* Calls of workers, current or stale.
WorkerNext ==
  \E r \in Runs :
    \/ \E identity \in Identities, owner \in Owners \cup {NoOwner}, lease \in Leases,
          stamp \in Stamps :
         Create(r, identity, owner, lease, stamp)
    \/ \E base \in CheckpointsOf(r), owner \in Owners, claim \in 1..MaxVersion,
          identity \in Identities, lease \in Leases, stamp \in Stamps :
         Claim(r, base, owner, claim, identity, lease, stamp)
    \/ \E owner \in Owners, claim \in 1..MaxVersion, lease \in Leases :
         RenewLease(r, owner, claim, lease)
    \/ \E base \in CheckpointsOf(r) :
         \E owner \in Owners \cup {NoOwner}, identity \in Identities, status \in Status,
            lease \in Leases, progress \in Progress, stamp \in Stamps :
           /\ base.confirmed <= progress.confirmed
           /\ Acknowledged(r, progress.confirmed)
           /\ Write(r, base, owner, identity, status, lease, progress, stamp)
    \/ \E sequence \in 1..MaxSequence, payload \in Payloads :
         AppendPlain(r, sequence, payload)
    \/ \E owner \in Owners, claim \in 1..MaxVersion,
          sequence \in 1..MaxSequence, payload \in Payloads :
         AppendFenced(r, owner, claim, sequence, payload)

\* Retention calls.  Their transactions are enough here; PurgeCalls has the
\* calls that are made of several of them, so a deletion may have any part of a
\* call's budget left.
LeftOf(limits) == UNION {1..n : n \in limits}

PurgeNext ==
  \E r \in Runs, before \in Cutoffs :
    \/ \E stamp \in Stamps : EnrollTerminalRun(r, before, stamp)
    \/ \E rows \in LeftOf(RowLimits), bytes \in LeftOf(ByteLimits) :
         DeletePurgingHistory(r, rows, bytes)
    \/ \E rows \in RowLimits, bytes \in ByteLimits :
         PurgeConfirmedRunLog(r, before, rows, bytes)
    \/ \E ordinals \in SUBSET {x.ordinal : x \in RetentionOf(r)} :
         PurgeJournalEvents(r, ordinals, before)

Next == Tick \/ WorkerNext \/ PurgeNext

Spec == Init /\ [][Next]_vars

-----------------------------------------------------------------------------
(* Properties *)

\* Every table holds rows of its row type.
TypeOK ==
  /\ registry \in [Runs -> RegistryRow]
  /\ heads \in [Runs -> HeadRow]
  /\ checkpoints \subseteq CheckpointRow
  /\ events \subseteq EventRow
  /\ retention \subseteq RetentionRow
  /\ nextOrdinal \in Nat \ {0}
  /\ clock \in Nat

\* The runs table, which retention selects by, never drifts from the checkpoint
\* history, which recovery reads: an active workflow run has a head, the head
\* is its latest checkpoint, and the history is 1, 2, ... without a gap; any
\* other run has no head (advanceCheckpoint, enrollTerminalRun).
HeadMirrorsHistory ==
  \A r \in Runs :
    /\ HasHead(r) <=> ActiveWorkflow(r)
    /\ HasHead(r) => /\ {c.version : c \in CheckpointsOf(r)} = 1..heads[r].version
                     /\ heads[r] = HeadOf(Latest(r))
                     /\ \A c, d \in CheckpointsOf(r) : c.version = d.version => c = d

\* A claim has one owner for good.  Once it has been released nobody owns it
\* again, and a later version never carries an earlier claim, nor another
\* identity: a worker with a changed topology cannot take a run over (Claim,
\* write, sameCheckpointIdentity).
OneOwnerPerClaim ==
  \A c, d \in checkpoints :
    c.run = d.run /\ c.version < d.version =>
      /\ c.identity = d.identity
      /\ c.claim <= d.claim
      /\ c.claim = d.claim => d.owner \in {c.owner, NoOwner}

\* "host clock drift cannot create two database-valid owners": an expiry that
\* was ever granted to an owner is a promise.  Until it passes, the owner keeps
\* its claim and at least that lease, unless the claim was released.
LeaseIsAPromise ==
  \A r \in Runs : \A c \in CheckpointsOf(r) :
    /\ HasHead(r)
    /\ c.owner # NoOwner
    /\ Held(c)
    /\ \A d \in CheckpointsOf(r) : d.claim = c.claim => d.owner # NoOwner
    => Latest(r).claim = c.claim /\ Latest(r).owner = c.owner /\ Latest(r).lease >= c.lease

\* The fence: in append order, the fenced records of a run were accepted under
\* claims that never go back, so no record of a superseded owner follows one of
\* its successor, and none is ahead of the run's own claim (AppendFenced).
FencedInClaimOrder ==
  \A r \in Runs :
    /\ \A e, f \in EventsOf(r) :
         e.claim # 0 /\ f.claim # 0 /\ e.ordinal < f.ordinal => e.claim <= f.claim
    /\ HasHead(r) => \A e \in EventsOf(r) : e.claim <= Latest(r).claim

\* A cursor that List accepts never skips a confirmed record: whatever was
\* compacted or purged, every confirmed sequence after it is returned.
ListHasNoSilentGap ==
  \A r \in Runs : HasHead(r) =>
    \A after \in 0..MaxSequence : ~ListRefused(r, after) =>
      \A s \in (after + 1)..Latest(r).confirmed :
        \E e \in ListRows(r, after) : e.sequence = s

\* Compaction is final: no record at or below the floor exists, however late
\* its append arrives, and the floor never passes what the run confirmed.
CompactedStaysCompacted ==
  \A r \in Runs :
    /\ \A e \in EventsOf(r) : e.sequence > registry[r].floor
    /\ HasHead(r) => registry[r].floor <= Latest(r).confirmed

\* The rows v2MetadataGap looks for never appear while the Store runs: every
\* record has its retention row and the other way round, ordinals and
\* (run, sequence) identify records, and no record or checkpoint is left
\* without a registry row that can still purge it.
MetadataIsComplete ==
  /\ {[run |-> e.run, ordinal |-> e.ordinal] : e \in events}
       = {[run |-> x.run, ordinal |-> x.ordinal] : x \in retention}
  /\ \A e, f \in events :
       e.ordinal = f.ordinal \/ (e.run = f.run /\ e.sequence = f.sequence) => e = f
  /\ \A x, y \in retention : x.ordinal = y.ordinal => x = y
  /\ \A e \in events : registry[e.run].state \in {"active", "purging"}
  /\ \A c \in checkpoints :
       registry[c.run].kind = "workflow" /\ registry[c.run].state \in {"active", "purging"}

\* A refused lease is lost for good.  If a Save under claim would be refused,
\* no later step (renewal, release, claim, clock) makes it acceptable again: a
\* worker that saw ErrCheckpointLeaseLost never writes under that claim.
LeaseLost(r, owner, claim) ==
  /\ HasHead(r)
  /\ claim <= Latest(r).claim
  /\ ~WriteLeaseAccepted(Latest(r), owner, claim)
LeaseLossIsFinal ==
  [][\A r \in Runs, owner \in Owners, claim \in 0..MaxVersion :
       LeaseLost(r, owner, claim) => ~HasHead(r)' \/ LeaseLost(r, owner, claim)']_vars

\* A run that finished, and a run that was retired, gets no new checkpoint and
\* no new fenced record; a retired run only loses history, and its tombstone
\* stays, so its RunID never comes back.
Retired(r) == registry[r].state \in {"purging", "purged"}
Ended(r) == Retired(r) \/ (HasHead(r) /\ Terminal(Latest(r).status))
EndedRunsOnlyShrink ==
  [][\A r \in Runs :
       /\ Ended(r) => /\ Ended(r)'
                      /\ CheckpointsOf(r)' \subseteq CheckpointsOf(r)
                      /\ {e \in EventsOf(r)' : e.claim # 0} \subseteq EventsOf(r)
       /\ Retired(r) => /\ EventsOf(r)' \subseteq EventsOf(r)
                        /\ RetentionOf(r)' \subseteq RetentionOf(r)
       /\ registry[r].state = "purged" => UNCHANGED registry[r]]_vars

\* Retention never costs a run that can still be resumed: while a run is live,
\* a step removes no checkpoint of it, and of its records only a confirmed
\* prefix that the floor then accounts for.
LiveHistoryIsKept ==
  [][\A r \in Runs :
       HasHead(r) /\ Latest(r).status \in Live =>
         /\ {c.version : c \in CheckpointsOf(r)} \subseteq {c.version : c \in CheckpointsOf(r)'}
         /\ \A e \in EventsOf(r) :
              \/ e \in EventsOf(r)'
              \/ e.sequence <= Latest(r).confirmed /\ e.sequence <= registry[r].floor']_vars

-----------------------------------------------------------------------------
(* The inductive invariant behind the theorems of DBStoreProofs *)

\* Primary and unique keys, and the auto-increment column.
KeysAreUnique ==
  /\ \A c, d \in checkpoints : c.run = d.run /\ c.version = d.version => c = d
  /\ \A e, f \in events :
       e.ordinal = f.ordinal \/ (e.run = f.run /\ e.sequence = f.sequence) => e = f
  /\ \A x, y \in retention : x.ordinal = y.ordinal => x = y
  /\ \A e \in events : e.ordinal < nextOrdinal
  /\ \A x \in retention : x.ordinal < nextOrdinal

\* What the registry row of a run says about its other rows.
RegistryAccounts ==
  \A r \in Runs :
    /\ HasHead(r) <=> ActiveWorkflow(r)
    /\ registry[r].kind = "none" <=> registry[r].state = "none"
    /\ registry[r].kind = "journal" => registry[r].state = "active"
    /\ registry[r].kind # "workflow" => CheckpointsOf(r) = {}
    /\ registry[r].kind = "none" => EventsOf(r) = {}
    /\ registry[r].state = "purged" => EventsOf(r) = {} /\ CheckpointsOf(r) = {}

\* The head is the newest checkpoint and no older version is missing.
HeadIsNewest ==
  \A r \in Runs : HasHead(r) =>
    /\ \E c \in CheckpointsOf(r) :
         heads[r] = HeadOf(c) /\ \A d \in CheckpointsOf(r) : d.version <= c.version
    /\ \A v \in 1..heads[r].version : \E c \in CheckpointsOf(r) : c.version = v

\* Every record was accepted under a claim its run has reached.
EventsWithinClaim ==
  \A e \in events : HasHead(e.run) => e.claim <= Latest(e.run).claim

\* No record of a run follows one with a higher claim, plain records aside.
ClaimsInOrdinalOrder ==
  \A e, f \in events :
    e.run = f.run /\ e.claim # 0 /\ f.claim # 0 /\ e.ordinal < f.ordinal => e.claim <= f.claim

StoreInv ==
  /\ TypeOK
  /\ KeysAreUnique
  /\ RegistryAccounts
  /\ HeadIsNewest
  /\ OneOwnerPerClaim
  /\ EventsWithinClaim
  /\ ClaimsInOrdinalOrder

\* Every record has its retention row and every retention row its record.
RowsMatch ==
  /\ \A e \in events : \E x \in retention : x.run = e.run /\ x.ordinal = e.ordinal
  /\ \A x \in retention : \E e \in events : e.run = x.run /\ e.ordinal = x.ordinal

\* Only a workflow run is ever compacted.
FloorsAreOfWorkflows ==
  \A r \in Runs : registry[r].kind # "workflow" => registry[r].floor = 0

\* What the latest checkpoint confirms is in the log or was compacted.
ConfirmedIsKept ==
  \A r \in Runs : HasHead(r) => Acknowledged(r, Latest(r).confirmed)

RetentionInv ==
  /\ StoreInv
  /\ RowsMatch
  /\ FloorsAreOfWorkflows
  /\ ConfirmedIsKept
  /\ CompactedStaysCompacted

=============================================================================
