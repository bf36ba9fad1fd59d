--------------------------- MODULE DBStoreProofs ---------------------------
(***************************************************************************)
(* Proofs about DBStore and its retention calls, for every value of the    *)
(* constants: StoreInv, which is about rows, claims and fences;            *)
(* RetentionInv, which adds what retention keeps; what one step can do to  *)
(* the life of one run, and that it is what DurableRun allows; and the     *)
(* accounts of PurgeTerminalRuns and PurgeRunLog.                          *)
(***************************************************************************)
EXTENDS StoreAsRuns, PurgeCalls, Recursion

-----------------------------------------------------------------------------
(* The newest checkpoint *)

\* A row of a set of checkpoints that no other row exceeds, in a set where
\* versions are a key, is the row loadCheckpoint returns.
LEMMA NewestOfKey ==
  ASSUME NEW C, NEW c \in C,
         \A d \in C : d.version \in Nat,
         \A d \in C : d.version <= c.version,
         \A d, e \in C : d.version = e.version => d = e
  PROVE  NewestOf(C) = c
<1>1. NewestOf(C) \in C /\ \A d \in C : d.version <= NewestOf(C).version
  BY DEF NewestOf
<1>2. NewestOf(C).version = c.version
  BY <1>1
<1> QED
  BY <1>1, <1>2

\* The latest checkpoint of a run that has a head.
LEMMA LatestOfHead ==
  ASSUME TypeOK, KeysAreUnique, HeadIsNewest, NEW r \in Runs, HasHead(r)
  PROVE  /\ Latest(r) \in checkpoints
         /\ Latest(r) \in CheckpointRow
         /\ Latest(r).run = r
         /\ heads[r] = HeadOf(Latest(r))
         /\ Latest(r).version = heads[r].version
         /\ \A d \in CheckpointsOf(r) : d.version <= Latest(r).version
<1>1. PICK c \in CheckpointsOf(r) :
        heads[r] = HeadOf(c) /\ \A d \in CheckpointsOf(r) : d.version <= c.version
  BY DEF HeadIsNewest
<1>2. \A d \in CheckpointsOf(r) : d.version \in Nat
  BY DEF TypeOK, CheckpointRow, CheckpointsOf
<1>3. \A d, e \in CheckpointsOf(r) : d.version = e.version => d = e
  BY DEF KeysAreUnique, CheckpointsOf
<1>4. Latest(r) = c
  BY <1>1, <1>2, <1>3, NewestOfKey DEF Latest
<1> QED
  BY <1>1, <1>4 DEF TypeOK, CheckpointsOf, HeadOf

\* The caller's copy that survives the version check is the latest row.
LEMMA BaseIsLatest ==
  ASSUME TypeOK, KeysAreUnique, HeadIsNewest, NEW r \in Runs, HasHead(r),
         NEW base \in CheckpointsOf(r), Latest(r).version = base.version
  PROVE  base = Latest(r)
  BY LatestOfHead DEF KeysAreUnique, CheckpointsOf

-----------------------------------------------------------------------------
(* What the steps do to the checkpoint rows *)

\* The lease of a row is a time.
LEMMA LeaseTypes ==
  ASSUME TypeOK, NEW lease \in Leases
  PROVE  /\ ResolveLeaseExpiry(lease) \in Nat
         /\ \A current \in CheckpointRow, owner \in Owners \cup {NoOwner} :
              WriteLease(current, owner, lease) \in Nat
  BY DBStoreAssumption
  DEF TypeOK, ResolveLeaseExpiry, WriteLease, Later, CheckpointRow

\* The inserted version is the latest one; the other runs keep theirs.
LEMMA AdvanceMakesLatest ==
  ASSUME StoreInv, NEW r \in Runs, HasHead(r),
         NEW row \in CheckpointRow, row.run = r,
         row.version = heads[r].version + 1,
         AdvanceCheckpoint(row, heads[r].version)
  PROVE  /\ CheckpointsOf(r)' = CheckpointsOf(r) \cup {row}
         /\ Latest(r)' = row
         /\ \A q \in Runs : q # r => /\ CheckpointsOf(q)' = CheckpointsOf(q)
                                   /\ Latest(q)' = Latest(q)
         /\ \A q \in Runs : HasHead(q)' <=> HasHead(q)
<1> USE DEF StoreInv
<1>0. /\ Latest(r).version = heads[r].version
      /\ \A d \in CheckpointsOf(r) : d.version <= Latest(r).version
  BY LatestOfHead
<1>1. /\ checkpoints' = checkpoints \cup {row}
      /\ heads' = [heads EXCEPT ![r] = HeadOf(row)]
  BY DEF AdvanceCheckpoint
<1>2. /\ CheckpointsOf(r)' = CheckpointsOf(r) \cup {row}
      /\ \A q \in Runs : q # r => CheckpointsOf(q)' = CheckpointsOf(q)
  BY <1>1 DEF CheckpointsOf
<1>3. \A d \in CheckpointsOf(r)' : d.version \in Nat /\ (d = row \/ d.version < row.version)
  BY <1>0, <1>2 DEF CheckpointsOf, TypeOK, CheckpointRow, HeadRow
<1>4. \A d, e \in CheckpointsOf(r)' : d.version = e.version => d = e
  BY <1>2, <1>3 DEF KeysAreUnique, CheckpointsOf
<1>5. \A d \in CheckpointsOf(r)' : d.version <= row.version
  BY <1>3 DEF CheckpointRow
<1>6. Latest(r)' = row
  BY <1>2, <1>3, <1>4, <1>5, NewestOfKey DEF Latest
<1>7. \A q \in Runs : q # r => Latest(q)' = Latest(q)
  BY <1>2 DEF Latest
<1>8. \A q \in Runs : HasHead(q)' <=> HasHead(q)
  BY <1>1 DEF HasHead, TypeOK, HeadOf, CheckpointRow, HeadRow
<1> QED
  BY <1>2, <1>6, <1>7, <1>8

\* Inserting the next version of a run preserves the invariant, if the new row
\* keeps the identity, does not go back to an earlier claim, and changes the
\* owner of a claim at most to nobody.
LEMMA AdvancePreservesInv ==
  ASSUME StoreInv, NEW r \in Runs, HasHead(r),
         NEW row \in CheckpointRow, row.run = r,
         row.version = heads[r].version + 1,
         row.identity = Latest(r).identity,
         Latest(r).claim <= row.claim,
         row.claim = Latest(r).claim => row.owner \in {Latest(r).owner, NoOwner},
         AdvanceCheckpoint(row, heads[r].version)
  PROVE  StoreInv'
<1> USE DEF StoreInv
<1>0. /\ Latest(r) \in CheckpointsOf(r)
      /\ Latest(r) \in CheckpointRow
      /\ Latest(r).version = heads[r].version
      /\ \A d \in CheckpointsOf(r) : d.version <= Latest(r).version
  BY LatestOfHead DEF CheckpointsOf
<1>1. /\ checkpoints' = checkpoints \cup {row}
      /\ heads' = [heads EXCEPT ![r] = HeadOf(row)]
      /\ UNCHANGED <<registry, events, retention, nextOrdinal, clock>>
  BY DEF AdvanceCheckpoint
<1>2. /\ CheckpointsOf(r)' = CheckpointsOf(r) \cup {row}
      /\ \A q \in Runs : q # r => CheckpointsOf(q)' = CheckpointsOf(q)
  BY <1>1 DEF CheckpointsOf
<1>3. \A d \in CheckpointsOf(r) : d \in checkpoints /\ d.run = r /\ d.version < row.version
  BY <1>0 DEF CheckpointsOf, TypeOK, CheckpointRow, HeadRow
<1>4. TypeOK'
  BY <1>1 DEF TypeOK, CheckpointRow, HeadRow, HeadOf
<1>5. KeysAreUnique'
  BY <1>1, <1>3 DEF KeysAreUnique, CheckpointsOf, TypeOK, CheckpointRow
<1>6. \A q \in Runs : HasHead(q)' <=> HasHead(q)
  BY <1>1 DEF HasHead, TypeOK, HeadOf, CheckpointRow, HeadRow
<1>7. RegistryAccounts'
  <2>1. registry[r].kind = "workflow" /\ registry[r].state = "active"
    BY DEF RegistryAccounts, ActiveWorkflow
  <2> QED
    BY <1>1, <1>2, <1>6, <2>1 DEF RegistryAccounts, ActiveWorkflow, EventsOf
<1>8. HeadIsNewest'
  <2> SUFFICES ASSUME NEW q \in Runs, HasHead(q)'
      PROVE /\ \E c \in CheckpointsOf(q)' :
                 heads'[q] = HeadOf(c) /\ \A d \in CheckpointsOf(q)' : d.version <= c.version
            /\ \A v \in 1..heads'[q].version : \E c \in CheckpointsOf(q)' : c.version = v
    BY DEF HeadIsNewest, HeadOf, CheckpointsOf
  <2>1. CASE q # r
    BY <2>1, <1>1, <1>2, <1>6 DEF HeadIsNewest, HeadOf, TypeOK
  <2>2. CASE q = r
    <3>1. heads'[r] = HeadOf(row) /\ heads'[r].version = row.version
      BY <1>1 DEF TypeOK, HeadOf
    <3>2. \A d \in CheckpointsOf(r)' : d.version <= row.version
      BY <1>2, <1>3 DEF TypeOK, CheckpointRow, CheckpointsOf
    <3>3. \A v \in 1..row.version : v \in 1..heads[r].version \/ v = row.version
      BY DEF TypeOK, HeadRow
    <3>4. \A v \in 1..heads[r].version : \E c \in CheckpointsOf(r) : c.version = v
      BY DEF HeadIsNewest
    <3> QED
      BY <2>2, <3>1, <3>2, <3>3, <3>4, <1>2
  <2> QED
    BY <2>1, <2>2
<1>9. OneOwnerPerClaim'
  <2>1. \A d \in CheckpointsOf(r) :
          /\ d.identity = row.identity
          /\ d.claim <= row.claim
          /\ d.claim = row.claim => row.owner \in {d.owner, NoOwner}
    <3> SUFFICES ASSUME NEW d \in CheckpointsOf(r)
        PROVE /\ d.identity = row.identity
              /\ d.claim <= row.claim
              /\ d.claim = row.claim => row.owner \in {d.owner, NoOwner}
      OBVIOUS
    <3>1. d = Latest(r) \/ d.version < Latest(r).version
      BY <1>0, <1>3 DEF KeysAreUnique, CheckpointsOf, TypeOK, CheckpointRow
    <3>2. d.version < Latest(r).version =>
            /\ d.identity = Latest(r).identity
            /\ d.claim <= Latest(r).claim
            /\ d.claim = Latest(r).claim => Latest(r).owner \in {d.owner, NoOwner}
      BY <1>0, <1>3 DEF OneOwnerPerClaim, CheckpointsOf
    <3>3. d.claim \in Nat /\ row.claim \in Nat /\ Latest(r).claim \in Nat
      BY <1>0, <1>3 DEF TypeOK, CheckpointRow
    <3> QED
      BY <3>1, <3>2, <3>3
  <2>2. \A d \in checkpoints : d.run = r => d \in CheckpointsOf(r)
    BY DEF CheckpointsOf
  <2>3. \A d \in CheckpointsOf(r) : ~(row.version < d.version)
    BY <1>3 DEF TypeOK, CheckpointRow
  <2>4. ~(row.version < row.version)
    BY DEF CheckpointRow
  <2>5. SUFFICES ASSUME NEW c \in checkpoints', NEW d \in checkpoints',
                        c.run = d.run, c.version < d.version
                 PROVE  /\ c.identity = d.identity
                        /\ c.claim <= d.claim
                        /\ c.claim = d.claim => d.owner \in {c.owner, NoOwner}
    BY DEF OneOwnerPerClaim
  <2>6. c \in checkpoints /\ (d \in checkpoints \/ d = row)
    BY <1>1, <2>2, <2>3, <2>4, <2>5
  <2>7. CASE d \in checkpoints
    BY <2>5, <2>6, <2>7 DEF OneOwnerPerClaim
  <2>8. CASE d = row
    BY <2>1, <2>2, <2>5, <2>6, <2>8
  <2> QED
    BY <2>6, <2>7, <2>8
<1>10. EventsWithinClaim'
  <2>1. Latest(r)' = row /\ \A q \in Runs : q # r => Latest(q)' = Latest(q)
    BY AdvanceMakesLatest
  <2> SUFFICES ASSUME NEW e \in events, HasHead(e.run)'
      PROVE e.claim <= Latest(e.run)'.claim
    BY <1>1 DEF EventsWithinClaim
  <2>3. e.run \in Runs /\ e.claim \in Nat /\ e.claim <= Latest(e.run).claim
    BY <1>6 DEF EventsWithinClaim, TypeOK, EventRow
  <2>4. Latest(r).claim \in Nat /\ row.claim \in Nat
    BY <1>0 DEF CheckpointRow
  <2> QED
    BY <2>1, <2>3, <2>4
<1>11. ClaimsInOrdinalOrder'
  BY <1>1 DEF ClaimsInOrdinalOrder
<1> QED
  BY <1>4, <1>5, <1>7, <1>8, <1>9, <1>10, <1>11

-----------------------------------------------------------------------------
(* The steps on checkpoints *)

\* Create only ever starts a run that has no row at all.
LEMMA CreatePreservesInv ==
  ASSUME StoreInv, NEW r \in Runs, NEW identity \in Identities,
         NEW owner \in Owners \cup {NoOwner}, NEW lease \in Leases, NEW stamp \in Stamps,
         Create(r, identity, owner, lease, stamp)
  PROVE  StoreInv'
<1> DEFINE row == [run |-> r, version |-> 1, identity |-> identity, status |-> "running",
                   owner |-> owner, claim |-> IF owner = NoOwner THEN 0 ELSE 1,
                   lease |-> ResolveLeaseExpiry(lease), confirmed |-> 0,
                   pending |-> FALSE, updated |-> stamp]
<1> USE DEF StoreInv
<1>1. /\ checkpoints' = checkpoints \cup {row}
      /\ heads' = [heads EXCEPT ![r] = HeadOf(row)]
      /\ registry' = [registry EXCEPT ![r] = Ensured(r, "workflow")]
      /\ UNCHANGED <<events, retention, nextOrdinal, clock>>
  BY DEF Create
<1>2. registry[r].kind = "none"
  BY DEF Create, EnsureAllowed, Ensured, RegistryAccounts, ActiveWorkflow
<1>3. CheckpointsOf(r) = {} /\ EventsOf(r) = {}
  BY <1>2 DEF RegistryAccounts
<1>4. /\ CheckpointsOf(r)' = {row}
      /\ \A q \in Runs : q # r => CheckpointsOf(q)' = CheckpointsOf(q)
  BY <1>1, <1>3 DEF CheckpointsOf
<1>5. /\ row \in CheckpointRow
      /\ row.run = r
      /\ row.version = 1
  BY LeaseTypes, DBStoreAssumption DEF CheckpointRow, Status, Live
<1>6. \A c \in checkpoints : c.run # r
  BY <1>3 DEF CheckpointsOf
<1>7. /\ registry'[r].kind = "workflow"
      /\ registry'[r].state = "active"
      /\ registry'[r].floor = 0
      /\ registry'[r].updated = 0
      /\ registry'[r] \in RegistryRow
      /\ registry' \in [Runs -> RegistryRow]
      /\ \A q \in Runs : q # r => registry'[q] = registry[q]
  BY <1>1, <1>2 DEF TypeOK, Ensured, RegistryRow, NoRegistry
<1>8. /\ heads'[r] = HeadOf(row)
      /\ heads'[r].version = 1
      /\ heads' \in [Runs -> HeadRow]
      /\ \A q \in Runs : q # r => heads'[q] = heads[q]
  BY <1>1, <1>5 DEF TypeOK, HeadOf, HeadRow, CheckpointRow
<1> HIDE DEF row
<1>9. TypeOK'
  BY <1>1, <1>5, <1>7, <1>8 DEF TypeOK
<1>10. KeysAreUnique'
  BY <1>1, <1>5, <1>6 DEF KeysAreUnique
<1>11. RegistryAccounts'
  BY <1>1, <1>4, <1>7, <1>8 DEF RegistryAccounts, ActiveWorkflow, HasHead, EventsOf
<1>12. HeadIsNewest'
  <2> SUFFICES ASSUME NEW q \in Runs, HasHead(q)'
      PROVE /\ \E c \in CheckpointsOf(q)' :
                 heads'[q] = HeadOf(c) /\ \A d \in CheckpointsOf(q)' : d.version <= c.version
            /\ \A v \in 1..heads'[q].version : \E c \in CheckpointsOf(q)' : c.version = v
    BY DEF HeadIsNewest, HeadOf, CheckpointsOf
  <2>1. CASE q # r
    BY <2>1, <1>4, <1>8 DEF HeadIsNewest, HasHead
  <2>2. CASE q = r
    BY <2>2, <1>4, <1>5, <1>8
  <2> QED
    BY <2>1, <2>2
<1>13. OneOwnerPerClaim'
  <2> SUFFICES ASSUME NEW c \in checkpoints', NEW d \in checkpoints',
                      c.run = d.run, c.version < d.version
               PROVE  /\ c.identity = d.identity
                      /\ c.claim <= d.claim
                      /\ c.claim = d.claim => d.owner \in {c.owner, NoOwner}
    BY DEF OneOwnerPerClaim
  <2>1. c # row /\ d # row
    BY <1>1, <1>5, <1>6
  <2> QED
    BY <2>1, <1>1 DEF OneOwnerPerClaim
<1>14. EventsWithinClaim'
  <2> SUFFICES ASSUME NEW e \in events, HasHead(e.run)'
      PROVE e.claim <= Latest(e.run)'.claim
    BY <1>1 DEF EventsWithinClaim
  <2>1. e.run \in Runs /\ e.run # r
    BY <1>3 DEF TypeOK, EventRow, EventsOf
  <2>2. HasHead(e.run) /\ Latest(e.run)' = Latest(e.run)
    BY <2>1, <1>4, <1>8 DEF HasHead, Latest
  <2> QED
    BY <2>2 DEF EventsWithinClaim
<1>15. ClaimsInOrdinalOrder'
  BY <1>1 DEF ClaimsInOrdinalOrder
<1> QED
  BY <1>9, <1>10, <1>11, <1>12, <1>13, <1>14, <1>15

\* Claim inserts the next version under the next claim, over a lease that has
\* passed.
LEMMA ClaimInsertsRow ==
  ASSUME StoreInv, NEW r \in Runs, NEW base \in CheckpointsOf(r), NEW owner \in Owners,
         NEW claim \in Nat, NEW identity \in Identities, NEW lease \in Leases,
         NEW stamp \in Stamps,
         Claim(r, base, owner, claim, identity, lease, stamp)
  PROVE  /\ HasHead(r)
         /\ ~Held(Latest(r))
         /\ \E row \in CheckpointRow :
              /\ row.run = r
              /\ row.version = heads[r].version + 1
              /\ row.identity = Latest(r).identity
              /\ row.claim = Latest(r).claim + 1
              /\ row.status = "running"
              /\ row.confirmed = Latest(r).confirmed
              /\ AdvanceCheckpoint(row, heads[r].version)
<1> DEFINE row == [base EXCEPT !.version = base.version + 1, !.identity = identity,
                               !.status = "running", !.owner = owner, !.claim = claim,
                               !.lease = ResolveLeaseExpiry(lease), !.updated = stamp]
<1>1. HasHead(r) /\ base = Latest(r) /\ Latest(r) \in CheckpointRow
      /\ Latest(r).version = heads[r].version /\ Latest(r).run = r
  BY BaseIsLatest, LatestOfHead DEF StoreInv, Claim
<1>2. /\ identity = base.identity
      /\ claim = base.claim + 1
      /\ ~Held(Latest(r))
      /\ AdvanceCheckpoint(row, base.version)
  BY <1>1 DEF Claim
<1>3. row \in CheckpointRow
  <2>1. ResolveLeaseExpiry(lease) \in Nat /\ stamp \in Nat /\ "running" \in Status
    BY LeaseTypes, DBStoreAssumption DEF StoreInv, Status, Live
  <2>2. base \in CheckpointRow /\ base.version + 1 \in Nat \ {0}
    BY <1>1 DEF CheckpointRow
  <2> QED
    BY <2>1, <2>2 DEF CheckpointRow
<1>4. /\ row.run = r
      /\ row.version = heads[r].version + 1
      /\ row.identity = Latest(r).identity
      /\ row.claim = Latest(r).claim + 1
      /\ row.status = "running"
      /\ row.confirmed = Latest(r).confirmed
  BY <1>1, <1>2 DEF CheckpointRow
<1> HIDE DEF row
<1> QED
  BY <1>1, <1>2, <1>3, <1>4

\* Claim preserves the invariant.
LEMMA ClaimPreservesInv ==
  ASSUME StoreInv, NEW r \in Runs, NEW base \in CheckpointsOf(r), NEW owner \in Owners,
         NEW claim \in Nat, NEW identity \in Identities, NEW lease \in Leases,
         NEW stamp \in Stamps,
         Claim(r, base, owner, claim, identity, lease, stamp)
  PROVE  StoreInv'
<1>1. HasHead(r) /\ Latest(r) \in CheckpointRow
  BY ClaimInsertsRow, LatestOfHead DEF StoreInv
<1>2. PICK row \in CheckpointRow :
        /\ row.run = r
        /\ row.version = heads[r].version + 1
        /\ row.identity = Latest(r).identity
        /\ row.claim = Latest(r).claim + 1
        /\ AdvanceCheckpoint(row, heads[r].version)
  BY ClaimInsertsRow
<1>3. Latest(r).claim <= row.claim /\ Latest(r).claim # row.claim
  BY <1>1, <1>2 DEF CheckpointRow
<1> QED
  BY <1>1, <1>2, <1>3, AdvancePreservesInv

\* Save and Finish insert the next version under the same claim, for the same
\* owner or for nobody.
LEMMA WriteInsertsRow ==
  ASSUME StoreInv, NEW r \in Runs, NEW base \in CheckpointsOf(r),
         NEW owner \in Owners \cup {NoOwner}, NEW identity \in Identities,
         NEW status \in Status, NEW lease \in Leases, NEW progress \in Progress,
         NEW stamp \in Stamps,
         Write(r, base, owner, identity, status, lease, progress, stamp)
  PROVE  /\ HasHead(r)
         /\ base = Latest(r)
         /\ WriteLeaseAccepted(Latest(r), owner, Latest(r).claim)
         /\ owner \in {Latest(r).owner, NoOwner}
         /\ \E row \in CheckpointRow :
              /\ row.run = r
              /\ row.version = heads[r].version + 1
              /\ row.identity = Latest(r).identity
              /\ row.claim = Latest(r).claim
              /\ row.owner = owner
              /\ row.lease = WriteLease(Latest(r), owner, lease)
              /\ row.confirmed = progress.confirmed
              /\ AdvanceCheckpoint(row, heads[r].version)
<1> DEFINE row == [base EXCEPT !.version = base.version + 1, !.identity = identity,
                               !.status = status, !.owner = owner,
                               !.lease = WriteLease(Latest(r), owner, lease),
                               !.confirmed = progress.confirmed,
                               !.pending = progress.pending, !.updated = stamp]
<1>1. HasHead(r) /\ base = Latest(r) /\ Latest(r) \in CheckpointRow
      /\ Latest(r).version = heads[r].version /\ Latest(r).run = r
  BY BaseIsLatest, LatestOfHead DEF StoreInv, Write
<1>2. /\ identity = base.identity
      /\ WriteLeaseAccepted(base, owner, base.claim)
      /\ owner \in {base.owner, NoOwner}
      /\ AdvanceCheckpoint(row, base.version)
  BY <1>1 DEF Write, WriteLeaseAccepted
<1>3. progress.confirmed \in Nat /\ progress.pending \in BOOLEAN /\ stamp \in Nat
  BY DBStoreAssumption
<1>4. WriteLease(Latest(r), owner, lease) \in Nat
  BY <1>1, LeaseTypes DEF StoreInv
<1>5. row \in CheckpointRow
  <2>1. base \in CheckpointRow /\ base.version + 1 \in Nat \ {0}
    BY <1>1 DEF CheckpointRow
  <2> QED
    BY <1>3, <1>4, <2>1 DEF CheckpointRow
<1>6. /\ row.run = r
      /\ row.version = heads[r].version + 1
      /\ row.identity = Latest(r).identity
      /\ row.claim = Latest(r).claim
      /\ row.owner = owner
      /\ row.lease = WriteLease(Latest(r), owner, lease)
      /\ row.confirmed = progress.confirmed
  BY <1>1, <1>2 DEF CheckpointRow
<1> HIDE DEF row
<1> QED
  BY <1>1, <1>2, <1>5, <1>6

\* Save and Finish preserve the invariant.
LEMMA WritePreservesInv ==
  ASSUME StoreInv, NEW r \in Runs, NEW base \in CheckpointsOf(r),
         NEW owner \in Owners \cup {NoOwner}, NEW identity \in Identities,
         NEW status \in Status, NEW lease \in Leases, NEW progress \in Progress,
         NEW stamp \in Stamps,
         Write(r, base, owner, identity, status, lease, progress, stamp)
  PROVE  StoreInv'
<1>1. /\ HasHead(r) /\ Latest(r) \in CheckpointRow
      /\ owner \in {Latest(r).owner, NoOwner}
  BY WriteInsertsRow, LatestOfHead DEF StoreInv
<1>2. PICK row \in CheckpointRow :
        /\ row.run = r
        /\ row.version = heads[r].version + 1
        /\ row.identity = Latest(r).identity
        /\ row.claim = Latest(r).claim
        /\ row.owner = owner
        /\ AdvanceCheckpoint(row, heads[r].version)
  BY WriteInsertsRow
<1>3. Latest(r).claim <= row.claim
  BY <1>1, <1>2 DEF CheckpointRow
<1> QED
  BY <1>1, <1>2, <1>3, AdvancePreservesInv

\* RenewLease rewrites the lease of the latest row and nothing else.
LEMMA RenewPreservesInv ==
  ASSUME StoreInv, NEW r \in Runs, NEW owner \in Owners, NEW claim \in Nat,
         NEW lease \in Leases, RenewLease(r, owner, claim, lease)
  PROVE  StoreInv'
<1> DEFINE current == Latest(r)
           renewed == [current EXCEPT !.lease = ResolveLeaseExpiry(lease)]
<1> USE DEF StoreInv
<1>1. /\ checkpoints' = (checkpoints \ {current}) \cup {renewed}
      /\ HasHead(r)
      /\ UNCHANGED <<registry, heads, events, retention, nextOrdinal, clock>>
  BY DEF RenewLease, HoldsFence
<1>2. /\ current \in checkpoints /\ current \in CheckpointRow /\ current.run = r
      /\ current \in CheckpointsOf(r)
      /\ heads[r] = HeadOf(current)
      /\ \A d \in CheckpointsOf(r) : d.version <= current.version
  BY <1>1, LatestOfHead DEF CheckpointsOf
<1>3. renewed \in CheckpointRow
  BY <1>2, LeaseTypes DEF CheckpointRow
<1>4. /\ renewed.run = r
      /\ renewed.version = current.version
      /\ renewed.identity = current.identity
      /\ renewed.claim = current.claim
      /\ renewed.owner = current.owner
      /\ HeadOf(renewed) = HeadOf(current)
  BY <1>2 DEF CheckpointRow, HeadOf
<1> HIDE DEF current, renewed
<1>5. /\ CheckpointsOf(r)' = (CheckpointsOf(r) \ {current}) \cup {renewed}
      /\ \A q \in Runs : q # r => CheckpointsOf(q)' = CheckpointsOf(q)
  BY <1>1, <1>2, <1>4 DEF CheckpointsOf
<1>6. TypeOK'
  BY <1>1, <1>3 DEF TypeOK
<1>7. KeysAreUnique'
  BY <1>1, <1>2, <1>4 DEF KeysAreUnique
<1>8. RegistryAccounts'
  <2>1. registry[r].kind = "workflow" /\ registry[r].state = "active"
    BY <1>1 DEF RegistryAccounts, ActiveWorkflow
  <2> QED
    BY <1>1, <1>5, <2>1 DEF RegistryAccounts, ActiveWorkflow, HasHead, EventsOf
<1>9. HeadIsNewest'
  <2> SUFFICES ASSUME NEW q \in Runs, HasHead(q)'
      PROVE /\ \E c \in CheckpointsOf(q)' :
                 heads'[q] = HeadOf(c) /\ \A d \in CheckpointsOf(q)' : d.version <= c.version
            /\ \A v \in 1..heads'[q].version : \E c \in CheckpointsOf(q)' : c.version = v
    BY DEF HeadIsNewest, HeadOf, CheckpointsOf
  <2>1. CASE q # r
    BY <2>1, <1>1, <1>5 DEF HeadIsNewest, HasHead
  <2>2. CASE q = r
    <3>1. \A v \in 1..heads[r].version : \E c \in CheckpointsOf(r) : c.version = v
      BY <1>1 DEF HeadIsNewest
    <3>2. \A v \in 1..heads[r].version : \E c \in CheckpointsOf(r)' : c.version = v
      BY <3>1, <1>4, <1>5
    <3>3. \A d \in CheckpointsOf(r)' : d.version <= renewed.version
      BY <1>2, <1>4, <1>5
    <3> QED
      BY <2>2, <3>2, <3>3, <1>1, <1>2, <1>4, <1>5
  <2> QED
    BY <2>1, <2>2
<1>10. OneOwnerPerClaim'
  <2> SUFFICES ASSUME NEW c \in checkpoints', NEW d \in checkpoints',
                      c.run = d.run, c.version < d.version
               PROVE  /\ c.identity = d.identity
                      /\ c.claim <= d.claim
                      /\ c.claim = d.claim => d.owner \in {c.owner, NoOwner}
    BY DEF OneOwnerPerClaim
  <2>1. PICK old \in checkpoints :
          /\ c.run = old.run /\ c.version = old.version /\ c.identity = old.identity
          /\ c.claim = old.claim /\ c.owner = old.owner
    BY <1>1, <1>2, <1>4
  <2>2. PICK new \in checkpoints :
          /\ d.run = new.run /\ d.version = new.version /\ d.identity = new.identity
          /\ d.claim = new.claim /\ d.owner = new.owner
    BY <1>1, <1>2, <1>4
  <2> QED
    BY <2>1, <2>2 DEF OneOwnerPerClaim
<1>11. EventsWithinClaim'
  <2> SUFFICES ASSUME NEW e \in events, HasHead(e.run)'
      PROVE e.claim <= Latest(e.run)'.claim
    BY <1>1 DEF EventsWithinClaim
  <2>1. e.run \in Runs /\ HasHead(e.run) /\ e.claim <= Latest(e.run).claim
    BY <1>1 DEF EventsWithinClaim, TypeOK, EventRow, HasHead
  <2>2. CASE e.run # r
    BY <2>1, <2>2, <1>5 DEF Latest
  <2>3. CASE e.run = r
    <3>1. \A d \in CheckpointsOf(r)' : d.version \in Nat /\ d.version <= renewed.version
      BY <1>2, <1>3, <1>4, <1>5 DEF CheckpointsOf, TypeOK, CheckpointRow
    <3>2. \A c, d \in CheckpointsOf(r)' : c.version = d.version => c = d
      BY <1>7 DEF KeysAreUnique, CheckpointsOf
    <3>3. renewed \in CheckpointsOf(r)'
      BY <1>5
    <3>4. Latest(r)' = renewed
      BY <3>1, <3>2, <3>3, NewestOfKey DEF Latest
    <3> QED
      BY <2>1, <2>3, <3>4, <1>4 DEF current
  <2> QED
    BY <2>2, <2>3
<1>12. ClaimsInOrdinalOrder'
  BY <1>1 DEF ClaimsInOrdinalOrder
<1> QED
  BY <1>6, <1>7, <1>8, <1>9, <1>10, <1>11, <1>12

\* RenewLease replaces the latest row by one with a later expiry.
LEMMA RenewRewritesLatest ==
  ASSUME StoreInv, NEW r \in Runs, NEW owner \in Owners,
         NEW claim \in Nat, NEW lease \in Leases, RenewLease(r, owner, claim, lease)
  PROVE  \E renewed \in CheckpointRow :
           /\ renewed.claim = Latest(r).claim
           /\ renewed.owner = Latest(r).owner
           /\ renewed.confirmed = Latest(r).confirmed
           /\ renewed.version = Latest(r).version
           /\ renewed.status = Latest(r).status
           /\ HeadOf(renewed) = HeadOf(Latest(r))
           /\ renewed.lease > Latest(r).lease
           /\ CheckpointsOf(r)' = (CheckpointsOf(r) \ {Latest(r)}) \cup {renewed}
           /\ Latest(r)' = renewed
           /\ \A q \in Runs : q # r => /\ CheckpointsOf(q)' = CheckpointsOf(q)
                                     /\ Latest(q)' = Latest(q)
<1> DEFINE current == Latest(r)
           renewed == [current EXCEPT !.lease = ResolveLeaseExpiry(lease)]
<1> USE DEF StoreInv
<1>1. /\ checkpoints' = (checkpoints \ {current}) \cup {renewed}
      /\ HasHead(r)
      /\ ResolveLeaseExpiry(lease) > current.lease
  BY DEF RenewLease, HoldsFence
<1>2. /\ current \in CheckpointsOf(r) /\ current \in CheckpointRow /\ current.run = r
      /\ \A d \in CheckpointsOf(r) : d.version <= current.version
  BY <1>1, LatestOfHead DEF CheckpointsOf
<1>3. renewed \in CheckpointRow
  BY <1>2, LeaseTypes DEF CheckpointRow
<1>4. /\ renewed.run = r
      /\ renewed.version = current.version
      /\ renewed.claim = current.claim
      /\ renewed.owner = current.owner
      /\ renewed.confirmed = current.confirmed
      /\ renewed.status = current.status
      /\ renewed.lease > current.lease
      /\ HeadOf(renewed) = HeadOf(current)
  BY <1>1, <1>2 DEF CheckpointRow, HeadOf
<1> HIDE DEF renewed
<1>5. /\ CheckpointsOf(r)' = (CheckpointsOf(r) \ {current}) \cup {renewed}
      /\ \A q \in Runs : q # r => CheckpointsOf(q)' = CheckpointsOf(q)
  BY <1>1, <1>2, <1>4 DEF CheckpointsOf
<1>6. Latest(r)' = renewed
  <2> HIDE DEF current
  <2>1. \A d \in CheckpointsOf(r)' : d.version \in Nat /\ d.version <= renewed.version
    BY <1>2, <1>3, <1>4, <1>5 DEF CheckpointsOf, TypeOK, CheckpointRow
  <2>2. \A c, d \in CheckpointsOf(r)' : c.version = d.version => c = d
    BY <1>2, <1>4, <1>5 DEF KeysAreUnique, CheckpointsOf
  <2> QED
    BY <1>5, <2>1, <2>2, NewestOfKey DEF Latest
<1>7. \A q \in Runs : q # r => Latest(q)' = Latest(q)
  BY <1>5 DEF Latest
<1> QED
  BY <1>3, <1>4, <1>5, <1>6, <1>7

-----------------------------------------------------------------------------
(* The steps on the RunLog *)

\* Every step that leaves heads and checkpoints alone leaves the latest
\* checkpoint of every run alone.
LEMMA LatestUnchanged ==
  ASSUME UNCHANGED <<heads, checkpoints>>, NEW r \in Runs
  PROVE  /\ HasHead(r)' <=> HasHead(r)
         /\ CheckpointsOf(r)' = CheckpointsOf(r)
         /\ Latest(r)' = Latest(r)
  BY DEF HasHead, CheckpointsOf, Latest

\* An append inserts at most one record, at the end of the ordinals, under no
\* claim or under the latest one.
LEMMA AppendPreservesInv ==
  ASSUME StoreInv, NEW r \in Runs, NEW kind \in {"journal", "workflow"},
         NEW sequence \in Nat \ {0}, NEW payload \in Payloads, NEW claim \in Nat,
         EnsureAllowed(r, kind),
         kind = "workflow" => HasHead(r),
         claim # 0 => HasHead(r) /\ claim = Latest(r).claim,
         registry' = [registry EXCEPT ![r] = Ensured(r, kind)],
         AppendRunLog(r, sequence, payload, claim),
         UNCHANGED <<heads, checkpoints, clock>>
  PROVE  StoreInv'
<1> DEFINE new == [run |-> r, sequence |-> sequence, ordinal |-> nextOrdinal,
                   payload |-> payload, claim |-> claim]
<1> USE DEF StoreInv
<1>1. \A q \in Runs : /\ HasHead(q)' <=> HasHead(q)
                      /\ CheckpointsOf(q)' = CheckpointsOf(q)
                      /\ Latest(q)' = Latest(q)
  BY LatestUnchanged
<1>2. new \in EventRow /\ new.run = r /\ new.sequence = sequence
      /\ new.ordinal = nextOrdinal /\ new.claim = claim
  BY DEF EventRow, TypeOK
<1>3. \/ /\ events' = events \cup {new}
         /\ \A e \in EventsOf(r) : e.sequence # sequence
         /\ retention' = retention \cup
              {[run |-> r, ordinal |-> nextOrdinal, appendedAt |-> clock]}
         /\ nextOrdinal' = nextOrdinal + 1
      \/ /\ events' = events
         /\ nextOrdinal' = nextOrdinal
         /\ EventsOf(r) # {}
         /\ \/ retention' = retention
            \/ \E e \in EventsOf(r) :
                 /\ retention' = retention \cup
                      {[run |-> r, ordinal |-> e.ordinal, appendedAt |-> clock]}
                 /\ \A x \in retention : x.ordinal # e.ordinal
  BY DEF AppendRunLog
<1> HIDE DEF new
<1>4. /\ registry' \in [Runs -> RegistryRow]
      /\ \A q \in Runs : q # r => registry'[q] = registry[q]
      /\ registry[r].kind # "none" => registry'[r] = registry[r]
      /\ registry[r].kind = "none" =>
           kind = "journal" /\ registry'[r].kind = "journal" /\ registry'[r].state = "active"
  BY DEF TypeOK, Ensured, RegistryRow, NoRegistry, RegistryAccounts, ActiveWorkflow
<1>5. registry[r].kind # "none" => registry[r].state = "active"
  BY DEF EnsureAllowed, Ensured
<1>6. TypeOK'
  <2>1. retention' \subseteq RetentionRow
    BY <1>3 DEF TypeOK, RetentionRow, EventsOf, EventRow
  <2> QED
    BY <2>1, <1>2, <1>3, <1>4 DEF TypeOK
<1>7. KeysAreUnique'
  <2>1. \A e, f \in events' :
          e.ordinal = f.ordinal \/ (e.run = f.run /\ e.sequence = f.sequence) => e = f
    BY <1>2, <1>3 DEF KeysAreUnique, EventsOf, TypeOK
  <2>2. \A x, y \in retention' : x.ordinal = y.ordinal => x = y
    BY <1>3 DEF KeysAreUnique, TypeOK
  <2>3. \A e \in events' : e.ordinal < nextOrdinal'
    BY <1>2, <1>3 DEF KeysAreUnique, TypeOK, EventRow
  <2>4. \A x \in retention' : x.ordinal < nextOrdinal'
    BY <1>3 DEF KeysAreUnique, TypeOK, RetentionRow, EventsOf
  <2> QED
    BY <2>1, <2>2, <2>3, <2>4 DEF KeysAreUnique
<1>8. \A q \in Runs : q # r => EventsOf(q)' = EventsOf(q)
  BY <1>2, <1>3 DEF EventsOf
<1>9. RegistryAccounts'
  BY <1>1, <1>4, <1>5, <1>8 DEF RegistryAccounts, ActiveWorkflow
<1>10. HeadIsNewest' /\ OneOwnerPerClaim'
  BY <1>1 DEF HeadIsNewest, OneOwnerPerClaim
<1>11. \A e \in events' : e \in events \/ (e = new /\ claim = e.claim)
  BY <1>2, <1>3
<1>12. EventsWithinClaim'
  <2> SUFFICES ASSUME NEW e \in events', HasHead(e.run)'
      PROVE e.claim <= Latest(e.run)'.claim
    BY DEF EventsWithinClaim
  <2>1. CASE e \in events
    BY <2>1, <1>1 DEF EventsWithinClaim, TypeOK, EventRow
  <2>2. CASE e = new
    BY <2>2, <1>1, <1>2, LatestOfHead DEF CheckpointRow
  <2> QED
    BY <2>1, <2>2, <1>11
<1>13. ClaimsInOrdinalOrder'
  <2> SUFFICES ASSUME NEW e \in events', NEW f \in events', e.run = f.run,
                      e.claim # 0, f.claim # 0, e.ordinal < f.ordinal
               PROVE  e.claim <= f.claim
    BY DEF ClaimsInOrdinalOrder
  <2>1. e \in events
    BY <1>2, <1>3, <1>11 DEF KeysAreUnique, TypeOK, EventRow
  <2>2. CASE f \in events
    BY <2>1, <2>2 DEF ClaimsInOrdinalOrder
  <2>3. CASE f = new
    BY <2>1, <2>3, <1>2 DEF EventsWithinClaim
  <2> QED
    BY <2>2, <2>3, <1>11
<1> QED
  BY <1>6, <1>7, <1>9, <1>10, <1>12, <1>13

-----------------------------------------------------------------------------
(* The steps of retention *)

\* Deleting rows keeps what is said of the rows that are left.
LEMMA DeletingKeepsRows ==
  ASSUME StoreInv, events' \subseteq events, retention' \subseteq retention,
         checkpoints' \subseteq checkpoints, nextOrdinal' = nextOrdinal
  PROVE  /\ KeysAreUnique' /\ OneOwnerPerClaim' /\ ClaimsInOrdinalOrder'
         /\ events' \subseteq EventRow /\ retention' \subseteq RetentionRow
         /\ checkpoints' \subseteq CheckpointRow /\ nextOrdinal' \in Nat \ {0}
<1>1. KeysAreUnique'
  BY DEF StoreInv, KeysAreUnique
<1>2. OneOwnerPerClaim' /\ ClaimsInOrdinalOrder'
  BY DEF StoreInv, OneOwnerPerClaim, ClaimsInOrdinalOrder
<1> QED
  BY <1>1, <1>2 DEF StoreInv, TypeOK

\* Enrolling a run takes its head away and leaves its rows.
LEMMA EnrollPreservesInv ==
  ASSUME StoreInv, NEW r \in Runs, NEW before, NEW stamp \in Stamps,
         EnrollTerminalRun(r, before, stamp)
  PROVE  StoreInv'
<1> USE DEF StoreInv
<1>1. /\ heads' = [heads EXCEPT ![r] = NoHead]
      /\ registry' = [registry EXCEPT ![r].state = "purging", ![r].updated = stamp]
      /\ UNCHANGED <<checkpoints, events, retention, nextOrdinal, clock>>
      /\ registry[r].kind = "workflow"
  BY DEF EnrollTerminalRun, Enrollable, ActiveWorkflow
<1>2. /\ registry' \in [Runs -> RegistryRow]
      /\ registry'[r].kind = "workflow" /\ registry'[r].state = "purging"
      /\ \A q \in Runs : q # r => registry'[q] = registry[q]
  BY <1>1, DBStoreAssumption DEF TypeOK, RegistryRow
<1>3. /\ heads' \in [Runs -> HeadRow]
      /\ ~HasHead(r)'
      /\ \A q \in Runs : q # r => heads'[q] = heads[q] /\ (HasHead(q)' <=> HasHead(q))
  BY <1>1 DEF TypeOK, HeadRow, NoHead, Status, HasHead
<1>4. TypeOK'
  BY <1>1, <1>2, <1>3 DEF TypeOK
<1>5. \A q \in Runs : CheckpointsOf(q)' = CheckpointsOf(q) /\ EventsOf(q)' = EventsOf(q)
                      /\ Latest(q)' = Latest(q)
  BY <1>1 DEF CheckpointsOf, EventsOf, Latest
<1>6. RegistryAccounts'
  BY <1>2, <1>3, <1>5 DEF RegistryAccounts, ActiveWorkflow
<1>7. HeadIsNewest'
  BY <1>3, <1>5 DEF HeadIsNewest
<1>8. EventsWithinClaim'
  BY <1>1, <1>3, <1>5 DEF EventsWithinClaim, TypeOK, EventRow
<1> QED
  BY <1>1, <1>4, <1>6, <1>7, <1>8, DeletingKeepsRows

\* A purging run has no head, so its rows may go in any order.
LEMMA DeletePreservesInv ==
  ASSUME StoreInv, NEW r \in Runs, NEW rows, NEW bytes, DeletePurgingHistory(r, rows, bytes)
  PROVE  StoreInv'
<1> USE DEF StoreInv
<1>1. PICK E \in SUBSET EventsOf(r), C \in SUBSET CheckpointsOf(r) :
        /\ events' = events \ E
        /\ retention' = WithoutRetention(E)
        /\ checkpoints' = checkpoints \ C
        /\ registry' = IF E = EventsOf(r) /\ C = CheckpointsOf(r)
                       THEN [registry EXCEPT ![r].state = "purged"]
                       ELSE registry
  <2>1. EventsWithin(r, rows, bytes) \subseteq EventsOf(r)
    BY DEF EventsWithin, WithinBudget
  <2>2. \A n, m : CheckpointsWithin(r, n, m) \subseteq CheckpointsOf(r)
    BY DEF CheckpointsWithin, WithinBudget
  <2> QED
    BY <2>1, <2>2 DEF DeletePurgingHistory
<1>2. /\ registry[r].kind = "workflow" /\ registry[r].state = "purging"
      /\ UNCHANGED <<heads, nextOrdinal, clock>>
  BY DEF DeletePurgingHistory
<1>3. ~HasHead(r)
  BY <1>2 DEF RegistryAccounts, ActiveWorkflow
<1>4. /\ registry' \in [Runs -> RegistryRow]
      /\ \A q \in Runs : q # r => registry'[q] = registry[q]
      /\ registry'[r].kind = "workflow" /\ registry'[r].state \in {"purging", "purged"}
      /\ registry'[r].state = "purged" => E = EventsOf(r) /\ C = CheckpointsOf(r)
  BY <1>1, <1>2 DEF TypeOK, RegistryRow
<1>5. /\ events' \subseteq events /\ retention' \subseteq retention
      /\ checkpoints' \subseteq checkpoints
  BY <1>1 DEF WithoutRetention
<1>6. /\ EventsOf(r)' = EventsOf(r) \ E /\ CheckpointsOf(r)' = CheckpointsOf(r) \ C
      /\ \A q \in Runs : q # r => EventsOf(q)' = EventsOf(q)
                                  /\ CheckpointsOf(q)' = CheckpointsOf(q)
                                  /\ Latest(q)' = Latest(q)
  BY <1>1 DEF EventsOf, CheckpointsOf, Latest
<1>7. \A q \in Runs : HasHead(q)' <=> HasHead(q)
  BY <1>2 DEF HasHead
<1>8. TypeOK'
  BY <1>2, <1>4, <1>5, DeletingKeepsRows DEF TypeOK
<1>9. RegistryAccounts'
  BY <1>3, <1>4, <1>6, <1>7 DEF RegistryAccounts, ActiveWorkflow
<1>10. HeadIsNewest'
  BY <1>2, <1>3, <1>6, <1>7 DEF HeadIsNewest
<1>11. EventsWithinClaim'
  BY <1>3, <1>5, <1>6, <1>7 DEF EventsWithinClaim, TypeOK, EventRow
<1> QED
  BY <1>2, <1>5, <1>8, <1>9, <1>10, <1>11, DeletingKeepsRows

\* A journal run has neither head nor checkpoints.
LEMMA JournalPurgePreservesInv ==
  ASSUME StoreInv, NEW r \in Runs, NEW ordinals, NEW before,
         PurgeJournalEvents(r, ordinals, before)
  PROVE  StoreInv'
<1> USE DEF StoreInv
<1>1. PICK purged \in SUBSET EventsOf(r) :
        /\ events' = events \ purged
        /\ registry' = IF purged = EventsOf(r)
                       THEN [registry EXCEPT ![r] = NoRegistry] ELSE registry
  BY DEF PurgeJournalEvents
<1>2. /\ registry[r].kind = "journal" /\ registry[r].state = "active"
      /\ retention' \subseteq retention
      /\ UNCHANGED <<heads, checkpoints, nextOrdinal, clock>>
  BY DEF PurgeJournalEvents, JournalPurgeable
<1>3. ~HasHead(r) /\ CheckpointsOf(r) = {}
  BY <1>2 DEF RegistryAccounts, ActiveWorkflow
<1>4. /\ registry' \in [Runs -> RegistryRow]
      /\ \A q \in Runs : q # r => registry'[q] = registry[q]
      /\ \/ registry'[r] = registry[r]
         \/ registry'[r].kind = "none" /\ registry'[r].state = "none" /\ purged = EventsOf(r)
  BY <1>1 DEF TypeOK, RegistryRow, NoRegistry
<1>5. /\ EventsOf(r)' = EventsOf(r) \ purged
      /\ \A q \in Runs : q # r => EventsOf(q)' = EventsOf(q)
  BY <1>1 DEF EventsOf
<1>6. \A q \in Runs : /\ HasHead(q)' <=> HasHead(q)
                      /\ CheckpointsOf(q)' = CheckpointsOf(q)
                      /\ Latest(q)' = Latest(q)
  BY <1>2, LatestUnchanged
<1>7. TypeOK'
  BY <1>1, <1>2, <1>4, DeletingKeepsRows DEF TypeOK
<1>8. RegistryAccounts'
  BY <1>2, <1>3, <1>4, <1>5, <1>6 DEF RegistryAccounts, ActiveWorkflow
<1>9. HeadIsNewest'
  BY <1>2, <1>6 DEF HeadIsNewest
<1>10. EventsWithinClaim'
  BY <1>1, <1>6 DEF EventsWithinClaim, TypeOK, EventRow
<1> QED
  BY <1>1, <1>2, <1>7, <1>8, <1>9, <1>10, DeletingKeepsRows

\* Compaction raises the floor and removes records only.
LEMMA CompactionPreservesInv ==
  ASSUME StoreInv, NEW r \in Runs, NEW before, NEW limit, NEW bytes,
         PurgeConfirmedRunLog(r, before, limit, bytes)
  PROVE  StoreInv'
<1> USE DEF StoreInv
<1>1. PICK selected \in SUBSET EventsOf(r), last \in EventsOf(r) :
        /\ events' = events \ selected
        /\ registry' = [registry EXCEPT ![r].floor = last.sequence]
  BY DEF PurgeConfirmedRunLog, ContiguousPrefix, ConfirmedCandidates
<1>2. /\ retention' \subseteq retention
      /\ UNCHANGED <<heads, checkpoints, nextOrdinal, clock>>
      /\ ActiveWorkflow(r)
  BY DEF PurgeConfirmedRunLog, WithoutRetention
<1>3. /\ registry' \in [Runs -> RegistryRow]
      /\ \A q \in Runs : registry'[q].kind = registry[q].kind
                         /\ registry'[q].state = registry[q].state
  BY <1>1 DEF TypeOK, RegistryRow, EventsOf, EventRow
<1>4. \A q \in Runs : EventsOf(q)' \subseteq EventsOf(q)
  BY <1>1 DEF EventsOf
<1>5. \A q \in Runs : /\ HasHead(q)' <=> HasHead(q)
                      /\ CheckpointsOf(q)' = CheckpointsOf(q)
                      /\ Latest(q)' = Latest(q)
  BY <1>2, LatestUnchanged
<1>6. TypeOK'
  BY <1>1, <1>2, <1>3, DeletingKeepsRows DEF TypeOK
<1>7. RegistryAccounts'
  BY <1>3, <1>4, <1>5 DEF RegistryAccounts, ActiveWorkflow
<1>8. HeadIsNewest'
  BY <1>2, <1>5 DEF HeadIsNewest
<1>9. EventsWithinClaim'
  BY <1>1, <1>5 DEF EventsWithinClaim, TypeOK, EventRow
<1> QED
  BY <1>1, <1>2, <1>6, <1>7, <1>8, <1>9, DeletingKeepsRows

-----------------------------------------------------------------------------
(* The invariant *)

\* Empty tables satisfy the invariant.
LEMMA InitEstablishesInv == Init => StoreInv
<1> SUFFICES ASSUME Init PROVE StoreInv
  OBVIOUS
<1>1. \A r \in Runs : /\ registry[r] = NoRegistry /\ ~HasHead(r)
                      /\ CheckpointsOf(r) = {} /\ EventsOf(r) = {}
  BY DEF Init, HasHead, NoHead, CheckpointsOf, EventsOf
<1>2. TypeOK
  BY DEF Init, TypeOK, RegistryRow, NoRegistry, HeadRow, NoHead, Status
<1>3. RegistryAccounts
  BY <1>1 DEF RegistryAccounts, ActiveWorkflow, NoRegistry
<1>4. HeadIsNewest
  BY <1>1 DEF HeadIsNewest
<1> QED
  BY <1>2, <1>3, <1>4
  DEF Init, StoreInv, KeysAreUnique, OneOwnerPerClaim, EventsWithinClaim, ClaimsInOrdinalOrder

\* A step that leaves the tables alone, as the clock's do.
LEMMA TickPreservesInv ==
  ASSUME StoreInv, UNCHANGED tables, clock' \in Nat
  PROVE  StoreInv'
<1>1. TypeOK' /\ KeysAreUnique'
  BY DEF StoreInv, tables, TypeOK, KeysAreUnique
<1>2. RegistryAccounts' /\ HeadIsNewest'
  BY DEF StoreInv, tables, RegistryAccounts, HeadIsNewest, HasHead, ActiveWorkflow,
         CheckpointsOf, EventsOf
<1>3. OneOwnerPerClaim' /\ ClaimsInOrdinalOrder'
  BY DEF StoreInv, tables, OneOwnerPerClaim, ClaimsInOrdinalOrder
<1>4. EventsWithinClaim'
  BY DEF StoreInv, tables, EventsWithinClaim, HasHead, Latest, CheckpointsOf
<1> QED
  BY <1>1, <1>2, <1>3, <1>4 DEF StoreInv

\* The six calls of a worker.
WorkerCreates(r) ==
  \E identity \in Identities, owner \in Owners \cup {NoOwner}, lease \in Leases, stamp \in Stamps :
     Create(r, identity, owner, lease, stamp)

WorkerClaims(r) ==
  \E base \in CheckpointsOf(r), owner \in Owners, claim \in 1..MaxVersion, identity \in Identities,
     lease \in Leases, stamp \in Stamps :
     Claim(r, base, owner, claim, identity, lease, stamp)

WorkerRenews(r) ==
  \E owner \in Owners, claim \in 1..MaxVersion, lease \in Leases : RenewLease(r, owner, claim, lease)

WorkerWrites(r) ==
  \E base \in CheckpointsOf(r), owner \in Owners \cup {NoOwner}, identity \in Identities,
     status \in Status, lease \in Leases, progress \in Progress, stamp \in Stamps :
     Write(r, base, owner, identity, status, lease, progress, stamp)

WorkerAppendsPlain(r) ==
  \E sequence \in 1..MaxSequence, payload \in Payloads : AppendPlain(r, sequence, payload)

WorkerAppendsFenced(r) ==
  \E owner \in Owners, claim \in 1..MaxVersion, sequence \in 1..MaxSequence, payload \in Payloads :
     AppendFenced(r, owner, claim, sequence, payload)

\* A worker's step is one of them, for one run.
LEMMA WorkerMakesOneCall ==
  ASSUME WorkerNext
  PROVE  \E r \in Runs : \/ WorkerCreates(r) \/ WorkerClaims(r) \/ WorkerRenews(r)
                         \/ WorkerWrites(r) \/ WorkerAppendsPlain(r) \/ WorkerAppendsFenced(r)
BY DEF WorkerNext, WorkerCreates, WorkerClaims, WorkerRenews, WorkerWrites, WorkerAppendsPlain,
       WorkerAppendsFenced

\* None of them breaks the invariant.
LEMMA WorkerPreservesInv == StoreInv /\ WorkerNext => StoreInv'
<1> SUFFICES ASSUME StoreInv, WorkerNext PROVE StoreInv'
  OBVIOUS
<1>0. PICK r \in Runs : \/ WorkerCreates(r) \/ WorkerClaims(r) \/ WorkerRenews(r)
                        \/ WorkerWrites(r) \/ WorkerAppendsPlain(r) \/ WorkerAppendsFenced(r)
  BY WorkerMakesOneCall
<1>1. CASE WorkerCreates(r)
  BY <1>1, CreatePreservesInv DEF WorkerCreates
<1>2. CASE WorkerClaims(r)
  BY <1>2, ClaimPreservesInv, DBStoreAssumption DEF WorkerClaims
<1>3. CASE WorkerRenews(r)
  BY <1>3, RenewPreservesInv, DBStoreAssumption DEF WorkerRenews
<1>4. CASE WorkerWrites(r)
  BY <1>4, WritePreservesInv DEF WorkerWrites
<1>5. ASSUME NEW sequence \in 1..MaxSequence, NEW payload \in Payloads,
             AppendPlain(r, sequence, payload)
      PROVE  StoreInv'
  <2>1. sequence \in Nat \ {0}
    BY DBStoreAssumption
  <2>2. /\ EnsureAllowed(r, "journal")
        /\ registry' = [registry EXCEPT ![r] = Ensured(r, "journal")]
        /\ AppendRunLog(r, sequence, payload, 0)
        /\ UNCHANGED <<heads, checkpoints, clock>>
    BY <1>5 DEF AppendPlain
  <2> QED
    BY <2>1, <2>2, AppendPreservesInv
<1>6. ASSUME NEW owner \in Owners, NEW claim \in 1..MaxVersion,
             NEW sequence \in 1..MaxSequence, NEW payload \in Payloads,
             AppendFenced(r, owner, claim, sequence, payload)
      PROVE  StoreInv'
  <2>1. sequence \in Nat \ {0} /\ claim \in Nat
    BY DBStoreAssumption
  <2>2. /\ EnsureAllowed(r, "workflow")
        /\ registry' = [registry EXCEPT ![r] = Ensured(r, "workflow")]
        /\ AppendRunLog(r, sequence, payload, claim)
        /\ HasHead(r) /\ claim = Latest(r).claim
        /\ UNCHANGED <<heads, checkpoints, clock>>
    BY <1>6 DEF AppendFenced, HoldsFence
  <2> QED
    BY <2>1, <2>2, AppendPreservesInv
<1>7. CASE WorkerAppendsPlain(r)
  BY <1>5, <1>7 DEF WorkerAppendsPlain
<1>8. CASE WorkerAppendsFenced(r)
  BY <1>6, <1>8 DEF WorkerAppendsFenced
<1> QED
  BY <1>0, <1>1, <1>2, <1>3, <1>4, <1>7, <1>8

\* The four transactions of retention.
LEMMA PurgePreservesInv == StoreInv /\ PurgeNext => StoreInv'
  BY EnrollPreservesInv, DeletePreservesInv, CompactionPreservesInv, JournalPurgePreservesInv
  DEF PurgeNext

\* In every reachable state the tables are consistent: keys are unique, the head
\* is the newest checkpoint of a gapless history, a registry row accounts for
\* every other row, and claims and fences are ordered.
THEOREM StoreInvariant == Spec => []StoreInv
<1>1. Init => StoreInv
  BY InitEstablishesInv
<1>2. StoreInv /\ [Next]_vars => StoreInv'
  <2> SUFFICES ASSUME StoreInv, [Next]_vars PROVE StoreInv'
    OBVIOUS
  <2>1. CASE Tick
    BY <2>1, TickPreservesInv DEF Tick, StoreInv, TypeOK
  <2>2. CASE WorkerNext
    BY <2>2, WorkerPreservesInv
  <2>3. CASE PurgeNext
    BY <2>3, PurgePreservesInv
  <2>4. CASE UNCHANGED vars
    BY <2>4, TickPreservesInv DEF vars, StoreInv, TypeOK
  <2> QED
    BY <2>1, <2>2, <2>3, <2>4 DEF Next
<1> QED
  BY <1>1, <1>2, PTL DEF Spec

-----------------------------------------------------------------------------
(* What follows from it *)

\* Every table holds rows of its row type.
THEOREM Typed == Spec => []TypeOK
<1>1. StoreInv => TypeOK
  BY DEF StoreInv
<1> QED
  BY <1>1, StoreInvariant, PTL

\* Whatever calls and retries of whatever stale workers interleave, a claim has
\* one owner for good and a run one identity (Claim, write).
THEOREM ClaimsAreOwned == Spec => []OneOwnerPerClaim
<1>1. StoreInv => OneOwnerPerClaim
  BY DEF StoreInv
<1> QED
  BY <1>1, StoreInvariant, PTL

\* The RunLog never shows a record of a superseded owner after one of its
\* successor (AppendFenced).
THEOREM AppendsAreFenced == Spec => []FencedInClaimOrder
<1>1. StoreInv => FencedInClaimOrder
  BY DEF StoreInv, FencedInClaimOrder, ClaimsInOrdinalOrder, EventsWithinClaim, EventsOf
<1> QED
  BY <1>1, StoreInvariant, PTL

\* The runs table that retention selects by agrees with the history that
\* recovery reads (advanceCheckpoint, enrollTerminalRun).
THEOREM HeadsMirrorHistory == Spec => []HeadMirrorsHistory
<1>1. StoreInv => HeadMirrorsHistory
  <2> SUFFICES ASSUME StoreInv, NEW r \in Runs
      PROVE /\ HasHead(r) <=> ActiveWorkflow(r)
            /\ HasHead(r) => /\ {c.version : c \in CheckpointsOf(r)} = 1..heads[r].version
                             /\ heads[r] = HeadOf(Latest(r))
                             /\ \A c, d \in CheckpointsOf(r) : c.version = d.version => c = d
    BY DEF HeadMirrorsHistory
  <2>1. HasHead(r) <=> ActiveWorkflow(r)
    BY DEF StoreInv, RegistryAccounts
  <2>2. SUFFICES ASSUME HasHead(r)
        PROVE /\ {c.version : c \in CheckpointsOf(r)} = 1..heads[r].version
              /\ heads[r] = HeadOf(Latest(r))
              /\ \A c, d \in CheckpointsOf(r) : c.version = d.version => c = d
    BY <2>1
  <2>3. /\ heads[r] = HeadOf(Latest(r)) /\ heads[r].version = Latest(r).version
        /\ \A c \in CheckpointsOf(r) : c.version <= heads[r].version
    BY <2>2, LatestOfHead DEF StoreInv
  <2>4. \A c \in CheckpointsOf(r) : c.version \in 1..heads[r].version
    BY <2>3 DEF StoreInv, TypeOK, CheckpointRow, CheckpointsOf, HeadRow
  <2>5. \A v \in 1..heads[r].version : \E c \in CheckpointsOf(r) : c.version = v
    BY <2>2 DEF StoreInv, HeadIsNewest
  <2>6. \A c, d \in CheckpointsOf(r) : c.version = d.version => c = d
    BY DEF StoreInv, KeysAreUnique, CheckpointsOf
  <2> QED
    BY <2>3, <2>4, <2>5, <2>6
<1> QED
  BY <1>1, StoreInvariant, PTL

-----------------------------------------------------------------------------
(***************************************************************************)
(* A granted lease is kept: LeaseIsAPromise, with StoreInv, is inductive.  *)
(***************************************************************************)

\* What LeaseIsAPromise says of one run.
PromiseKept(r) ==
  \A c \in CheckpointsOf(r) :
    /\ HasHead(r)
    /\ c.owner # NoOwner
    /\ Held(c)
    /\ \A d \in CheckpointsOf(r) : d.claim = c.claim => d.owner # NoOwner
    => Latest(r).claim = c.claim /\ Latest(r).owner = c.owner /\ Latest(r).lease >= c.lease

-----------------------------------------------------------------------------
(* Steps that leave a run alone *)

\* A run whose checkpoints stay keeps its promises while the clock goes on, for
\* fewer leases are held.
LEMMA UntouchedKeepsPromise ==
  ASSUME TypeOK, NEW r \in Runs, PromiseKept(r),
         clock' \in Nat, clock <= clock',
         HasHead(r)' => HasHead(r),
         CheckpointsOf(r)' = CheckpointsOf(r), Latest(r)' = Latest(r)
  PROVE  PromiseKept(r)'
<1>1. \A c \in CheckpointsOf(r) : Held(c)' => Held(c)
  BY DEF Held, CheckpointsOf, TypeOK, CheckpointRow
<1> QED
  BY <1>1 DEF PromiseKept

\* A run without a head has promised nothing.
LEMMA NoHeadKeepsPromise ==
  ASSUME NEW r \in Runs, ~HasHead(r)'
  PROVE  PromiseKept(r)'
  BY DEF PromiseKept

-----------------------------------------------------------------------------
(* Steps on the checkpoints of a run *)

\* The first version holds the lease it was created with.
LEMMA CreateKeepsPromises ==
  ASSUME StoreInv, LeaseIsAPromise, NEW r \in Runs, NEW identity \in Identities,
         NEW owner \in Owners \cup {NoOwner}, NEW lease \in Leases, NEW stamp \in Stamps,
         Create(r, identity, owner, lease, stamp)
  PROVE  LeaseIsAPromise'
<1> DEFINE row == [run |-> r, version |-> 1, identity |-> identity, status |-> "running",
                   owner |-> owner, claim |-> IF owner = NoOwner THEN 0 ELSE 1,
                   lease |-> ResolveLeaseExpiry(lease), confirmed |-> 0,
                   pending |-> FALSE, updated |-> stamp]
<1> USE DEF StoreInv
<1>1. /\ checkpoints' = checkpoints \cup {row}
      /\ heads' = [heads EXCEPT ![r] = HeadOf(row)]
      /\ clock' = clock
  BY DEF Create
<1>2. CheckpointsOf(r) = {}
  BY DEF Create, EnsureAllowed, Ensured, RegistryAccounts, ActiveWorkflow
<1>3. row.run = r /\ row.version \in Nat /\ row.lease \in Nat
  BY LeaseTypes
<1> HIDE DEF row
<1>4. /\ CheckpointsOf(r)' = {row}
      /\ \A q \in Runs : q # r => /\ CheckpointsOf(q)' = CheckpointsOf(q)
                                  /\ HasHead(q)' <=> HasHead(q)
  BY <1>1, <1>2, <1>3 DEF CheckpointsOf, HasHead, TypeOK
<1>5. Latest(r)' = row
  <2>1. /\ row \in CheckpointsOf(r)'
        /\ \A d \in CheckpointsOf(r)' : d = row
    BY <1>4
  <2>2. \A d \in CheckpointsOf(r)' : d.version \in Nat /\ d.version <= row.version
    BY <1>3, <2>1
  <2>3. \A c, d \in CheckpointsOf(r)' : c.version = d.version => c = d
    BY <2>1
  <2> QED
    BY <2>1, <2>2, <2>3, NewestOfKey DEF Latest
<1>6. \A q \in Runs : q # r => Latest(q)' = Latest(q)
  BY <1>4 DEF Latest
<1>7. PromiseKept(r)'
  BY <1>3, <1>4, <1>5 DEF PromiseKept
<1>8. \A q \in Runs : q # r => PromiseKept(q)'
  BY <1>1, <1>4, <1>6, UntouchedKeepsPromise DEF LeaseIsAPromise, PromiseKept, TypeOK
<1> QED
  BY <1>7, <1>8 DEF LeaseIsAPromise, PromiseKept

\* A new version breaks no promise if it is a claim over a lease that passed, or
\* if it is a write under the same claim that releases it or keeps its lease.
LEMMA AdvanceKeepsPromises ==
  ASSUME StoreInv, LeaseIsAPromise, NEW r \in Runs, HasHead(r),
         NEW row \in CheckpointRow, row.run = r,
         row.version = heads[r].version + 1,
         AdvanceCheckpoint(row, heads[r].version),
         \/ ~Held(Latest(r))
         \/ /\ row.claim = Latest(r).claim
            /\ row.owner # NoOwner =>
                 row.owner = Latest(r).owner /\ row.lease >= Latest(r).lease
  PROVE  LeaseIsAPromise'
<1> USE DEF StoreInv
<1>1. /\ CheckpointsOf(r)' = CheckpointsOf(r) \cup {row}
      /\ Latest(r)' = row
      /\ \A q \in Runs : q # r => /\ CheckpointsOf(q)' = CheckpointsOf(q)
                                  /\ Latest(q)' = Latest(q)
      /\ \A q \in Runs : HasHead(q)' <=> HasHead(q)
  BY AdvanceMakesLatest
<1>2. clock' = clock /\ clock \in Nat
  BY DEF AdvanceCheckpoint, TypeOK
<1>3. \A q \in Runs : q # r => PromiseKept(q)'
  BY <1>1, <1>2, UntouchedKeepsPromise DEF LeaseIsAPromise, PromiseKept
<1>4. PromiseKept(r)'
  <2> SUFFICES ASSUME NEW c \in CheckpointsOf(r)',
                      c.owner # NoOwner, Held(c)',
                      \A d \in CheckpointsOf(r)' : d.claim = c.claim => d.owner # NoOwner
               PROVE  row.claim = c.claim /\ row.owner = c.owner /\ row.lease >= c.lease
    BY <1>1 DEF PromiseKept
  <2>1. CASE c = row
    BY <2>1 DEF CheckpointRow
  <2>2. CASE c \in CheckpointsOf(r)
    <3>1. /\ Held(c)
          /\ \A d \in CheckpointsOf(r) : d.claim = c.claim => d.owner # NoOwner
      BY <1>1, <1>2 DEF Held
    <3>2. /\ Latest(r).claim = c.claim
          /\ Latest(r).owner = c.owner
          /\ Latest(r).lease >= c.lease
      BY <2>2, <3>1 DEF LeaseIsAPromise
    <3>3. /\ c.lease \in Nat /\ Latest(r).lease \in Nat /\ row.lease \in Nat
      BY <2>2, LatestOfHead DEF TypeOK, CheckpointsOf, CheckpointRow
    <3>4. Held(Latest(r))
      BY <1>2, <3>1, <3>2, <3>3 DEF Held
    <3>5. /\ row.claim = Latest(r).claim
          /\ row.owner # NoOwner =>
               row.owner = Latest(r).owner /\ row.lease >= Latest(r).lease
      BY <3>4
    <3>6. row.owner # NoOwner
      BY <1>1, <3>2, <3>5
    <3> QED
      BY <3>2, <3>3, <3>5, <3>6
  <2> QED
    BY <1>1, <2>1, <2>2
<1> QED
  BY <1>3, <1>4 DEF LeaseIsAPromise, PromiseKept

\* A renewal keeps what it renews and what the others hold.
LEMMA RenewKeepsPromises ==
  ASSUME StoreInv, LeaseIsAPromise, NEW r \in Runs, NEW owner \in Owners,
         NEW claim \in Nat, NEW lease \in Leases, RenewLease(r, owner, claim, lease)
  PROVE  LeaseIsAPromise'
<1> DEFINE current == Latest(r)
<1> USE DEF StoreInv
<1>1. HasHead(r) /\ UNCHANGED <<heads, clock>>
  BY DEF RenewLease, HoldsFence
<1>2. current \in CheckpointRow
  BY <1>1, LatestOfHead
<1>3. PICK renewed \in CheckpointRow :
        /\ renewed.claim = current.claim
        /\ renewed.owner = current.owner
        /\ renewed.lease > current.lease
        /\ CheckpointsOf(r)' = (CheckpointsOf(r) \ {current}) \cup {renewed}
        /\ Latest(r)' = renewed
        /\ \A q \in Runs : q # r => /\ CheckpointsOf(q)' = CheckpointsOf(q)
                                  /\ Latest(q)' = Latest(q)
  BY RenewRewritesLatest
<1> HIDE DEF current
<1>4. \A q \in Runs : HasHead(q)' <=> HasHead(q)
  BY <1>1 DEF HasHead
<1>5. \A q \in Runs : q # r => PromiseKept(q)'
  BY <1>1, <1>3, <1>4, UntouchedKeepsPromise DEF LeaseIsAPromise, PromiseKept, TypeOK
<1>6. PromiseKept(r)'
  <2> SUFFICES ASSUME NEW c \in CheckpointsOf(r)',
                      c.owner # NoOwner, Held(c)',
                      \A d \in CheckpointsOf(r)' : d.claim = c.claim => d.owner # NoOwner
               PROVE  renewed.claim = c.claim /\ renewed.owner = c.owner
                      /\ renewed.lease >= c.lease
    BY <1>3 DEF PromiseKept
  <2>1. CASE c = renewed
    BY <2>1 DEF CheckpointRow
  <2>2. CASE c \in CheckpointsOf(r)
    <3>1. \A d \in CheckpointsOf(r) : d.claim = c.claim => d.owner # NoOwner
      BY <1>3
    <3>2. Held(c)
      BY <1>1 DEF Held
    <3>3. current.claim = c.claim /\ current.owner = c.owner /\ current.lease >= c.lease
      BY <1>1, <2>2, <3>1, <3>2 DEF LeaseIsAPromise, current
    <3>4. c.lease \in Nat /\ current.lease \in Nat /\ renewed.lease \in Nat
      BY <1>2, <2>2 DEF TypeOK, CheckpointsOf, CheckpointRow
    <3> QED
      BY <1>3, <3>3, <3>4
  <2> QED
    BY <1>3, <2>1, <2>2
<1> QED
  BY <1>5, <1>6 DEF LeaseIsAPromise, PromiseKept

-----------------------------------------------------------------------------
(* Every step *)

\* Steps that touch neither heads nor checkpoints.
LEMMA UntouchedKeepsPromises ==
  ASSUME StoreInv, LeaseIsAPromise, UNCHANGED <<heads, checkpoints>>,
         clock' \in Nat, clock <= clock'
  PROVE  LeaseIsAPromise'
<1>1. \A r \in Runs : PromiseKept(r)'
  BY LatestUnchanged, UntouchedKeepsPromise DEF StoreInv, LeaseIsAPromise, PromiseKept
<1> QED
  BY <1>1 DEF LeaseIsAPromise, PromiseKept

\* The calls of workers.
LEMMA WorkerKeepsPromises == StoreInv /\ LeaseIsAPromise /\ WorkerNext => LeaseIsAPromise'
<1> SUFFICES ASSUME StoreInv, LeaseIsAPromise, WorkerNext PROVE LeaseIsAPromise'
  OBVIOUS
<1>0. clock \in Nat /\ clock <= clock
  BY DEF StoreInv, TypeOK
<1>1. ASSUME NEW r \in Runs, NEW identity \in Identities, NEW owner \in Owners \cup {NoOwner},
             NEW lease \in Leases, NEW stamp \in Stamps,
             Create(r, identity, owner, lease, stamp)
      PROVE  LeaseIsAPromise'
  BY <1>1, CreateKeepsPromises
<1>2. ASSUME NEW r \in Runs, NEW base \in CheckpointsOf(r), NEW owner \in Owners,
             NEW claim \in 1..MaxVersion, NEW identity \in Identities,
             NEW lease \in Leases, NEW stamp \in Stamps,
             Claim(r, base, owner, claim, identity, lease, stamp)
      PROVE  LeaseIsAPromise'
  <2>1. claim \in Nat
    OBVIOUS
  <2> QED
    BY <1>2, <2>1, ClaimInsertsRow, AdvanceKeepsPromises
<1>3. ASSUME NEW r \in Runs, NEW owner \in Owners, NEW claim \in 1..MaxVersion,
             NEW lease \in Leases, RenewLease(r, owner, claim, lease)
      PROVE  LeaseIsAPromise'
  <2>1. claim \in Nat
    OBVIOUS
  <2> QED
    BY <1>3, <2>1, RenewKeepsPromises
<1>4. ASSUME NEW r \in Runs, NEW base \in CheckpointsOf(r), NEW owner \in Owners \cup {NoOwner},
             NEW identity \in Identities, NEW status \in Status, NEW lease \in Leases,
             NEW progress \in Progress, NEW stamp \in Stamps,
             Write(r, base, owner, identity, status, lease, progress, stamp)
      PROVE  LeaseIsAPromise'
  <2>1. /\ HasHead(r) /\ Latest(r) \in CheckpointRow
        /\ owner \in {Latest(r).owner, NoOwner}
    BY <1>4, WriteInsertsRow, LatestOfHead DEF StoreInv
  <2>2. PICK row \in CheckpointRow :
          /\ row.run = r
          /\ row.version = heads[r].version + 1
          /\ row.claim = Latest(r).claim
          /\ row.owner = owner
          /\ row.lease = WriteLease(Latest(r), owner, lease)
          /\ AdvanceCheckpoint(row, heads[r].version)
    BY <1>4, WriteInsertsRow
  <2>3. owner # NoOwner => row.lease >= Latest(r).lease
    BY <1>0, <2>1, <2>2, DBStoreAssumption DEF WriteLease, Later, CheckpointRow
  <2> QED
    BY <2>1, <2>2, <2>3, AdvanceKeepsPromises
<1>5. ASSUME NEW r \in Runs, NEW sequence, NEW payload, AppendPlain(r, sequence, payload)
      PROVE  LeaseIsAPromise'
  BY <1>0, <1>5, UntouchedKeepsPromises DEF AppendPlain
<1>6. ASSUME NEW r \in Runs, NEW owner, NEW claim, NEW sequence, NEW payload,
             AppendFenced(r, owner, claim, sequence, payload)
      PROVE  LeaseIsAPromise'
  BY <1>0, <1>6, UntouchedKeepsPromises DEF AppendFenced
<1> QED
  <2>0. PICK r \in Runs : \/ WorkerCreates(r) \/ WorkerClaims(r) \/ WorkerRenews(r)
                          \/ WorkerWrites(r) \/ WorkerAppendsPlain(r) \/ WorkerAppendsFenced(r)
    BY WorkerMakesOneCall
  <2>1. CASE WorkerCreates(r)
    BY <1>1, <2>1 DEF WorkerCreates
  <2>2. CASE WorkerClaims(r)
    BY <1>2, <2>2 DEF WorkerClaims
  <2>3. CASE WorkerRenews(r)
    BY <1>3, <2>3 DEF WorkerRenews
  <2>4. CASE WorkerWrites(r)
    BY <1>4, <2>4 DEF WorkerWrites
  <2>5. CASE WorkerAppendsPlain(r)
    BY <1>5, <2>5 DEF WorkerAppendsPlain
  <2>6. CASE WorkerAppendsFenced(r)
    BY <1>6, <2>6 DEF WorkerAppendsFenced
  <2> QED BY <2>0, <2>1, <2>2, <2>3, <2>4, <2>5, <2>6

\* The transactions of retention: enrolling a run takes its head away, and the
\* rows of a run without a head are nobody's lease.
LEMMA PurgeKeepsPromises == StoreInv /\ LeaseIsAPromise /\ PurgeNext => LeaseIsAPromise'
<1> SUFFICES ASSUME StoreInv, LeaseIsAPromise, PurgeNext PROVE LeaseIsAPromise'
  OBVIOUS
<1>0. clock \in Nat /\ clock <= clock
  BY DEF StoreInv, TypeOK
<1>1. ASSUME NEW r \in Runs, clock' = clock, ~HasHead(r)',
             \A q \in Runs : q # r => /\ HasHead(q)' => HasHead(q)
                                      /\ CheckpointsOf(q)' = CheckpointsOf(q)
      PROVE  LeaseIsAPromise'
  <2>1. \A q \in Runs : q # r => Latest(q)' = Latest(q)
    BY <1>1 DEF Latest
  <2>2. \A q \in Runs : q # r => PromiseKept(q)'
    BY <1>0, <1>1, <2>1, UntouchedKeepsPromise DEF StoreInv, LeaseIsAPromise, PromiseKept
  <2> QED
    BY <1>1, <2>2, NoHeadKeepsPromise DEF LeaseIsAPromise, PromiseKept
<1>2. ASSUME NEW r \in Runs, NEW before, NEW stamp, EnrollTerminalRun(r, before, stamp)
      PROVE  LeaseIsAPromise'
  <2>1. /\ ~HasHead(r)' /\ clock' = clock
        /\ \A q \in Runs : q # r => (HasHead(q)' => HasHead(q))
        /\ \A q \in Runs : CheckpointsOf(q)' = CheckpointsOf(q)
    BY <1>2 DEF EnrollTerminalRun, HasHead, NoHead, CheckpointsOf, StoreInv, TypeOK
  <2> QED
    BY <1>1, <2>1
<1>3. ASSUME NEW r \in Runs, NEW rows, NEW bytes, DeletePurgingHistory(r, rows, bytes)
      PROVE  LeaseIsAPromise'
  <2>1. ~HasHead(r) /\ UNCHANGED <<heads, clock>>
    BY <1>3 DEF DeletePurgingHistory, StoreInv, RegistryAccounts, ActiveWorkflow
  <2>2. \A n, m : CheckpointsWithin(r, n, m) \subseteq CheckpointsOf(r)
    BY DEF CheckpointsWithin, WithinBudget
  <2>3. \E C \in SUBSET CheckpointsOf(r) : checkpoints' = checkpoints \ C
    BY <1>3, <2>2 DEF DeletePurgingHistory
  <2>4. \A q \in Runs : q # r => CheckpointsOf(q)' = CheckpointsOf(q)
    BY <2>3 DEF CheckpointsOf
  <2>5. \A q \in Runs : HasHead(q)' <=> HasHead(q)
    BY <2>1 DEF HasHead
  <2> QED
    BY <1>1, <2>1, <2>4, <2>5
<1>4. ASSUME NEW r \in Runs, NEW before, NEW rows, NEW bytes,
             PurgeConfirmedRunLog(r, before, rows, bytes)
      PROVE  LeaseIsAPromise'
  BY <1>0, <1>4, UntouchedKeepsPromises DEF PurgeConfirmedRunLog
<1>5. ASSUME NEW r \in Runs, NEW ordinals, NEW before, PurgeJournalEvents(r, ordinals, before)
      PROVE  LeaseIsAPromise'
  BY <1>0, <1>5, UntouchedKeepsPromises DEF PurgeJournalEvents
<1> QED
  BY <1>2, <1>3, <1>4, <1>5 DEF PurgeNext

\* An expiry granted to an owner is a promise until it passes or is released,
\* for every number of workers, versions and ticks (LeaseIsAPromise).
THEOREM LeasesArePromises == Spec => []LeaseIsAPromise
<1>1. Init => LeaseIsAPromise
  BY DEF Init, LeaseIsAPromise, CheckpointsOf
<1>2. StoreInv /\ LeaseIsAPromise /\ [Next]_vars => LeaseIsAPromise'
  <2> SUFFICES ASSUME StoreInv, LeaseIsAPromise, [Next]_vars PROVE LeaseIsAPromise'
    OBVIOUS
  <2>1. CASE Tick
    BY <2>1, UntouchedKeepsPromises DEF Tick, tables, StoreInv, TypeOK
  <2>2. CASE UNCHANGED vars
    BY <2>2, UntouchedKeepsPromises DEF vars, tables, StoreInv, TypeOK
  <2> QED
    BY <2>1, <2>2, WorkerKeepsPromises, PurgeKeepsPromises DEF Next
<1> QED
  BY <1>1, <1>2, StoreInvariant, PTL DEF Spec

-----------------------------------------------------------------------------
(* A lost lease *)

\* Time takes leases away and never gives one back.
LEMMA UntouchedStaysLost ==
  ASSUME StoreInv, NEW r \in Runs, NEW owner \in Owners, NEW claim \in Nat,
         LeaseLost(r, owner, claim), HasHead(r)', Latest(r)' = Latest(r),
         clock' \in Nat, clock <= clock'
  PROVE  LeaseLost(r, owner, claim)'
<1>1. Latest(r).lease \in Nat
  BY LatestOfHead DEF StoreInv, LeaseLost, CheckpointRow
<1>2. Held(Latest(r))' => Held(Latest(r))
  BY <1>1 DEF Held, StoreInv, TypeOK
<1> QED
  BY <1>2 DEF LeaseLost, WriteLeaseAccepted

\* A claim voids the one before it, and only an owner whose lease is held can
\* save or release.
LEMMA AdvanceStaysLost ==
  ASSUME StoreInv, NEW r \in Runs, HasHead(r),
         NEW row \in CheckpointRow, row.run = r,
         row.version = heads[r].version + 1,
         AdvanceCheckpoint(row, heads[r].version),
         \/ row.claim = Latest(r).claim + 1
         \/ /\ row.claim = Latest(r).claim
            /\ row.owner \in {Latest(r).owner, NoOwner}
            /\ Latest(r).owner = NoOwner \/ Held(Latest(r)),
         NEW q \in Runs, NEW owner \in Owners, NEW claim \in Nat,
         LeaseLost(q, owner, claim), HasHead(q)'
  PROVE  LeaseLost(q, owner, claim)'
<1>1. /\ Latest(r)' = row
      /\ q # r => Latest(q)' = Latest(q)
      /\ UNCHANGED clock
  BY AdvanceMakesLatest DEF AdvanceCheckpoint
<1>2. CASE q # r
  BY <1>1, <1>2, UntouchedStaysLost DEF StoreInv, TypeOK
<1>3. CASE q = r
  <2>1. Latest(r).claim \in Nat /\ row.claim \in Nat /\ claim <= Latest(r).claim
    BY <1>3, LatestOfHead DEF StoreInv, LeaseLost, CheckpointRow
  <2>2. CASE row.claim = Latest(r).claim + 1
    BY <1>1, <1>3, <2>1, <2>2 DEF LeaseLost, WriteLeaseAccepted
  <2>3. CASE /\ row.claim = Latest(r).claim
             /\ row.owner \in {Latest(r).owner, NoOwner}
             /\ Latest(r).owner = NoOwner \/ Held(Latest(r))
    <3>1. claim # Latest(r).claim \/ owner # Latest(r).owner
      BY <1>3, <2>3 DEF LeaseLost, WriteLeaseAccepted
    <3>2. owner # NoOwner
      BY DBStoreAssumption
    <3>3. claim # row.claim \/ owner # row.owner
      BY <2>3, <3>1, <3>2
    <3> QED
      BY <1>1, <1>3, <2>1, <2>3, <3>2, <3>3 DEF LeaseLost, WriteLeaseAccepted
  <2> QED
    BY <2>2, <2>3
<1> QED
  BY <1>2, <1>3

\* The calls of workers.
LEMMA WorkerStaysLost ==
  ASSUME StoreInv, WorkerNext,
         NEW q \in Runs, NEW o \in Owners, NEW n \in Nat,
         LeaseLost(q, o, n), HasHead(q)'
  PROVE  LeaseLost(q, o, n)'
<1>0. clock \in Nat /\ clock <= clock /\ HasHead(q)
  BY DEF StoreInv, TypeOK, LeaseLost
<1>1. ASSUME NEW r \in Runs, NEW identity \in Identities, NEW owner \in Owners \cup {NoOwner},
             NEW lease \in Leases, NEW stamp \in Stamps,
             Create(r, identity, owner, lease, stamp)
      PROVE  LeaseLost(q, o, n)'
  <2>1. /\ q # r
        /\ \E row : row.run = r /\ checkpoints' = checkpoints \cup {row}
        /\ UNCHANGED clock
    <3>1. q # r /\ UNCHANGED clock
      BY <1>0, <1>1 DEF Create
    <3> DEFINE row == [run |-> r, version |-> 1, identity |-> identity, status |-> "running",
                       owner |-> owner, claim |-> IF owner = NoOwner THEN 0 ELSE 1,
                       lease |-> ResolveLeaseExpiry(lease), confirmed |-> 0,
                       pending |-> FALSE, updated |-> stamp]
    <3>2. row.run = r /\ checkpoints' = checkpoints \cup {row}
      BY <1>1 DEF Create
    <3> QED
      BY <3>1, <3>2
  <2>2. CheckpointsOf(q)' = CheckpointsOf(q)
    BY <2>1 DEF CheckpointsOf
  <2>3. Latest(q)' = Latest(q)
    BY <2>2 DEF Latest
  <2> QED
    BY <1>0, <2>1, <2>3, UntouchedStaysLost
<1>2. ASSUME NEW r \in Runs, NEW base \in CheckpointsOf(r), NEW owner \in Owners,
             NEW claim \in 1..MaxVersion, NEW identity \in Identities,
             NEW lease \in Leases, NEW stamp \in Stamps,
             Claim(r, base, owner, claim, identity, lease, stamp)
      PROVE  LeaseLost(q, o, n)'
  <2>1. claim \in Nat
    OBVIOUS
  <2> QED
    BY <1>2, <2>1, ClaimInsertsRow, AdvanceStaysLost
<1>3. ASSUME NEW r \in Runs, NEW owner \in Owners, NEW claim \in 1..MaxVersion,
             NEW lease \in Leases, RenewLease(r, owner, claim, lease)
      PROVE  LeaseLost(q, o, n)'
  <2>1. claim \in Nat
    OBVIOUS
  <2>2. PICK renewed \in CheckpointRow :
          /\ renewed.claim = Latest(r).claim
          /\ renewed.owner = Latest(r).owner
          /\ Latest(r)' = renewed
          /\ \A p \in Runs : p # r => Latest(p)' = Latest(p)
    BY <1>3, <2>1, RenewRewritesLatest
  <2>3. UNCHANGED clock /\ Held(Latest(r)) /\ HasHead(r)
    BY <1>3 DEF RenewLease, HoldsFence
  <2>4. CASE q # r
    BY <1>0, <2>2, <2>3, <2>4, UntouchedStaysLost
  <2>5. CASE q = r
    BY <2>2, <2>3, <2>5 DEF LeaseLost, WriteLeaseAccepted
  <2> QED
    BY <2>4, <2>5
<1>4. ASSUME NEW r \in Runs, NEW base \in CheckpointsOf(r), NEW owner \in Owners \cup {NoOwner},
             NEW identity \in Identities, NEW status \in Status, NEW lease \in Leases,
             NEW progress \in Progress, NEW stamp \in Stamps,
             Write(r, base, owner, identity, status, lease, progress, stamp)
      PROVE  LeaseLost(q, o, n)'
  <2>1. /\ HasHead(r)
        /\ owner \in {Latest(r).owner, NoOwner}
        /\ Latest(r).owner = NoOwner \/ Held(Latest(r))
    BY <1>4, WriteInsertsRow DEF WriteLeaseAccepted
  <2>2. PICK row \in CheckpointRow :
          /\ row.run = r
          /\ row.version = heads[r].version + 1
          /\ row.claim = Latest(r).claim
          /\ row.owner = owner
          /\ AdvanceCheckpoint(row, heads[r].version)
    BY <1>4, WriteInsertsRow
  <2> QED
    BY <2>1, <2>2, AdvanceStaysLost
<1>5. ASSUME NEW r \in Runs, NEW sequence, NEW payload, AppendPlain(r, sequence, payload)
      PROVE  LeaseLost(q, o, n)'
  BY <1>0, <1>5, LatestUnchanged, UntouchedStaysLost DEF AppendPlain
<1>6. ASSUME NEW r \in Runs, NEW owner, NEW claim, NEW sequence, NEW payload,
             AppendFenced(r, owner, claim, sequence, payload)
      PROVE  LeaseLost(q, o, n)'
  BY <1>0, <1>6, LatestUnchanged, UntouchedStaysLost DEF AppendFenced
<1> QED
  BY <1>1, <1>2, <1>3, <1>4, <1>5, <1>6 DEF WorkerNext

\* The transactions of retention leave the checkpoints of a run with a head.
LEMMA PurgeStaysLost ==
  ASSUME StoreInv, PurgeNext,
         NEW q \in Runs, NEW o \in Owners, NEW n \in Nat,
         LeaseLost(q, o, n), HasHead(q)'
  PROVE  LeaseLost(q, o, n)'
<1>0. clock \in Nat /\ clock <= clock
  BY DEF StoreInv, TypeOK
<1>1. UNCHANGED clock /\ CheckpointsOf(q)' = CheckpointsOf(q)
  <2>1. ASSUME NEW r \in Runs, NEW before, NEW stamp, EnrollTerminalRun(r, before, stamp)
        PROVE  UNCHANGED clock /\ CheckpointsOf(q)' = CheckpointsOf(q)
    BY <2>1 DEF EnrollTerminalRun, CheckpointsOf
  <2>2. ASSUME NEW r \in Runs, NEW rows, NEW bytes, DeletePurgingHistory(r, rows, bytes)
        PROVE  UNCHANGED clock /\ CheckpointsOf(q)' = CheckpointsOf(q)
    <3>1. ~HasHead(r) /\ UNCHANGED <<heads, clock>>
      BY <2>2 DEF DeletePurgingHistory, StoreInv, RegistryAccounts, ActiveWorkflow
    <3>2. q # r
      BY <3>1 DEF HasHead
    <3>3. \A i, j : CheckpointsWithin(r, i, j) \subseteq CheckpointsOf(r)
      BY DEF CheckpointsWithin, WithinBudget
    <3>4. \E C \in SUBSET CheckpointsOf(r) : checkpoints' = checkpoints \ C
      BY <2>2, <3>3 DEF DeletePurgingHistory
    <3> QED
      BY <3>1, <3>2, <3>4 DEF CheckpointsOf
  <2>3. ASSUME NEW r \in Runs, NEW before, NEW rows, NEW bytes,
               PurgeConfirmedRunLog(r, before, rows, bytes)
        PROVE  UNCHANGED clock /\ CheckpointsOf(q)' = CheckpointsOf(q)
    BY <2>3 DEF PurgeConfirmedRunLog, CheckpointsOf
  <2>4. ASSUME NEW r \in Runs, NEW ordinals, NEW before,
               PurgeJournalEvents(r, ordinals, before)
        PROVE  UNCHANGED clock /\ CheckpointsOf(q)' = CheckpointsOf(q)
    BY <2>4 DEF PurgeJournalEvents, CheckpointsOf
  <2> QED
    BY <2>1, <2>2, <2>3, <2>4 DEF PurgeNext
<1>2. Latest(q)' = Latest(q)
  BY <1>1 DEF Latest
<1> QED
  BY <1>0, <1>1, <1>2, UntouchedStaysLost

\* Whatever follows, a worker whose Save was refused for its lease never saves
\* under that claim again (RenewLease, prepareCheckpointWriteLease).
THEOREM LostLeasesStayLost == Spec => LeaseLossIsFinal
<1>1. StoreInv /\ [Next]_vars =>
        [\A r \in Runs, owner \in Owners, claim \in 0..MaxVersion :
           LeaseLost(r, owner, claim) => ~HasHead(r)' \/ LeaseLost(r, owner, claim)']_vars
  <2> SUFFICES ASSUME StoreInv, Next,
                      NEW r \in Runs, NEW owner \in Owners, NEW claim \in 0..MaxVersion,
                      LeaseLost(r, owner, claim), HasHead(r)'
               PROVE  LeaseLost(r, owner, claim)'
    OBVIOUS
  <2>0. claim \in Nat
    OBVIOUS
  <2>1. CASE Tick
    <3>1. UNCHANGED <<heads, checkpoints>> /\ clock' \in Nat /\ clock <= clock'
      BY <2>1 DEF Tick, tables, StoreInv, TypeOK
    <3> QED
      BY <2>0, <3>1, LatestUnchanged, UntouchedStaysLost
  <2> QED
    BY <2>0, <2>1, WorkerStaysLost, PurgeStaysLost DEF Next
<1> QED
  BY <1>1, StoreInvariant, PTL DEF Spec, LeaseLossIsFinal

-----------------------------------------------------------------------------
(* What retention keeps: steps on checkpoints *)

\* A step that leaves the records and the floors alone, and changes at most what
\* run r confirms, to no less than before and only to what is in its log.
LEMMA ConfirmingKeepsRetention ==
  ASSUME RetentionInv, StoreInv', NEW r \in Runs,
         UNCHANGED <<events, retention>>,
         \A q \in Runs : registry'[q].floor = registry[q].floor
                         /\ (registry[q].kind = "workflow" => registry'[q].kind = "workflow"),
         \A q \in Runs : q # r => /\ HasHead(q)' => HasHead(q)
                                  /\ Latest(q)' = Latest(q),
         HasHead(r)' => /\ registry[r].floor <= Latest(r)'.confirmed
                        /\ Acknowledged(r, Latest(r)'.confirmed)
  PROVE  RetentionInv'
<1> USE DEF RetentionInv
<1>1. \A q \in Runs : EventsOf(q)' = EventsOf(q)
  BY DEF EventsOf
<1>2. RowsMatch'
  BY DEF RowsMatch
<1>3. FloorsAreOfWorkflows'
  BY DEF FloorsAreOfWorkflows
<1>4. ConfirmedIsKept'
  <2> SUFFICES ASSUME NEW q \in Runs, HasHead(q)'
               PROVE  \A s \in 1..Latest(q)'.confirmed :
                        \/ s <= registry'[q].floor
                        \/ \E e \in EventsOf(q)' : e.sequence = s
    BY DEF ConfirmedIsKept, Acknowledged
  <2>1. CASE q = r
    BY <2>1, <1>1 DEF Acknowledged
  <2>2. CASE q # r
    BY <2>2, <1>1 DEF Acknowledged, ConfirmedIsKept
  <2> QED
    BY <2>1, <2>2
<1>5. CompactedStaysCompacted'
  BY <1>1 DEF CompactedStaysCompacted
<1> QED
  BY <1>2, <1>3, <1>4, <1>5

\* A run without checkpoints confirms nothing when it is created.
LEMMA CreateKeepsRetention ==
  ASSUME RetentionInv, NEW r \in Runs, NEW identity \in Identities,
         NEW owner \in Owners \cup {NoOwner}, NEW lease \in Leases, NEW stamp \in Stamps,
         Create(r, identity, owner, lease, stamp)
  PROVE  RetentionInv'
<1> DEFINE row == [run |-> r, version |-> 1, identity |-> identity, status |-> "running",
                   owner |-> owner, claim |-> IF owner = NoOwner THEN 0 ELSE 1,
                   lease |-> ResolveLeaseExpiry(lease), confirmed |-> 0,
                   pending |-> FALSE, updated |-> stamp]
<1> USE DEF RetentionInv
<1>0. StoreInv'
  BY CreatePreservesInv
<1> USE DEF StoreInv
<1>1. /\ checkpoints' = checkpoints \cup {row}
      /\ heads' = [heads EXCEPT ![r] = HeadOf(row)]
      /\ registry' = [registry EXCEPT ![r] = Ensured(r, "workflow")]
      /\ UNCHANGED <<events, retention, nextOrdinal, clock>>
  BY DEF Create
<1>2. registry[r].kind = "none"
  BY DEF Create, EnsureAllowed, Ensured, RegistryAccounts, ActiveWorkflow
<1>3. CheckpointsOf(r) = {}
  BY <1>2 DEF RegistryAccounts
<1>4. row.run = r /\ row.version \in Nat /\ row.confirmed = 0
  OBVIOUS
<1> HIDE DEF row
<1>5. /\ CheckpointsOf(r)' = {row}
      /\ \A q \in Runs : q # r => /\ CheckpointsOf(q)' = CheckpointsOf(q)
                                  /\ HasHead(q)' <=> HasHead(q)
  BY <1>1, <1>3, <1>4 DEF CheckpointsOf, HasHead, TypeOK
<1>6. Latest(r)' = row
  <2>1. /\ row \in CheckpointsOf(r)'
        /\ \A d \in CheckpointsOf(r)' : d = row
    BY <1>5
  <2>2. \A d \in CheckpointsOf(r)' : d.version \in Nat /\ d.version <= row.version
    BY <1>4, <2>1
  <2>3. \A c, d \in CheckpointsOf(r)' : c.version = d.version => c = d
    BY <2>1
  <2> QED
    BY <2>1, <2>2, <2>3, NewestOfKey DEF Latest
<1>7. \A q \in Runs : q # r => Latest(q)' = Latest(q)
  BY <1>5 DEF Latest
<1>8. \A q \in Runs : registry'[q].floor = registry[q].floor
                      /\ (registry[q].kind = "workflow" => registry'[q].kind = "workflow")
  BY <1>1, <1>2 DEF Ensured, NoRegistry, FloorsAreOfWorkflows, TypeOK, RegistryRow
<1>9. registry[r].floor <= Latest(r)'.confirmed /\ Acknowledged(r, Latest(r)'.confirmed)
  BY <1>2, <1>4, <1>6 DEF FloorsAreOfWorkflows, Acknowledged
<1> QED
  BY <1>0, <1>1, <1>5, <1>7, <1>8, <1>9, ConfirmingKeepsRetention

\* The next version of a run may confirm more of what is in its log.
LEMMA AdvanceKeepsRetention ==
  ASSUME RetentionInv, StoreInv', NEW r \in Runs, HasHead(r),
         NEW row \in CheckpointRow, row.run = r,
         row.version = heads[r].version + 1,
         AdvanceCheckpoint(row, heads[r].version),
         Latest(r).confirmed <= row.confirmed,
         Acknowledged(r, row.confirmed)
  PROVE  RetentionInv'
<1>1. /\ Latest(r)' = row
      /\ \A q \in Runs : q # r => Latest(q)' = Latest(q)
      /\ \A q \in Runs : HasHead(q)' <=> HasHead(q)
  BY AdvanceMakesLatest DEF RetentionInv
<1>2. UNCHANGED <<registry, events, retention>>
  BY DEF AdvanceCheckpoint
<1>3. registry[r].floor <= row.confirmed
  <2>1. registry[r].floor \in Nat /\ Latest(r).confirmed \in Nat /\ row.confirmed \in Nat
    BY LatestOfHead DEF RetentionInv, StoreInv, TypeOK, RegistryRow, CheckpointRow
  <2> QED
    BY <2>1 DEF RetentionInv, CompactedStaysCompacted
<1> QED
  BY <1>1, <1>2, <1>3, ConfirmingKeepsRetention

\* Claim confirms what the latest version did.
LEMMA ClaimKeepsRetention ==
  ASSUME RetentionInv, NEW r \in Runs, NEW base \in CheckpointsOf(r), NEW owner \in Owners,
         NEW claim \in Nat, NEW identity \in Identities, NEW lease \in Leases,
         NEW stamp \in Stamps,
         Claim(r, base, owner, claim, identity, lease, stamp)
  PROVE  RetentionInv'
<1> USE DEF RetentionInv
<1>1. StoreInv'
  BY ClaimPreservesInv
<1>2. HasHead(r) /\ Latest(r).confirmed \in Nat /\ Acknowledged(r, Latest(r).confirmed)
  BY ClaimInsertsRow, LatestOfHead DEF StoreInv, CheckpointRow, ConfirmedIsKept
<1>3. PICK row \in CheckpointRow :
        /\ row.run = r
        /\ row.version = heads[r].version + 1
        /\ row.confirmed = Latest(r).confirmed
        /\ AdvanceCheckpoint(row, heads[r].version)
  BY ClaimInsertsRow
<1> QED
  BY <1>1, <1>2, <1>3, AdvanceKeepsRetention

\* A worker confirms no less than its copy did, and only what was accepted.
LEMMA WriteKeepsRetention ==
  ASSUME RetentionInv, NEW r \in Runs, NEW base \in CheckpointsOf(r),
         NEW owner \in Owners \cup {NoOwner}, NEW identity \in Identities,
         NEW status \in Status, NEW lease \in Leases, NEW progress \in Progress,
         NEW stamp \in Stamps,
         base.confirmed <= progress.confirmed,
         Acknowledged(r, progress.confirmed),
         Write(r, base, owner, identity, status, lease, progress, stamp)
  PROVE  RetentionInv'
<1>1. StoreInv'
  BY WritePreservesInv DEF RetentionInv
<1>2. HasHead(r) /\ base = Latest(r)
  BY WriteInsertsRow DEF RetentionInv
<1>3. PICK row \in CheckpointRow :
        /\ row.run = r
        /\ row.version = heads[r].version + 1
        /\ row.confirmed = progress.confirmed
        /\ AdvanceCheckpoint(row, heads[r].version)
  BY WriteInsertsRow DEF RetentionInv
<1> QED
  BY <1>1, <1>2, <1>3, AdvanceKeepsRetention

\* RenewLease confirms what the rewritten version did.
LEMMA RenewKeepsRetention ==
  ASSUME RetentionInv, NEW r \in Runs, NEW owner \in Owners,
         NEW claim \in Nat, NEW lease \in Leases, RenewLease(r, owner, claim, lease)
  PROVE  RetentionInv'
<1> USE DEF RetentionInv
<1>1. StoreInv'
  BY RenewPreservesInv
<1>2. HasHead(r) /\ UNCHANGED <<registry, heads, events, retention>>
  BY DEF RenewLease, HoldsFence
<1>3. PICK renewed \in CheckpointRow :
        /\ renewed.confirmed = Latest(r).confirmed
        /\ Latest(r)' = renewed
        /\ \A q \in Runs : q # r => Latest(q)' = Latest(q)
  BY RenewRewritesLatest
<1>4. \A q \in Runs : HasHead(q)' <=> HasHead(q)
  BY <1>2 DEF HasHead
<1>5. registry[r].floor <= renewed.confirmed /\ Acknowledged(r, renewed.confirmed)
  BY <1>2, <1>3 DEF CompactedStaysCompacted, ConfirmedIsKept
<1> QED
  BY <1>1, <1>2, <1>3, <1>4, <1>5, ConfirmingKeepsRetention

-----------------------------------------------------------------------------
(* Steps on the RunLog *)

\* An append above the floor inserts a record and its retention row, or finds
\* the record there with its retention row.
LEMMA AppendKeepsRetention ==
  ASSUME RetentionInv, StoreInv', NEW r \in Runs, NEW kind \in {"journal", "workflow"},
         NEW sequence \in Nat \ {0}, NEW payload \in Payloads, NEW claim \in Nat,
         sequence > Ensured(r, kind).floor,
         registry' = [registry EXCEPT ![r] = Ensured(r, kind)],
         AppendRunLog(r, sequence, payload, claim),
         UNCHANGED <<heads, checkpoints, clock>>
  PROVE  RetentionInv'
<1> DEFINE new == [run |-> r, sequence |-> sequence, ordinal |-> nextOrdinal,
                   payload |-> payload, claim |-> claim]
           kept == [run |-> r, ordinal |-> nextOrdinal, appendedAt |-> clock]
<1> USE DEF RetentionInv, StoreInv
<1>1. \A q \in Runs : /\ HasHead(q)' <=> HasHead(q)
                      /\ Latest(q)' = Latest(q)
  BY LatestUnchanged
<1>2. \/ events' = events \cup {new} /\ retention' = retention \cup {kept}
      \/ events' = events /\ retention' = retention
  <2>1. \A e \in EventsOf(r) : \E x \in retention : x.ordinal = e.ordinal
    BY DEF RowsMatch, EventsOf
  <2> QED
    BY <2>1 DEF AppendRunLog
<1>3. /\ new.run = r /\ new.ordinal = nextOrdinal /\ new.sequence = sequence
      /\ kept.run = r /\ kept.ordinal = nextOrdinal
  OBVIOUS
<1> HIDE DEF new, kept
<1>4. RowsMatch'
  BY <1>2, <1>3 DEF RowsMatch
<1>5. /\ \A q \in Runs : registry'[q].floor = registry[q].floor
                         /\ (registry[q].kind = "workflow" => registry'[q].kind = "workflow")
      /\ sequence > registry[r].floor
  BY DEF Ensured, NoRegistry, FloorsAreOfWorkflows, TypeOK, RegistryRow
<1>6. FloorsAreOfWorkflows'
  BY <1>5 DEF FloorsAreOfWorkflows
<1>7. \A q \in Runs : EventsOf(q) \subseteq EventsOf(q)'
  BY <1>2 DEF EventsOf
<1>8. ConfirmedIsKept'
  <2> SUFFICES ASSUME NEW q \in Runs, HasHead(q)'
               PROVE  \A s \in 1..Latest(q)'.confirmed :
                        \/ s <= registry'[q].floor
                        \/ \E e \in EventsOf(q)' : e.sequence = s
    BY DEF ConfirmedIsKept, Acknowledged
  <2> QED
    BY <1>1, <1>5, <1>7 DEF ConfirmedIsKept, Acknowledged
<1>9. CompactedStaysCompacted'
  <2>1. \A q \in Runs : \A e \in EventsOf(q)' : e.sequence > registry'[q].floor
    BY <1>2, <1>3, <1>5 DEF CompactedStaysCompacted, EventsOf
  <2> QED
    BY <1>1, <1>5, <2>1 DEF CompactedStaysCompacted
<1> QED
  BY <1>4, <1>6, <1>8, <1>9

-----------------------------------------------------------------------------
(* Steps of retention *)

\* Records that go take their retention rows along.
LEMMA DeletingMatches ==
  ASSUME StoreInv, RowsMatch, NEW E \in SUBSET events,
         events' = events \ E, retention' = WithoutRetention(E)
  PROVE  RowsMatch'
<1>1. ASSUME NEW e \in events'
      PROVE  \E x \in retention' : x.run = e.run /\ x.ordinal = e.ordinal
  <2>1. PICK x \in retention : x.run = e.run /\ x.ordinal = e.ordinal
    BY <1>1 DEF RowsMatch
  <2>2. \A f \in E : f.ordinal # x.ordinal
    BY <1>1, <2>1 DEF StoreInv, KeysAreUnique
  <2> QED
    BY <2>1, <2>2 DEF WithoutRetention
<1>2. ASSUME NEW x \in retention'
      PROVE  \E e \in events' : e.run = x.run /\ e.ordinal = x.ordinal
  BY <1>2 DEF RowsMatch, WithoutRetention
<1> QED
  BY <1>1, <1>2 DEF RowsMatch

\* Enrolling a run takes its head away and leaves its records.
LEMMA EnrollKeepsRetention ==
  ASSUME RetentionInv, NEW r \in Runs, NEW before, NEW stamp \in Stamps,
         EnrollTerminalRun(r, before, stamp)
  PROVE  RetentionInv'
<1>1. StoreInv'
  BY EnrollPreservesInv DEF RetentionInv
<1>2. /\ heads' = [heads EXCEPT ![r] = NoHead]
      /\ registry' = [registry EXCEPT ![r].state = "purging", ![r].updated = stamp]
      /\ UNCHANGED <<checkpoints, events, retention>>
  BY DEF EnrollTerminalRun
<1>3. \A q \in Runs : registry'[q].floor = registry[q].floor
                      /\ (registry[q].kind = "workflow" => registry'[q].kind = "workflow")
  BY <1>2 DEF RetentionInv, StoreInv, TypeOK, RegistryRow
<1>4. ~HasHead(r)' /\ \A q \in Runs : q # r => (HasHead(q)' => HasHead(q))
  BY <1>2 DEF RetentionInv, StoreInv, TypeOK, HasHead, NoHead
<1>5. \A q \in Runs : Latest(q)' = Latest(q)
  BY <1>2 DEF Latest, CheckpointsOf
<1> QED
  BY <1>1, <1>2, <1>3, <1>4, <1>5, ConfirmingKeepsRetention

\* A step that deletes records of a run without a head, and of no other.
LEMMA HeadlessDeletionKeepsRetention ==
  ASSUME RetentionInv, StoreInv', NEW r \in Runs, ~HasHead(r),
         NEW E \in SUBSET EventsOf(r), events' = events \ E, retention' = WithoutRetention(E),
         UNCHANGED heads,
         \A q \in Runs : q # r => CheckpointsOf(q)' = CheckpointsOf(q),
         \A q \in Runs : q # r => registry'[q] = registry[q],
         registry'[r].floor = registry[r].floor,
         registry[r].kind = "workflow" => registry'[r].kind = "workflow"
  PROVE  RetentionInv'
<1> USE DEF RetentionInv
<1>1. RowsMatch'
  BY DeletingMatches DEF EventsOf
<1>2. FloorsAreOfWorkflows'
  BY DEF FloorsAreOfWorkflows
<1>3. \A q \in Runs : /\ HasHead(q)' <=> HasHead(q)
                      /\ EventsOf(q)' \subseteq EventsOf(q)
                      /\ q # r => EventsOf(q)' = EventsOf(q) /\ Latest(q)' = Latest(q)
  BY DEF HasHead, EventsOf, Latest
<1>4. ConfirmedIsKept'
  <2> SUFFICES ASSUME NEW q \in Runs, HasHead(q)'
               PROVE  \A s \in 1..Latest(q)'.confirmed :
                        \/ s <= registry'[q].floor
                        \/ \E e \in EventsOf(q)' : e.sequence = s
    BY DEF ConfirmedIsKept, Acknowledged
  <2>1. q # r /\ HasHead(q)
    BY <1>3
  <2> QED
    BY <1>3, <2>1 DEF ConfirmedIsKept, Acknowledged
<1>5. CompactedStaysCompacted'
  BY <1>3 DEF CompactedStaysCompacted
<1> QED
  BY <1>1, <1>2, <1>4, <1>5

\* The rows of a purging run.
LEMMA DeleteKeepsRetention ==
  ASSUME RetentionInv, NEW r \in Runs, NEW rows, NEW bytes,
         DeletePurgingHistory(r, rows, bytes)
  PROVE  RetentionInv'
<1>1. StoreInv'
  BY DeletePreservesInv DEF RetentionInv
<1>2. PICK E \in SUBSET EventsOf(r), C \in SUBSET CheckpointsOf(r) :
        /\ events' = events \ E
        /\ retention' = WithoutRetention(E)
        /\ checkpoints' = checkpoints \ C
  <2>1. EventsWithin(r, rows, bytes) \subseteq EventsOf(r)
    BY DEF EventsWithin, WithinBudget
  <2>2. \A n, m : CheckpointsWithin(r, n, m) \subseteq CheckpointsOf(r)
    BY DEF CheckpointsWithin, WithinBudget
  <2> QED
    BY <2>1, <2>2 DEF DeletePurgingHistory
<1>3. /\ UNCHANGED heads
      /\ registry' = [registry EXCEPT ![r].state = "purged"] \/ registry' = registry
      /\ registry[r].state = "purging"
  BY DEF DeletePurgingHistory
<1>4. ~HasHead(r)
  BY <1>3 DEF RetentionInv, StoreInv, RegistryAccounts, ActiveWorkflow
<1>5. /\ \A q \in Runs : q # r => registry'[q] = registry[q]
      /\ registry'[r].floor = registry[r].floor
      /\ registry'[r].kind = registry[r].kind
  BY <1>3 DEF RetentionInv, StoreInv, TypeOK, RegistryRow
<1>6. \A q \in Runs : q # r => CheckpointsOf(q)' = CheckpointsOf(q)
  BY <1>2 DEF CheckpointsOf
<1> QED
  BY <1>1, <1>2, <1>3, <1>4, <1>5, <1>6, HeadlessDeletionKeepsRetention

\* The records of a journal; a journal has no floor.
LEMMA JournalPurgeKeepsRetention ==
  ASSUME RetentionInv, NEW r \in Runs, NEW ordinals, NEW before,
         PurgeJournalEvents(r, ordinals, before)
  PROVE  RetentionInv'
<1> DEFINE eligible == EligibleRetention(r, ordinals, before)
           purged == {e \in EventsOf(r) : \E x \in eligible : x.ordinal = e.ordinal}
<1>1. StoreInv'
  BY JournalPurgePreservesInv DEF RetentionInv
<1>2. /\ retention' = {y \in retention : \A x \in eligible : x.ordinal # y.ordinal}
      /\ events' = events \ purged
      /\ registry' = [registry EXCEPT ![r] = NoRegistry] \/ registry' = registry
      /\ registry[r].kind = "journal"
      /\ UNCHANGED <<heads, checkpoints>>
  BY DEF PurgeJournalEvents, JournalPurgeable
<1>3. \A x \in eligible : \E e \in purged : e.ordinal = x.ordinal
  BY DEF RetentionInv, RowsMatch, EligibleRetention, RetentionOf, EventsOf
<1>4. \A e \in purged : \E x \in eligible : x.ordinal = e.ordinal
  OBVIOUS
<1>5. purged \subseteq EventsOf(r)
  OBVIOUS
<1> HIDE DEF eligible, purged
<1>6. retention' = WithoutRetention(purged)
  BY <1>2, <1>3, <1>4 DEF WithoutRetention
<1>7. ~HasHead(r)
  BY <1>2 DEF RetentionInv, StoreInv, RegistryAccounts, ActiveWorkflow
<1>8. /\ \A q \in Runs : q # r => registry'[q] = registry[q]
      /\ registry'[r].floor = registry[r].floor
  BY <1>2 DEF RetentionInv, StoreInv, TypeOK, FloorsAreOfWorkflows, NoRegistry
<1>9. \A q \in Runs : CheckpointsOf(q)' = CheckpointsOf(q)
  BY <1>2 DEF CheckpointsOf
<1> QED
  BY <1>1, <1>2, <1>5, <1>6, <1>7, <1>8, <1>9, HeadlessDeletionKeepsRetention

\* Compaction deletes every record up to the new floor, and no other.
LEMMA CompactionKeepsRetention ==
  ASSUME RetentionInv, NEW r \in Runs, NEW before, NEW limit, NEW bytes,
         PurgeConfirmedRunLog(r, before, limit, bytes)
  PROVE  RetentionInv'
<1> DEFINE selected == ContiguousPrefix(r, before, limit, bytes)
<1> USE DEF RetentionInv
<1>0. StoreInv'
  BY CompactionPreservesInv
<1> USE DEF StoreInv
<1>1. PICK last \in selected :
        /\ \A e \in selected : e.sequence <= last.sequence
        /\ registry' = [registry EXCEPT ![r].floor = last.sequence]
  BY DEF PurgeConfirmedRunLog
<1>2. /\ ActiveWorkflow(r) /\ HasHead(r)
      /\ retention' = WithoutRetention(selected)
      /\ events' = events \ selected
      /\ UNCHANGED <<heads, checkpoints>>
  BY DEF PurgeConfirmedRunLog
<1>3. \A e \in selected : /\ e \in EventsOf(r)
                          /\ e.sequence <= Latest(r).confirmed
                          /\ registry[r].floor < e.sequence
  BY DEF ContiguousPrefix, ConfirmedCandidates
<1>4. \A e \in EventsOf(r) : e.sequence <= last.sequence => e \in selected
  <2> SUFFICES ASSUME NEW e \in EventsOf(r), e.sequence <= last.sequence
               PROVE  e \in selected
    OBVIOUS
  <2> DEFINE candidates == ConfirmedCandidates(r, limit)
             upTo(c) == {d \in candidates : d.sequence <= c.sequence}
             old(c) == \A x \in RetentionOf(r) : x.ordinal = c.ordinal => x.appendedAt < before
             fits(d) == old(d) /\ MapThenSumSet(BytesOf, upTo(d)) <= bytes
  <2>1. /\ last \in candidates
        /\ \A s \in (registry[r].floor + 1)..last.sequence : \E d \in upTo(last) : d.sequence = s
        /\ \A d \in upTo(last) : fits(d)
    BY <1>1 DEF ContiguousPrefix
  <2>2. /\ \A c \in candidates :
             (/\ \A s \in (registry[r].floor + 1)..c.sequence : \E d \in upTo(c) : d.sequence = s
              /\ \A d \in upTo(c) : fits(d)) => c \in selected
    BY DEF ContiguousPrefix
  <2>3. candidates \subseteq EventsOf(r)
    BY DEF ConfirmedCandidates
  <2> HIDE DEF candidates, fits, selected
  <2>4. /\ registry[r].floor \in Nat /\ e.sequence \in Nat /\ last.sequence \in Nat
        /\ registry[r].floor < e.sequence
        /\ \A d \in candidates : d.sequence \in Nat
    BY <2>1, <2>3 DEF TypeOK, RegistryRow, EventRow, EventsOf, CompactedStaysCompacted
  <2>5. e \in candidates
    <3>1. e.sequence \in (registry[r].floor + 1)..last.sequence
      BY <2>4
    <3>2. PICK d \in candidates : d.sequence = e.sequence
      BY <2>1, <3>1
    <3> QED
      BY <2>3, <3>2 DEF KeysAreUnique, EventsOf
  <2>6. \A d \in upTo(e) : d \in upTo(last)
    BY <2>1, <2>4
  <2>7. \A s \in (registry[r].floor + 1)..e.sequence : \E d \in upTo(e) : d.sequence = s
    <3> SUFFICES ASSUME NEW s \in (registry[r].floor + 1)..e.sequence
                 PROVE  \E d \in upTo(e) : d.sequence = s
      OBVIOUS
    <3>1. s \in (registry[r].floor + 1)..last.sequence
      BY <2>4
    <3>2. PICK d \in candidates : d.sequence = s
      BY <2>1, <3>1
    <3> QED
      BY <2>4, <3>2
  <2> QED
    BY <2>1, <2>2, <2>5, <2>6, <2>7
<1> HIDE DEF selected
<1>5. /\ registry'[r].floor = last.sequence
      /\ registry'[r].kind = "workflow"
      /\ \A q \in Runs : q # r => registry'[q] = registry[q]
      /\ registry[r].floor \in Nat /\ last.sequence \in Nat
      /\ registry[r].floor <= last.sequence
  BY <1>1, <1>2, <1>3 DEF ActiveWorkflow, TypeOK, RegistryRow, EventRow, EventsOf
<1>6. \A q \in Runs : /\ HasHead(q)' <=> HasHead(q)
                      /\ Latest(q)' = Latest(q)
  BY <1>2, LatestUnchanged
<1>7. /\ EventsOf(r)' = {e \in EventsOf(r) : e.sequence > last.sequence}
      /\ \A q \in Runs : q # r => EventsOf(q)' = EventsOf(q)
  <2>1. \A e \in EventsOf(r) : e.sequence \in Nat
    BY DEF TypeOK, EventRow, EventsOf
  <2>2. \A e \in EventsOf(r) : e \notin selected <=> e.sequence > last.sequence
    BY <1>1, <1>4, <1>5, <2>1
  <2> QED
    BY <1>2, <1>3, <2>2 DEF EventsOf
<1>8. RowsMatch'
  BY <1>2, <1>3, DeletingMatches DEF EventsOf
<1>9. FloorsAreOfWorkflows'
  BY <1>5 DEF FloorsAreOfWorkflows
<1>10. ConfirmedIsKept'
  <2> SUFFICES ASSUME NEW q \in Runs, HasHead(q)', NEW s \in 1..Latest(q)'.confirmed
               PROVE  \/ s <= registry'[q].floor
                      \/ \E e \in EventsOf(q)' : e.sequence = s
    BY DEF ConfirmedIsKept, Acknowledged
  <2>1. s <= registry[q].floor \/ \E e \in EventsOf(q) : e.sequence = s
    BY <1>6 DEF ConfirmedIsKept, Acknowledged
  <2>2. CASE q # r
    BY <2>1, <2>2, <1>5, <1>7
  <2>3. CASE q = r
    <3>1. CASE s <= registry[q].floor
      BY <2>3, <3>1, <1>5
    <3>2. CASE \E e \in EventsOf(q) : e.sequence = s
      BY <2>3, <3>2, <1>5, <1>7
    <3> QED
      BY <2>1, <3>1, <3>2
  <2> QED
    BY <2>2, <2>3
<1>11. CompactedStaysCompacted'
  <2>1. last.sequence <= Latest(r).confirmed
    BY <1>1, <1>3
  <2> QED
    BY <1>5, <1>6, <1>7, <2>1 DEF CompactedStaysCompacted
<1> QED
  BY <1>0, <1>8, <1>9, <1>10, <1>11

-----------------------------------------------------------------------------
(* The invariant *)

\* Empty tables.
LEMMA InitEstablishesRetention == Init => RetentionInv
<1> SUFFICES ASSUME Init PROVE RetentionInv
  OBVIOUS
<1>1. StoreInv
  BY InitEstablishesInv
<1>2. RowsMatch
  BY DEF Init, RowsMatch
<1>3. FloorsAreOfWorkflows
  BY DEF Init, FloorsAreOfWorkflows, NoRegistry
<1>4. \A r \in Runs : ~HasHead(r) /\ EventsOf(r) = {}
  BY DEF Init, HasHead, NoHead, EventsOf
<1> QED
  BY <1>1, <1>2, <1>3, <1>4 DEF RetentionInv, ConfirmedIsKept, CompactedStaysCompacted

\* The calls of workers.
LEMMA WorkerKeepsRetention == RetentionInv /\ WorkerNext => RetentionInv'
<1> SUFFICES ASSUME RetentionInv, WorkerNext PROVE RetentionInv'
  OBVIOUS
<1>0. StoreInv'
  BY WorkerPreservesInv DEF RetentionInv
<1>1. ASSUME NEW r \in Runs, NEW identity \in Identities, NEW owner \in Owners \cup {NoOwner},
             NEW lease \in Leases, NEW stamp \in Stamps,
             Create(r, identity, owner, lease, stamp)
      PROVE  RetentionInv'
  BY <1>1, CreateKeepsRetention
<1>2. ASSUME NEW r \in Runs, NEW base \in CheckpointsOf(r), NEW owner \in Owners,
             NEW claim \in 1..MaxVersion, NEW identity \in Identities,
             NEW lease \in Leases, NEW stamp \in Stamps,
             Claim(r, base, owner, claim, identity, lease, stamp)
      PROVE  RetentionInv'
  <2>1. claim \in Nat
    OBVIOUS
  <2> QED
    BY <1>2, <2>1, ClaimKeepsRetention
<1>3. ASSUME NEW r \in Runs, NEW owner \in Owners, NEW claim \in 1..MaxVersion,
             NEW lease \in Leases, RenewLease(r, owner, claim, lease)
      PROVE  RetentionInv'
  <2>1. claim \in Nat
    OBVIOUS
  <2> QED
    BY <1>3, <2>1, RenewKeepsRetention
<1>4. ASSUME NEW r \in Runs, NEW base \in CheckpointsOf(r), NEW owner \in Owners \cup {NoOwner},
             NEW identity \in Identities, NEW status \in Status, NEW lease \in Leases,
             NEW progress \in Progress, NEW stamp \in Stamps,
             base.confirmed <= progress.confirmed,
             Acknowledged(r, progress.confirmed),
             Write(r, base, owner, identity, status, lease, progress, stamp)
      PROVE  RetentionInv'
  BY <1>4, WriteKeepsRetention
<1>5. ASSUME NEW r \in Runs, NEW sequence \in 1..MaxSequence, NEW payload \in Payloads,
             AppendPlain(r, sequence, payload)
      PROVE  RetentionInv'
  <2>1. sequence \in Nat \ {0} /\ 0 \in Nat /\ "journal" \in {"journal", "workflow"}
    OBVIOUS
  <2>2. /\ sequence > Ensured(r, "journal").floor
        /\ registry' = [registry EXCEPT ![r] = Ensured(r, "journal")]
        /\ AppendRunLog(r, sequence, payload, 0)
        /\ UNCHANGED <<heads, checkpoints, clock>>
    BY <1>5 DEF AppendPlain
  <2> QED
    BY <1>0, <2>1, <2>2, AppendKeepsRetention
<1>6. ASSUME NEW r \in Runs, NEW owner, NEW claim \in 1..MaxVersion,
             NEW sequence \in 1..MaxSequence, NEW payload \in Payloads,
             AppendFenced(r, owner, claim, sequence, payload)
      PROVE  RetentionInv'
  <2>1. sequence \in Nat \ {0} /\ claim \in Nat /\ "workflow" \in {"journal", "workflow"}
    OBVIOUS
  <2>2. /\ sequence > Ensured(r, "workflow").floor
        /\ registry' = [registry EXCEPT ![r] = Ensured(r, "workflow")]
        /\ AppendRunLog(r, sequence, payload, claim)
        /\ UNCHANGED <<heads, checkpoints, clock>>
    BY <1>6 DEF AppendFenced
  <2> QED
    BY <1>0, <2>1, <2>2, AppendKeepsRetention
<1> QED
  BY <1>1, <1>2, <1>3, <1>4, <1>5, <1>6 DEF WorkerNext

\* The transactions of retention.
LEMMA PurgeKeepsRetention == RetentionInv /\ PurgeNext => RetentionInv'
  BY EnrollKeepsRetention, DeleteKeepsRetention, CompactionKeepsRetention,
     JournalPurgeKeepsRetention
  DEF PurgeNext

\* A step that leaves the tables alone.
LEMMA StillKeepsRetention ==
  ASSUME RetentionInv, StoreInv', UNCHANGED tables
  PROVE  RetentionInv'
<1>1. \A r \in Runs : EventsOf(r)' = EventsOf(r) /\ (HasHead(r)' <=> HasHead(r))
                      /\ Latest(r)' = Latest(r)
  BY DEF tables, EventsOf, HasHead, Latest, CheckpointsOf
<1>2. RowsMatch' /\ FloorsAreOfWorkflows'
  BY DEF RetentionInv, tables, RowsMatch, FloorsAreOfWorkflows
<1>3. CompactedStaysCompacted'
  BY <1>1 DEF RetentionInv, tables, CompactedStaysCompacted
<1>4. ConfirmedIsKept'
  <2> SUFFICES ASSUME NEW q \in Runs, HasHead(q)'
               PROVE  \A s \in 1..Latest(q)'.confirmed :
                        \/ s <= registry'[q].floor
                        \/ \E e \in EventsOf(q)' : e.sequence = s
    BY DEF ConfirmedIsKept, Acknowledged
  <2> QED
    BY <1>1 DEF RetentionInv, tables, ConfirmedIsKept, Acknowledged
<1> QED
  BY <1>2, <1>3, <1>4 DEF RetentionInv

\* In every reachable state records and retention rows match, only workflow runs
\* have a floor, and what a run confirms is in its log or below the floor.
THEOREM RetentionInvariant == Spec => []RetentionInv
<1>1. Init => RetentionInv
  BY InitEstablishesRetention
<1>2. RetentionInv /\ StoreInv' /\ [Next]_vars => RetentionInv'
  <2> SUFFICES ASSUME RetentionInv, StoreInv', [Next]_vars PROVE RetentionInv'
    OBVIOUS
  <2>1. CASE Tick
    BY <2>1, StillKeepsRetention DEF Tick
  <2>2. CASE UNCHANGED vars
    BY <2>2, StillKeepsRetention DEF vars
  <2> QED
    BY <2>1, <2>2, WorkerKeepsRetention, PurgeKeepsRetention DEF Next
<1> QED
  BY <1>1, <1>2, StoreInvariant, PTL DEF Spec

\* The rows that v2MetadataGap looks for never appear (MetadataIsComplete).
THEOREM MetadataStaysComplete == Spec => []MetadataIsComplete
<1>1. RetentionInv => MetadataIsComplete
  <2> SUFFICES ASSUME RetentionInv PROVE MetadataIsComplete
    OBVIOUS
  <2> USE DEF RetentionInv, StoreInv
  <2>1. {[run |-> e.run, ordinal |-> e.ordinal] : e \in events}
          = {[run |-> x.run, ordinal |-> x.ordinal] : x \in retention}
    BY DEF RowsMatch
  <2>2. \A e \in events : e.run \in Runs /\ EventsOf(e.run) # {}
    BY DEF TypeOK, EventRow, EventsOf
  <2>3. \A c \in checkpoints : c.run \in Runs /\ CheckpointsOf(c.run) # {}
    BY DEF TypeOK, CheckpointRow, CheckpointsOf
  <2>4. \A r \in Runs : registry[r].state \in {"none", "active", "purging", "purged"}
    BY DEF TypeOK, RegistryRow
  <2>5. \A e \in events : registry[e.run].state \in {"active", "purging"}
    BY <2>2, <2>4 DEF RegistryAccounts
  <2>6. \A c \in checkpoints :
          registry[c.run].kind = "workflow" /\ registry[c.run].state \in {"active", "purging"}
    BY <2>3, <2>4 DEF RegistryAccounts
  <2> QED
    BY <2>1, <2>5, <2>6 DEF MetadataIsComplete, KeysAreUnique
<1> QED
  BY <1>1, RetentionInvariant, PTL

\* No late append brings a compacted record back (Append, AppendFenced,
\* PurgeConfirmedRunLog).
THEOREM CompactionIsFinal == Spec => []CompactedStaysCompacted
<1>1. RetentionInv => CompactedStaysCompacted
  BY DEF RetentionInv
<1> QED
  BY <1>1, RetentionInvariant, PTL

\* A cursor that List accepts never skips a confirmed record.
THEOREM ListsAreGapless == Spec => []ListHasNoSilentGap
<1>1. RetentionInv => ListHasNoSilentGap
  <2> SUFFICES ASSUME RetentionInv, NEW r \in Runs, HasHead(r), NEW after \in 0..MaxSequence,
                      ~ListRefused(r, after), NEW s \in (after + 1)..Latest(r).confirmed
               PROVE  \E e \in ListRows(r, after) : e.sequence = s
    BY DEF ListHasNoSilentGap
  <2>1. registry[r].kind = "workflow" /\ registry[r].state = "active"
    BY DEF RetentionInv, StoreInv, RegistryAccounts, ActiveWorkflow
  <2>2. registry[r].floor \in Nat /\ registry[r].floor <= after
    BY <2>1 DEF ListRefused, RetentionInv, StoreInv, TypeOK, RegistryRow
  <2>3. s \in 1..Latest(r).confirmed /\ ~(s <= registry[r].floor)
    BY <2>2
  <2>4. PICK e \in EventsOf(r) : e.sequence = s
    BY <2>3 DEF RetentionInv, ConfirmedIsKept, Acknowledged
  <2> QED
    BY <2>1, <2>4 DEF ListRows
<1> QED
  BY <1>1, RetentionInvariant, PTL

-----------------------------------------------------------------------------
(***************************************************************************)
(* What one step can do to the life of one run.  Every step touches one    *)
(* run and does to it one of seven things; the action properties           *)
(* EndedRunsOnlyShrink and LiveHistoryIsKept follow from the list.         *)
(***************************************************************************)

\* Nothing happens to run q.
RunSame(q) ==
  /\ registry'[q] = registry[q]
  /\ heads'[q] = heads[q]
  /\ CheckpointsOf(q)' = CheckpointsOf(q)
  /\ EventsOf(q)' = EventsOf(q)
  /\ RetentionOf(q)' = RetentionOf(q)

\* Create.
Starts(r) ==
  /\ registry[r].kind = "none"
  /\ ~HasHead(r)
  /\ EventsOf(r) = {}
  /\ registry'[r].kind = "workflow" /\ registry'[r].state = "active"
  /\ HasHead(r)' /\ heads'[r].status \in Live
  /\ Latest(r)'.claim \in {0, 1}
  /\ EventsOf(r)' = EventsOf(r)

\* Claim, RenewLease, Save, Finish.
Checkpoints(r) ==
  /\ HasHead(r) /\ Latest(r).status \in Live
  /\ HasHead(r)'
  /\ {c.version : c \in CheckpointsOf(r)} \subseteq {c.version : c \in CheckpointsOf(r)'}
  /\ \/ Latest(r)'.claim = Latest(r).claim + 1 /\ heads'[r].status \in Live
     \/ Latest(r)'.claim = Latest(r).claim
  /\ registry'[r] = registry[r]
  /\ EventsOf(r)' = EventsOf(r)

\* Append, AppendFenced.
Appends(r) ==
  /\ heads'[r] = heads[r] /\ CheckpointsOf(r)' = CheckpointsOf(r)
  /\ \/ registry[r].state = "active" /\ registry'[r] = registry[r]
     \/ /\ registry[r].kind = "none" /\ EventsOf(r)' # EventsOf(r)
        /\ registry'[r].kind = "journal" /\ registry'[r].state = "active"
  /\ \/ EventsOf(r)' = EventsOf(r)
     \/ \E e : /\ EventsOf(r)' = EventsOf(r) \cup {e}
               /\ e.ordinal \in 1..MaxOrdinal
               /\ \A f \in EventsOf(r) : f.ordinal < e.ordinal
               /\ \/ e.claim = 0
                  \/ /\ HasHead(r) /\ Latest(r).status \in Live
                     /\ e.claim = Latest(r).claim /\ e.claim > 0

\* enrollTerminalRun.
Retires(r) ==
  /\ ActiveWorkflow(r) /\ HasHead(r) /\ Terminal(Latest(r).status)
  /\ registry'[r].kind = "workflow" /\ registry'[r].state = "purging"
  /\ ~HasHead(r)'
  /\ CheckpointsOf(r)' = CheckpointsOf(r)
  /\ EventsOf(r)' = EventsOf(r)

\* deletePurgingHistory.
Drains(r) ==
  /\ registry[r].kind = "workflow" /\ registry[r].state = "purging"
  /\ ~HasHead(r) /\ ~HasHead(r)'
  /\ CheckpointsOf(r)' \subseteq CheckpointsOf(r)
  /\ EventsOf(r)' \subseteq EventsOf(r)
  /\ RetentionOf(r)' \subseteq RetentionOf(r)
  /\ \/ registry'[r] = registry[r]
     \/ /\ registry'[r].kind = "workflow" /\ registry'[r].state = "purged"
        /\ EventsOf(r)' = {}

\* PurgeRunLog.
Sheds(r) ==
  /\ registry[r].kind = "journal" /\ registry[r].state = "active"
  /\ ~HasHead(r) /\ ~HasHead(r)'
  /\ EventsOf(r)' \subseteq EventsOf(r)
  /\ \/ registry'[r] = registry[r]
     \/ registry'[r].kind = "none" /\ EventsOf(r)' = {}

\* PurgeConfirmedRunLog.
Compacts(r) ==
  /\ ActiveWorkflow(r) /\ HasHead(r) /\ Latest(r).status \in Live
  /\ heads'[r] = heads[r] /\ CheckpointsOf(r)' = CheckpointsOf(r)
  /\ registry'[r].kind = "workflow" /\ registry'[r].state = "active"
  /\ EventsOf(r)' \subseteq EventsOf(r)
  /\ \A e \in EventsOf(r) :
       \/ e \in EventsOf(r)'
       \/ e.sequence <= Latest(r).confirmed /\ e.sequence <= registry'[r].floor

OneRunStep(r) ==
  /\ \A q \in Runs : q # r => RunSame(q)
  /\ \/ Starts(r)
     \/ Checkpoints(r)
     \/ Appends(r)
     \/ Retires(r)
     \/ Drains(r)
     \/ Sheds(r)
     \/ Compacts(r)

-----------------------------------------------------------------------------
(* The actions, one by one *)

\* Create starts a run that had no row.
LEMMA CreateIsStart ==
  ASSUME RetentionInv, NEW r \in Runs, NEW identity \in Identities,
         NEW owner \in Owners \cup {NoOwner}, NEW lease \in Leases, NEW stamp \in Stamps,
         Create(r, identity, owner, lease, stamp)
  PROVE  OneRunStep(r)
<1> DEFINE row == [run |-> r, version |-> 1, identity |-> identity, status |-> "running",
                   owner |-> owner, claim |-> IF owner = NoOwner THEN 0 ELSE 1,
                   lease |-> ResolveLeaseExpiry(lease), confirmed |-> 0,
                   pending |-> FALSE, updated |-> stamp]
<1> USE DEF RetentionInv, StoreInv
<1>1. /\ checkpoints' = checkpoints \cup {row}
      /\ heads' = [heads EXCEPT ![r] = HeadOf(row)]
      /\ registry' = [registry EXCEPT ![r] = Ensured(r, "workflow")]
      /\ UNCHANGED <<events, retention>>
      /\ ~HasHead(r)
  BY DEF Create
<1>2. registry[r].kind = "none"
  BY DEF Create, EnsureAllowed, Ensured, RegistryAccounts, ActiveWorkflow
<1>3. CheckpointsOf(r) = {} /\ EventsOf(r) = {}
  BY <1>2 DEF RegistryAccounts
<1>4. /\ row.run = r /\ row.version \in Nat /\ row.claim \in {0, 1}
      /\ HeadOf(row).version = 1 /\ HeadOf(row).status \in Live
  BY DEF HeadOf, Live
<1> HIDE DEF row
<1>5. /\ CheckpointsOf(r)' = {row}
      /\ \A q \in Runs : q # r => CheckpointsOf(q)' = CheckpointsOf(q)
  BY <1>1, <1>3, <1>4 DEF CheckpointsOf
<1>6. Latest(r)' = row
  <2>1. /\ row \in CheckpointsOf(r)'
        /\ \A d \in CheckpointsOf(r)' : d = row
    BY <1>5
  <2>2. \A d \in CheckpointsOf(r)' : d.version \in Nat /\ d.version <= row.version
    BY <1>4, <2>1
  <2>3. \A c, d \in CheckpointsOf(r)' : c.version = d.version => c = d
    BY <2>1
  <2> QED
    BY <2>1, <2>2, <2>3, NewestOfKey DEF Latest
<1>7. \A q \in Runs : EventsOf(q)' = EventsOf(q) /\ RetentionOf(q)' = RetentionOf(q)
  BY <1>1 DEF EventsOf, RetentionOf
<1>8. /\ heads'[r] = HeadOf(row) /\ HasHead(r)'
      /\ registry'[r].kind = "workflow" /\ registry'[r].state = "active"
  BY <1>1, <1>2, <1>4 DEF TypeOK, HasHead, Ensured, NoRegistry
<1>9. \A q \in Runs : q # r => RunSame(q)
  BY <1>1, <1>5, <1>7 DEF RunSame, TypeOK
<1>10. Starts(r)
  BY <1>1, <1>2, <1>3, <1>4, <1>6, <1>7, <1>8 DEF Starts
<1> QED
  BY <1>9, <1>10 DEF OneRunStep

\* The next version, under the claim of the latest one or the claim after it.
LEMMA AdvanceIsCheckpoint ==
  ASSUME RetentionInv, NEW r \in Runs, HasHead(r), Latest(r).status \in Live,
         NEW row \in CheckpointRow, row.run = r,
         row.version = heads[r].version + 1,
         AdvanceCheckpoint(row, heads[r].version),
         \/ row.claim = Latest(r).claim + 1 /\ row.status \in Live
         \/ row.claim = Latest(r).claim
  PROVE  OneRunStep(r)
<1> USE DEF RetentionInv, StoreInv
<1>1. /\ CheckpointsOf(r)' = CheckpointsOf(r) \cup {row}
      /\ Latest(r)' = row
      /\ \A q \in Runs : q # r => CheckpointsOf(q)' = CheckpointsOf(q)
      /\ \A q \in Runs : HasHead(q)' <=> HasHead(q)
  BY AdvanceMakesLatest
<1>2. /\ heads' = [heads EXCEPT ![r] = HeadOf(row)]
      /\ UNCHANGED <<registry, events, retention>>
  BY DEF AdvanceCheckpoint
<1>3. \A q \in Runs : EventsOf(q)' = EventsOf(q) /\ RetentionOf(q)' = RetentionOf(q)
  BY <1>2 DEF EventsOf, RetentionOf
<1>4. heads'[r].status = row.status
  BY <1>2 DEF TypeOK, HeadOf
<1>5. \A q \in Runs : q # r => RunSame(q)
  BY <1>1, <1>2, <1>3 DEF RunSame, TypeOK
<1>6. Checkpoints(r)
  BY <1>1, <1>2, <1>3, <1>4 DEF Checkpoints
<1> QED
  BY <1>5, <1>6 DEF OneRunStep

\* Claim inserts a running version under the next claim.
LEMMA ClaimIsCheckpoint ==
  ASSUME RetentionInv, NEW r \in Runs, NEW base \in CheckpointsOf(r), NEW owner \in Owners,
         NEW claim \in Nat, NEW identity \in Identities, NEW lease \in Leases,
         NEW stamp \in Stamps,
         Claim(r, base, owner, claim, identity, lease, stamp)
  PROVE  OneRunStep(r)
<1> USE DEF RetentionInv
<1>1. HasHead(r) /\ Latest(r).status \in Live
  BY DEF Claim
<1>2. PICK row \in CheckpointRow :
        /\ row.run = r
        /\ row.version = heads[r].version + 1
        /\ row.claim = Latest(r).claim + 1
        /\ row.status = "running"
        /\ AdvanceCheckpoint(row, heads[r].version)
  BY ClaimInsertsRow
<1>3. row.status \in Live
  BY <1>2 DEF Live
<1> QED
  BY <1>1, <1>2, <1>3, AdvanceIsCheckpoint

\* Save and Finish insert a version under the current claim.
LEMMA WriteIsCheckpoint ==
  ASSUME RetentionInv, NEW r \in Runs, NEW base \in CheckpointsOf(r),
         NEW owner \in Owners \cup {NoOwner}, NEW identity \in Identities,
         NEW status \in Status, NEW lease \in Leases, NEW progress \in Progress,
         NEW stamp \in Stamps,
         Write(r, base, owner, identity, status, lease, progress, stamp)
  PROVE  OneRunStep(r)
<1> USE DEF RetentionInv
<1>1. HasHead(r) /\ Latest(r).status \in Live
  BY DEF Write, Terminal
<1>2. PICK row \in CheckpointRow :
        /\ row.run = r
        /\ row.version = heads[r].version + 1
        /\ row.claim = Latest(r).claim
        /\ AdvanceCheckpoint(row, heads[r].version)
  BY WriteInsertsRow
<1> QED
  BY <1>1, <1>2, AdvanceIsCheckpoint

\* RenewLease keeps version, claim and status.
LEMMA RenewIsCheckpoint ==
  ASSUME RetentionInv, NEW r \in Runs, NEW owner \in Owners,
         NEW claim \in Nat, NEW lease \in Leases, RenewLease(r, owner, claim, lease)
  PROVE  OneRunStep(r)
<1> USE DEF RetentionInv
<1>1. /\ HasHead(r) /\ Latest(r).status \in Live
      /\ UNCHANGED <<registry, heads, events, retention>>
  BY DEF RenewLease, HoldsFence, Live
<1>2. PICK renewed \in CheckpointRow :
        /\ renewed.claim = Latest(r).claim
        /\ renewed.version = Latest(r).version
        /\ CheckpointsOf(r)' = (CheckpointsOf(r) \ {Latest(r)}) \cup {renewed}
        /\ Latest(r)' = renewed
        /\ \A q \in Runs : q # r => CheckpointsOf(q)' = CheckpointsOf(q)
  BY RenewRewritesLatest
<1>3. \A q \in Runs : EventsOf(q)' = EventsOf(q) /\ RetentionOf(q)' = RetentionOf(q)
  BY <1>1 DEF EventsOf, RetentionOf
<1>4. {c.version : c \in CheckpointsOf(r)} \subseteq {c.version : c \in CheckpointsOf(r)'}
  BY <1>2
<1>5. HasHead(r)'
  BY <1>1 DEF HasHead
<1>6. \A q \in Runs : q # r => RunSame(q)
  BY <1>1, <1>2, <1>3 DEF RunSame
<1>7. Checkpoints(r)
  BY <1>1, <1>2, <1>3, <1>4, <1>5 DEF Checkpoints
<1> QED
  BY <1>6, <1>7 DEF OneRunStep

\* Append and AppendFenced, up to the conditions on the fence.
LEMMA AppendIsAppend ==
  ASSUME RetentionInv, NEW r \in Runs, NEW kind \in {"journal", "workflow"},
         NEW sequence \in Nat \ {0}, NEW payload \in Payloads, NEW claim \in Nat,
         EnsureAllowed(r, kind),
         kind = "workflow" => HasHead(r),
         claim # 0 => HasHead(r) /\ Latest(r).status \in Live /\ claim = Latest(r).claim,
         registry' = [registry EXCEPT ![r] = Ensured(r, kind)],
         AppendRunLog(r, sequence, payload, claim),
         UNCHANGED <<heads, checkpoints, clock>>
  PROVE  OneRunStep(r)
<1> DEFINE new == [run |-> r, sequence |-> sequence, ordinal |-> nextOrdinal,
                   payload |-> payload, claim |-> claim]
           kept == [run |-> r, ordinal |-> nextOrdinal, appendedAt |-> clock]
<1> USE DEF RetentionInv, StoreInv
<1>1. \A q \in Runs : CheckpointsOf(q)' = CheckpointsOf(q)
  BY LatestUnchanged
<1>2. \/ /\ events' = events \cup {new} /\ retention' = retention \cup {kept}
         /\ nextOrdinal <= MaxOrdinal
      \/ events' = events /\ retention' = retention /\ EventsOf(r) # {}
  <2>1. \A e \in EventsOf(r) : \E x \in retention : x.ordinal = e.ordinal
    BY DEF RowsMatch, EventsOf
  <2> QED
    BY <2>1 DEF AppendRunLog
<1>3. /\ new.run = r /\ new.ordinal = nextOrdinal /\ new.claim = claim
      /\ kept.run = r
  OBVIOUS
<1> HIDE DEF new, kept
<1>4. \A q \in Runs : q # r => EventsOf(q)' = EventsOf(q) /\ RetentionOf(q)' = RetentionOf(q)
  BY <1>2, <1>3 DEF EventsOf, RetentionOf
<1>5. \A q \in Runs : q # r => RunSame(q)
  BY <1>1, <1>4 DEF RunSame, TypeOK
<1>6. \/ EventsOf(r)' = EventsOf(r) /\ EventsOf(r) # {}
      \/ /\ EventsOf(r)' = EventsOf(r) \cup {new}
         /\ new \notin EventsOf(r)
         /\ new.ordinal \in 1..MaxOrdinal
         /\ \A f \in EventsOf(r) : f.ordinal < new.ordinal
  <2>1. nextOrdinal \in Nat \ {0} /\ MaxOrdinal \in Nat
    BY DBStoreAssumption DEF TypeOK
  <2>2. \A f \in EventsOf(r) : f.ordinal < nextOrdinal
    BY DEF KeysAreUnique, EventsOf
  <2>3. new \notin EventsOf(r)
    BY <1>3, <2>1, <2>2
  <2> QED
    BY <1>2, <1>3, <2>1, <2>2, <2>3 DEF EventsOf
<1>7. \/ registry[r].kind # "none" /\ registry[r].state = "active" /\ registry'[r] = registry[r]
      \/ /\ registry[r].kind = "none" /\ EventsOf(r) = {}
         /\ registry'[r].kind = "journal" /\ registry'[r].state = "active"
  BY DEF EnsureAllowed, Ensured, NoRegistry, RegistryAccounts, ActiveWorkflow, TypeOK
<1>8. claim = 0 \/ claim > 0
  OBVIOUS
<1>9. Appends(r)
  BY <1>1, <1>3, <1>6, <1>7, <1>8 DEF Appends, RegistryAccounts
<1> QED
  BY <1>5, <1>9 DEF OneRunStep

\* Enrolling takes the head of an ended run and keeps its rows.
LEMMA EnrollIsRetirement ==
  ASSUME RetentionInv, NEW r \in Runs, NEW before, NEW stamp \in Stamps,
         EnrollTerminalRun(r, before, stamp)
  PROVE  OneRunStep(r)
<1> USE DEF RetentionInv, StoreInv
<1>1. /\ heads' = [heads EXCEPT ![r] = NoHead]
      /\ registry' = [registry EXCEPT ![r].state = "purging", ![r].updated = stamp]
      /\ UNCHANGED <<checkpoints, events, retention>>
      /\ ActiveWorkflow(r) /\ HasHead(r) /\ Terminal(Latest(r).status)
  BY DEF EnrollTerminalRun, Enrollable
<1>2. \A q \in Runs : /\ CheckpointsOf(q)' = CheckpointsOf(q)
                      /\ EventsOf(q)' = EventsOf(q)
                      /\ RetentionOf(q)' = RetentionOf(q)
  BY <1>1 DEF CheckpointsOf, EventsOf, RetentionOf
<1>3. /\ registry'[r].kind = "workflow" /\ registry'[r].state = "purging"
      /\ ~HasHead(r)'
      /\ \A q \in Runs : q # r => registry'[q] = registry[q] /\ heads'[q] = heads[q]
  BY <1>1 DEF TypeOK, RegistryRow, HasHead, NoHead, ActiveWorkflow
<1>4. \A q \in Runs : q # r => RunSame(q)
  BY <1>2, <1>3 DEF RunSame
<1>5. Retires(r)
  BY <1>1, <1>2, <1>3 DEF Retires
<1> QED
  BY <1>4, <1>5 DEF OneRunStep

\* The retention rows of records of one run are rows of that run.
LEMMA DeletingTouchesOneRun ==
  ASSUME RetentionInv, NEW r \in Runs, NEW E \in SUBSET EventsOf(r),
         events' = events \ E, retention' = WithoutRetention(E)
  PROVE  /\ EventsOf(r)' = EventsOf(r) \ E
         /\ RetentionOf(r)' \subseteq RetentionOf(r)
         /\ \A q \in Runs : q # r => EventsOf(q)' = EventsOf(q) /\ RetentionOf(q)' = RetentionOf(q)
<1>1. \A e \in E, x \in retention : e.ordinal = x.ordinal => x.run = r
  <2> SUFFICES ASSUME NEW e \in E, NEW x \in retention, e.ordinal = x.ordinal
               PROVE  x.run = r
    OBVIOUS
  <2>1. PICK f \in events : f.run = x.run /\ f.ordinal = x.ordinal
    BY DEF RetentionInv, RowsMatch
  <2>2. e = f /\ e.run = r
    BY <2>1 DEF RetentionInv, StoreInv, KeysAreUnique, EventsOf
  <2> QED
    BY <2>1, <2>2
<1> QED
  BY <1>1 DEF EventsOf, RetentionOf, WithoutRetention

\* deletePurgingHistory removes rows of one purging run, at last the run itself.
LEMMA DeleteIsDrain ==
  ASSUME RetentionInv, NEW r \in Runs, NEW rows, NEW bytes,
         DeletePurgingHistory(r, rows, bytes)
  PROVE  OneRunStep(r)
<1> USE DEF RetentionInv, StoreInv
<1>1. PICK E \in SUBSET EventsOf(r), C \in SUBSET CheckpointsOf(r) :
        /\ events' = events \ E
        /\ retention' = WithoutRetention(E)
        /\ checkpoints' = checkpoints \ C
        /\ registry' = IF E = EventsOf(r) /\ C = CheckpointsOf(r)
                       THEN [registry EXCEPT ![r].state = "purged"]
                       ELSE registry
  <2>1. EventsWithin(r, rows, bytes) \subseteq EventsOf(r)
    BY DEF EventsWithin, WithinBudget
  <2>2. \A n, m : CheckpointsWithin(r, n, m) \subseteq CheckpointsOf(r)
    BY DEF CheckpointsWithin, WithinBudget
  <2> QED
    BY <2>1, <2>2 DEF DeletePurgingHistory
<1>2. /\ UNCHANGED heads
      /\ registry[r].kind = "workflow" /\ registry[r].state = "purging"
  BY DEF DeletePurgingHistory
<1>3. ~HasHead(r) /\ ~HasHead(r)'
  BY <1>2 DEF RegistryAccounts, ActiveWorkflow, HasHead
<1>4. /\ EventsOf(r)' = EventsOf(r) \ E
      /\ RetentionOf(r)' \subseteq RetentionOf(r)
      /\ \A q \in Runs : q # r => EventsOf(q)' = EventsOf(q) /\ RetentionOf(q)' = RetentionOf(q)
  BY <1>1, DeletingTouchesOneRun
<1>5. /\ CheckpointsOf(r)' \subseteq CheckpointsOf(r)
      /\ \A q \in Runs : q # r => CheckpointsOf(q)' = CheckpointsOf(q)
  BY <1>1 DEF CheckpointsOf
<1>6. /\ \A q \in Runs : q # r => registry'[q] = registry[q]
      /\ \/ registry'[r] = registry[r]
         \/ /\ registry'[r].kind = "workflow" /\ registry'[r].state = "purged"
            /\ EventsOf(r)' = {}
  BY <1>1, <1>2, <1>4 DEF TypeOK, RegistryRow
<1>7. \A q \in Runs : q # r => RunSame(q)
  BY <1>2, <1>4, <1>5, <1>6 DEF RunSame
<1>8. Drains(r)
  BY <1>2, <1>3, <1>4, <1>5, <1>6 DEF Drains
<1> QED
  BY <1>7, <1>8 DEF OneRunStep

\* PurgeRunLog removes records of one journal, with the last one the journal.
LEMMA JournalPurgeIsShedding ==
  ASSUME RetentionInv, NEW r \in Runs, NEW ordinals, NEW before,
         PurgeJournalEvents(r, ordinals, before)
  PROVE  OneRunStep(r)
<1> DEFINE eligible == EligibleRetention(r, ordinals, before)
           purged == {e \in EventsOf(r) : \E x \in eligible : x.ordinal = e.ordinal}
<1> USE DEF RetentionInv, StoreInv
<1>1. /\ retention' = {y \in retention : \A x \in eligible : x.ordinal # y.ordinal}
      /\ events' = events \ purged
      /\ registry' = IF purged = EventsOf(r)
                     THEN [registry EXCEPT ![r] = NoRegistry]
                     ELSE registry
      /\ registry[r].kind = "journal" /\ registry[r].state = "active"
      /\ UNCHANGED <<heads, checkpoints>>
  BY DEF PurgeJournalEvents, JournalPurgeable
<1>2. /\ \A x \in eligible : \E e \in purged : e.ordinal = x.ordinal
      /\ \A e \in purged : \E x \in eligible : x.ordinal = e.ordinal
      /\ purged \in SUBSET EventsOf(r)
  BY DEF RowsMatch, EligibleRetention, RetentionOf, EventsOf
<1> HIDE DEF eligible, purged
<1>3. retention' = WithoutRetention(purged)
  BY <1>1, <1>2 DEF WithoutRetention
<1>4. /\ EventsOf(r)' = EventsOf(r) \ purged
      /\ \A q \in Runs : q # r => EventsOf(q)' = EventsOf(q) /\ RetentionOf(q)' = RetentionOf(q)
  BY <1>1, <1>2, <1>3, DeletingTouchesOneRun
<1>5. ~HasHead(r) /\ ~HasHead(r)' /\ \A q \in Runs : CheckpointsOf(q)' = CheckpointsOf(q)
  BY <1>1 DEF RegistryAccounts, ActiveWorkflow, HasHead, CheckpointsOf
<1>6. /\ \A q \in Runs : q # r => registry'[q] = registry[q]
      /\ \/ registry'[r] = registry[r]
         \/ registry'[r].kind = "none" /\ EventsOf(r)' = {}
  BY <1>1, <1>4 DEF TypeOK, NoRegistry
<1>7. \A q \in Runs : q # r => RunSame(q)
  BY <1>1, <1>4, <1>5, <1>6 DEF RunSame
<1>8. Sheds(r)
  BY <1>1, <1>4, <1>5, <1>6 DEF Sheds
<1> QED
  BY <1>7, <1>8 DEF OneRunStep

\* PurgeConfirmedRunLog removes confirmed records up to the new floor.
LEMMA CompactionIsCompaction ==
  ASSUME RetentionInv, NEW r \in Runs, NEW before, NEW limit, NEW bytes,
         PurgeConfirmedRunLog(r, before, limit, bytes)
  PROVE  OneRunStep(r)
<1> DEFINE selected == ContiguousPrefix(r, before, limit, bytes)
<1> USE DEF RetentionInv, StoreInv
<1>1. PICK last \in selected :
        /\ \A e \in selected : e.sequence <= last.sequence
        /\ registry' = [registry EXCEPT ![r].floor = last.sequence]
  BY DEF PurgeConfirmedRunLog
<1>2. /\ ActiveWorkflow(r) /\ HasHead(r) /\ Latest(r).status \in Live
      /\ retention' = WithoutRetention(selected)
      /\ events' = events \ selected
      /\ UNCHANGED <<heads, checkpoints>>
  BY DEF PurgeConfirmedRunLog
<1>3. /\ selected \in SUBSET EventsOf(r)
      /\ \A e \in selected : e.sequence <= Latest(r).confirmed
  BY DEF ContiguousPrefix, ConfirmedCandidates
<1> HIDE DEF selected
<1>4. /\ EventsOf(r)' = EventsOf(r) \ selected
      /\ \A q \in Runs : q # r => EventsOf(q)' = EventsOf(q) /\ RetentionOf(q)' = RetentionOf(q)
  BY <1>2, <1>3, DeletingTouchesOneRun
<1>5. /\ registry'[r].kind = "workflow" /\ registry'[r].state = "active"
      /\ registry'[r].floor = last.sequence
      /\ \A q \in Runs : q # r => registry'[q] = registry[q]
  BY <1>1, <1>2 DEF ActiveWorkflow, TypeOK, RegistryRow
<1>6. \A q \in Runs : CheckpointsOf(q)' = CheckpointsOf(q)
  BY <1>2 DEF CheckpointsOf
<1>7. \A q \in Runs : q # r => RunSame(q)
  BY <1>2, <1>4, <1>5, <1>6 DEF RunSame
<1>8. Compacts(r)
  BY <1>1, <1>2, <1>3, <1>4, <1>5, <1>6 DEF Compacts
<1> QED
  BY <1>7, <1>8 DEF OneRunStep

-----------------------------------------------------------------------------
(* Every step *)

\* Every step but the clock's is a step of one run.
LEMMA StepIsOfOneRun ==
  ASSUME RetentionInv, Next
  PROVE  UNCHANGED tables \/ \E r \in Runs : OneRunStep(r)
<1>1. ASSUME NEW r \in Runs, NEW base \in CheckpointsOf(r), NEW owner \in Owners,
             NEW claim \in 1..MaxVersion, NEW identity \in Identities,
             NEW lease \in Leases, NEW stamp \in Stamps,
             Claim(r, base, owner, claim, identity, lease, stamp)
      PROVE  OneRunStep(r)
  <2>1. claim \in Nat
    OBVIOUS
  <2> QED
    BY <1>1, <2>1, ClaimIsCheckpoint
<1>2. ASSUME NEW r \in Runs, NEW owner \in Owners, NEW claim \in 1..MaxVersion,
             NEW lease \in Leases, RenewLease(r, owner, claim, lease)
      PROVE  OneRunStep(r)
  <2>1. claim \in Nat
    OBVIOUS
  <2> QED
    BY <1>2, <2>1, RenewIsCheckpoint
<1>3. ASSUME NEW r \in Runs, NEW sequence \in 1..MaxSequence, NEW payload \in Payloads,
             AppendPlain(r, sequence, payload)
      PROVE  OneRunStep(r)
  <2>1. sequence \in Nat \ {0} /\ 0 \in Nat
    OBVIOUS
  <2>2. /\ EnsureAllowed(r, "journal")
        /\ registry' = [registry EXCEPT ![r] = Ensured(r, "journal")]
        /\ AppendRunLog(r, sequence, payload, 0)
        /\ UNCHANGED <<heads, checkpoints, clock>>
    BY <1>3 DEF AppendPlain
  <2> QED
    BY <2>1, <2>2, AppendIsAppend
<1>4. ASSUME NEW r \in Runs, NEW owner, NEW claim \in 1..MaxVersion,
             NEW sequence \in 1..MaxSequence, NEW payload \in Payloads,
             AppendFenced(r, owner, claim, sequence, payload)
      PROVE  OneRunStep(r)
  <2>1. sequence \in Nat \ {0} /\ claim \in Nat
    OBVIOUS
  <2>2. /\ EnsureAllowed(r, "workflow")
        /\ registry' = [registry EXCEPT ![r] = Ensured(r, "workflow")]
        /\ AppendRunLog(r, sequence, payload, claim)
        /\ UNCHANGED <<heads, checkpoints, clock>>
        /\ HasHead(r) /\ Latest(r).status \in Live /\ claim = Latest(r).claim
    BY <1>4 DEF AppendFenced, HoldsFence, Live
  <2> QED
    BY <2>1, <2>2, AppendIsAppend
<1>5. ASSUME WorkerNext PROVE \E r \in Runs : OneRunStep(r)
  <2>0. PICK r \in Runs : \/ WorkerCreates(r) \/ WorkerClaims(r) \/ WorkerRenews(r)
                          \/ WorkerWrites(r) \/ WorkerAppendsPlain(r) \/ WorkerAppendsFenced(r)
    BY <1>5, WorkerMakesOneCall
  <2>1. CASE WorkerCreates(r)
    BY CreateIsStart, <2>1 DEF WorkerCreates
  <2>2. CASE WorkerClaims(r)
    BY <1>1, <2>2 DEF WorkerClaims
  <2>3. CASE WorkerRenews(r)
    BY <1>2, <2>3 DEF WorkerRenews
  <2>4. CASE WorkerWrites(r)
    BY WriteIsCheckpoint, <2>4 DEF WorkerWrites
  <2>5. CASE WorkerAppendsPlain(r)
    BY <1>3, <2>5 DEF WorkerAppendsPlain
  <2>6. CASE WorkerAppendsFenced(r)
    BY <1>4, <2>6 DEF WorkerAppendsFenced
  <2> QED BY <2>0, <2>1, <2>2, <2>3, <2>4, <2>5, <2>6
<1>6. PurgeNext => \E r \in Runs : OneRunStep(r)
  BY EnrollIsRetirement, DeleteIsDrain, CompactionIsCompaction, JournalPurgeIsShedding
  DEF PurgeNext
<1>7. Tick => UNCHANGED tables
  BY DEF Tick
<1> QED
  BY <1>5, <1>6, <1>7 DEF Next

\* What EndedRunsOnlyShrink says of one run.
OnlyShrinks(r) ==
  /\ Ended(r) => /\ Ended(r)'
                 /\ CheckpointsOf(r)' \subseteq CheckpointsOf(r)
                 /\ {e \in EventsOf(r)' : e.claim # 0} \subseteq EventsOf(r)
  /\ Retired(r) => /\ EventsOf(r)' \subseteq EventsOf(r)
                   /\ RetentionOf(r)' \subseteq RetentionOf(r)
  /\ registry[r].state = "purged" => UNCHANGED registry[r]

\* What LiveHistoryIsKept says of one run.
KeepsLive(r) ==
  HasHead(r) /\ Latest(r).status \in Live =>
    /\ {c.version : c \in CheckpointsOf(r)} \subseteq {c.version : c \in CheckpointsOf(r)'}
    /\ \A e \in EventsOf(r) :
         \/ e \in EventsOf(r)'
         \/ e.sequence <= Latest(r).confirmed /\ e.sequence <= registry[r].floor'

\* What a step does not touch keeps both properties.
LEMMA SameKeepsRun ==
  ASSUME NEW q \in Runs, RunSame(q)
  PROVE  OnlyShrinks(q) /\ KeepsLive(q)
<1>1. Latest(q)' = Latest(q) /\ (HasHead(q)' <=> HasHead(q))
  BY DEF RunSame, Latest, HasHead
<1> QED
  BY <1>1 DEF RunSame, OnlyShrinks, KeepsLive, Ended, Retired

\* The run a step touches keeps both properties.
LEMMA StepKeepsRun ==
  ASSUME RetentionInv, NEW r \in Runs, OneRunStep(r)
  PROVE  OnlyShrinks(r) /\ KeepsLive(r)
<1> USE DEF RetentionInv, StoreInv
<1>0. /\ HasHead(r) <=> ActiveWorkflow(r)
      /\ registry[r].kind = "none" <=> registry[r].state = "none"
  BY DEF RegistryAccounts
<1>1. CASE Starts(r)
  BY <1>0, <1>1 DEF Starts, OnlyShrinks, KeepsLive, Ended, Retired
<1>2. CASE Checkpoints(r)
  BY <1>0, <1>2 DEF Checkpoints, OnlyShrinks, KeepsLive, Ended, Retired, Terminal, ActiveWorkflow
<1>3. CASE Appends(r)
  <2>1. ~Retired(r)
    BY <1>0, <1>3 DEF Appends, Retired
  <2>2. Latest(r)' = Latest(r) /\ (HasHead(r)' <=> HasHead(r))
    BY <1>3 DEF Appends, Latest, HasHead
  <2>3. EventsOf(r) \subseteq EventsOf(r)'
    BY <1>3 DEF Appends
  <2>4. Ended(r) => {e \in EventsOf(r)' : e.claim # 0} \subseteq EventsOf(r)
    BY <1>3, <2>1 DEF Appends, Ended, Terminal
  <2>5. CheckpointsOf(r)' = CheckpointsOf(r)
    BY <1>3 DEF Appends
  <2> QED
    BY <2>1, <2>2, <2>3, <2>4, <2>5 DEF OnlyShrinks, KeepsLive, Ended, Retired
<1>4. CASE Retires(r)
  BY <1>4 DEF Retires, OnlyShrinks, KeepsLive, Ended, Retired, Terminal, ActiveWorkflow
<1>5. CASE Drains(r)
  BY <1>5 DEF Drains, OnlyShrinks, KeepsLive, Ended, Retired
<1>6. CASE Sheds(r)
  BY <1>6 DEF Sheds, OnlyShrinks, KeepsLive, Ended, Retired
<1>7. CASE Compacts(r)
  BY <1>7 DEF Compacts, OnlyShrinks, KeepsLive, Ended, Retired, Terminal, ActiveWorkflow
<1> QED
  BY <1>1, <1>2, <1>3, <1>4, <1>5, <1>6, <1>7 DEF OneRunStep

\* Both properties of a step, for every run.
LEMMA StepKeepsRuns ==
  ASSUME RetentionInv, [Next]_vars
  PROVE  \A q \in Runs : (OnlyShrinks(q) /\ KeepsLive(q)) \/ UNCHANGED vars
<1>1. CASE UNCHANGED tables
  <2>1. \A q \in Runs : RunSame(q)
    BY <1>1 DEF tables, RunSame, CheckpointsOf, EventsOf, RetentionOf
  <2> QED
    BY <2>1, SameKeepsRun
<1>2. CASE \E r \in Runs : OneRunStep(r)
  BY <1>2, StepKeepsRun, SameKeepsRun DEF OneRunStep
<1> QED
  BY <1>1, <1>2, StepIsOfOneRun

\* A run that finished or was retired gets no new checkpoint and no new fenced
\* record, and a tombstone stays (enrollTerminalRun, ensureRunRegistry).
THEOREM EndedRunsStayEnded == Spec => EndedRunsOnlyShrink
<1>1. RetentionInv /\ [Next]_vars =>
        [\A r \in Runs :
           /\ Ended(r) => /\ Ended(r)'
                          /\ CheckpointsOf(r)' \subseteq CheckpointsOf(r)
                          /\ {e \in EventsOf(r)' : e.claim # 0} \subseteq EventsOf(r)
           /\ Retired(r) => /\ EventsOf(r)' \subseteq EventsOf(r)
                            /\ RetentionOf(r)' \subseteq RetentionOf(r)
           /\ registry[r].state = "purged" => UNCHANGED registry[r]]_vars
  BY StepKeepsRuns DEF OnlyShrinks
<1> QED
  BY <1>1, RetentionInvariant, PTL DEF Spec, EndedRunsOnlyShrink

\* No step takes from a live run what its recovery needs (PurgeConfirmedRunLog,
\* PurgeTerminalRuns).
THEOREM LiveRunsKeepHistory == Spec => LiveHistoryIsKept
<1>1. RetentionInv /\ [Next]_vars =>
        [\A r \in Runs :
           HasHead(r) /\ Latest(r).status \in Live =>
             /\ {c.version : c \in CheckpointsOf(r)} \subseteq {c.version : c \in CheckpointsOf(r)'}
             /\ \A e \in EventsOf(r) :
                  \/ e \in EventsOf(r)'
                  \/ e.sequence <= Latest(r).confirmed /\ e.sequence <= registry[r].floor']_vars
  BY StepKeepsRuns DEF KeepsLive
<1> QED
  BY <1>1, RetentionInvariant, PTL DEF Spec, LiveHistoryIsKept

-----------------------------------------------------------------------------
(* The Store implements DurableRun: each of the seven things a step can do  *)
(* to a run is an action of DurableRun or leaves what it sees of the run    *)
(* alone.                                                                   *)

\* A run that nothing happens to looks the same.
LEMMA SameLooksSame ==
  ASSUME NEW q \in Runs, RunSame(q)
  PROVE  PhaseOf(q)' = PhaseOf(q) /\ TokenOf(q)' = TokenOf(q) /\ LogOf(q)' = LogOf(q)
<1>1. Latest(q)' = Latest(q) /\ (HasHead(q)' <=> HasHead(q))
  BY DEF RunSame, Latest, HasHead
<1>2. ActiveWorkflow(q)' <=> ActiveWorkflow(q)
  BY DEF RunSame, ActiveWorkflow
<1>3. PhaseOf(q)' = PhaseOf(q)
  BY <1>2 DEF RunSame, PhaseOf
<1>4. TokenOf(q)' = TokenOf(q) /\ LogOf(q)' = LogOf(q)
  BY <1>1 DEF RunSame, TokenOf, LogOf
<1> QED
  BY <1>3, <1>4

\* A head has the status of the checkpoint recovery reads.
LEMMA HeadStatus ==
  ASSUME RetentionInv, NEW r \in Runs, HasHead(r)
  PROVE  heads[r].status = Latest(r).status
<1>1. TypeOK /\ KeysAreUnique /\ HeadIsNewest
  BY DEF RetentionInv, StoreInv
<1>2. heads[r] = HeadOf(Latest(r))
  BY <1>1, LatestOfHead
<1> QED
  BY <1>2 DEF HeadOf

\* The phase of a run, from its registry row and its latest checkpoint.
LEMMA PhaseCases ==
  ASSUME RetentionInv, NEW r \in Runs
  PROVE  /\ registry[r].kind = "none" => PhaseOf(r) = "absent" /\ ~HasHead(r) /\ EventsOf(r) = {}
         /\ registry[r].kind = "journal" => PhaseOf(r) = "journal" /\ ~HasHead(r)
         /\ HasHead(r) /\ Latest(r).status \in Live => PhaseOf(r) = "open"
         /\ HasHead(r) /\ Latest(r).status \notin Live => PhaseOf(r) = "ended"
         /\ registry[r].kind = "workflow" /\ registry[r].state = "purging" =>
              PhaseOf(r) = "retired" /\ ~HasHead(r)
         /\ registry[r].state = "active" => PhaseOf(r) \in {"journal", "open", "ended"}
<1> USE DEF RetentionInv, StoreInv
<1>1. /\ HasHead(r) <=> ActiveWorkflow(r)
      /\ registry[r].kind = "none" <=> registry[r].state = "none"
      /\ registry[r].kind = "none" => EventsOf(r) = {}
      /\ registry[r].kind \in {"none", "journal", "workflow"}
  BY DEF RegistryAccounts, TypeOK, RegistryRow
<1>2. HasHead(r) => heads[r].status = Latest(r).status
  BY HeadStatus
<1> QED
  BY <1>1, <1>2 DEF PhaseOf, ActiveWorkflow

\* A step of one run is a step of DurableRun, or one it does not see
\* (the transactions of operations.go and retention.go).
LEMMA OneRunStepImplements ==
  ASSUME RetentionInv, NEW r \in Runs, OneRunStep(r)
  PROVE  [Run!RunNext]_(Run!runVars)
<1> DEFINE phase == [q \in Runs |-> PhaseOf(q)]
           token == [q \in Runs |-> TokenOf(q)]
           log == [q \in Runs |-> LogOf(q)]
<1>1. /\ phase' = [phase EXCEPT ![r] = PhaseOf(r)']
      /\ token' = [token EXCEPT ![r] = TokenOf(r)']
      /\ log' = [log EXCEPT ![r] = LogOf(r)']
  BY SameLooksSame DEF OneRunStep
<1>2. phase[r] = PhaseOf(r) /\ token[r] = TokenOf(r) /\ log[r] = LogOf(r)
  OBVIOUS
<1>3. /\ PhaseOf(r)' = PhaseOf(r) => phase' = phase
      /\ TokenOf(r)' = TokenOf(r) => token' = token
      /\ LogOf(r)' = LogOf(r) => log' = log
  BY <1>1
<1>4. EventsOf(r)' = EventsOf(r) => LogOf(r)' = LogOf(r)
  BY DEF LogOf
<1>5. EventsOf(r)' \subseteq EventsOf(r) => LogOf(r)' \in SUBSET LogOf(r)
  BY DEF LogOf
<1>6. ~HasHead(r) /\ ~HasHead(r)' => TokenOf(r) = 0 /\ TokenOf(r)' = 0
  BY DEF TokenOf
<1> HIDE DEF phase, token, log
<1>10. CASE Starts(r)
  <2>1. PhaseOf(r) = "absent"
    BY <1>10, PhaseCases DEF Starts
  <2>2. PhaseOf(r)' = "open"
    BY <1>10 DEF Starts, PhaseOf, ActiveWorkflow
  <2>3. TokenOf(r)' \in {0, 1} /\ LogOf(r)' = LogOf(r)
    BY <1>10, <1>4 DEF Starts, TokenOf
  <2>4. Run!Start(r)
    BY <1>1, <1>2, <1>3, <2>1, <2>2, <2>3 DEF Run!Start, phase, token, log
  <2> QED
    BY <2>4 DEF Run!RunNext
<1>20. CASE Checkpoints(r)
  <2>1. PhaseOf(r) = "open" /\ LogOf(r)' = LogOf(r)
    BY <1>20, <1>4, PhaseCases DEF Checkpoints
  <2>2. ActiveWorkflow(r)' /\ ActiveWorkflow(r)
    BY <1>20 DEF Checkpoints, RetentionInv, StoreInv, RegistryAccounts, ActiveWorkflow
  <2>3. PhaseOf(r)' = IF heads'[r].status \in Live THEN "open" ELSE "ended"
    BY <2>2 DEF PhaseOf, ActiveWorkflow
  <2>4. TokenOf(r) = Latest(r).claim /\ TokenOf(r)' = Latest(r)'.claim
    BY <1>20 DEF Checkpoints, TokenOf
  <2>5. CASE TokenOf(r)' = TokenOf(r) + 1 /\ PhaseOf(r)' = "open"
    <3>1. Run!Grant(r)
      BY <1>1, <1>2, <1>3, <2>1, <2>5 DEF Run!Grant, phase, token, log
    <3> QED
      BY <3>1 DEF Run!RunNext
  <2>6. CASE TokenOf(r)' = TokenOf(r) /\ PhaseOf(r)' = "open"
    BY <1>3, <2>1, <2>6 DEF Run!runVars, phase, token, log
  <2>7. CASE TokenOf(r)' = TokenOf(r) /\ PhaseOf(r)' = "ended"
    <3>1. Run!End(r)
      BY <1>1, <1>2, <1>3, <2>1, <2>7 DEF Run!End, phase, token, log
    <3> QED
      BY <3>1 DEF Run!RunNext
  <2> QED
    BY <1>20, <2>3, <2>4, <2>5, <2>6, <2>7 DEF Checkpoints
<1>30. CASE Appends(r)
  <2>1. Latest(r)' = Latest(r) /\ (HasHead(r)' <=> HasHead(r)) /\ TokenOf(r)' = TokenOf(r)
    BY <1>30 DEF Appends, Latest, HasHead, TokenOf
  <2>2. \/ PhaseOf(r) \in {"journal", "open", "ended"} /\ PhaseOf(r)' = PhaseOf(r)
        \/ /\ PhaseOf(r) = "absent" /\ ~HasHead(r) /\ PhaseOf(r)' = "journal"
           /\ EventsOf(r)' # EventsOf(r)
    <3>1. CASE registry[r].state = "active" /\ registry'[r] = registry[r]
      <4>1. PhaseOf(r)' = PhaseOf(r)
        BY <1>30, <3>1 DEF Appends, PhaseOf, ActiveWorkflow
      <4> QED
        BY <3>1, <4>1, PhaseCases
    <3>2. CASE /\ registry[r].kind = "none" /\ EventsOf(r)' # EventsOf(r)
               /\ registry'[r].kind = "journal" /\ registry'[r].state = "active"
      <4>1. PhaseOf(r)' = "journal"
        BY <3>2 DEF PhaseOf, ActiveWorkflow
      <4> QED
        BY <3>2, <4>1, PhaseCases
    <3> QED
      BY <1>30, <3>1, <3>2 DEF Appends
  <2>3. CASE EventsOf(r)' = EventsOf(r)
    BY <1>3, <1>4, <2>1, <2>2, <2>3 DEF Run!runVars, phase, token, log
  <2>4. CASE EventsOf(r)' # EventsOf(r)
    <3>1. PICK e : /\ EventsOf(r)' = EventsOf(r) \cup {e}
                   /\ e.ordinal \in 1..MaxOrdinal
                   /\ \A f \in EventsOf(r) : f.ordinal < e.ordinal
                   /\ \/ e.claim = 0
                      \/ /\ HasHead(r) /\ Latest(r).status \in Live
                         /\ e.claim = Latest(r).claim /\ e.claim > 0
      BY <1>30, <2>4 DEF Appends
    <3>2. LogOf(r)' = LogOf(r) \cup {[position |-> e.ordinal, token |-> e.claim]}
      BY <3>1 DEF LogOf
    <3>3. \A f \in LogOf(r) : f.position < e.ordinal
      BY <3>1 DEF LogOf
    <3>4. Run!Extend(r, e.claim)
      BY <1>1, <1>2, <3>1, <3>2, <3>3 DEF Run!Extend, log
    <3>5. CASE e.claim = 0
      <4>1. phase' = [phase EXCEPT ![r] = IF @ = "absent" THEN "journal" ELSE @]
        BY <1>1, <1>2, <2>2
      <4>2. Run!AppendWithoutToken(r)
        BY <1>2, <1>3, <2>1, <2>2, <3>4, <3>5, <4>1
        DEF Run!AppendWithoutToken, phase, token
      <4> QED
        BY <4>2 DEF Run!RunNext
    <3>6. CASE /\ HasHead(r) /\ Latest(r).status \in Live
               /\ e.claim = Latest(r).claim /\ e.claim > 0
      <4>1. PhaseOf(r) = "open" /\ TokenOf(r) = e.claim
        BY <3>6, PhaseCases DEF TokenOf
      <4>2. phase' = phase /\ token' = token
        BY <1>3, <2>1, <2>2, <4>1
      <4>3. Run!AppendWithToken(r)
        BY <1>2, <3>4, <3>6, <4>1, <4>2 DEF Run!AppendWithToken, phase, token
      <4> QED
        BY <4>3 DEF Run!RunNext
    <3> QED
      BY <3>1, <3>5, <3>6
  <2> QED
    BY <2>3, <2>4
<1>40. CASE Retires(r)
  <2>1. PhaseOf(r) = "ended" /\ LogOf(r)' = LogOf(r)
    BY <1>4, <1>40, PhaseCases DEF Retires, Terminal
  <2>2. PhaseOf(r)' = "retired" /\ TokenOf(r)' = 0
    BY <1>40 DEF Retires, PhaseOf, ActiveWorkflow, TokenOf
  <2>3. Run!Retire(r)
    BY <1>1, <1>2, <1>3, <2>1, <2>2 DEF Run!Retire, phase, token, log
  <2> QED
    BY <2>3 DEF Run!RunNext
<1>50. CASE Drains(r)
  <2>1. PhaseOf(r) = "retired" /\ TokenOf(r)' = TokenOf(r) /\ LogOf(r)' \in SUBSET LogOf(r)
    BY <1>5, <1>6, <1>50, PhaseCases DEF Drains
  <2>2. CASE registry'[r] = registry[r]
    <3>1. PhaseOf(r)' = PhaseOf(r)
      BY <1>50, <2>2 DEF Drains, PhaseOf, ActiveWorkflow
    <3>2. Run!Trim(r)
      BY <1>1, <1>2, <1>3, <2>1, <3>1 DEF Run!Trim, phase, token, log
    <3> QED
      BY <3>2 DEF Run!RunNext
  <2>3. CASE /\ registry'[r].kind = "workflow" /\ registry'[r].state = "purged"
             /\ EventsOf(r)' = {}
    <3>1. PhaseOf(r)' = "gone" /\ LogOf(r)' = {}
      BY <2>3 DEF PhaseOf, ActiveWorkflow, LogOf
    <3>2. Run!Bury(r)
      BY <1>1, <1>2, <1>3, <2>1, <3>1 DEF Run!Bury, phase, token, log
    <3> QED
      BY <3>2 DEF Run!RunNext
  <2> QED
    BY <1>50, <2>2, <2>3 DEF Drains
<1>60. CASE Sheds(r)
  <2>1. PhaseOf(r) = "journal" /\ TokenOf(r)' = TokenOf(r) /\ LogOf(r)' \in SUBSET LogOf(r)
    BY <1>5, <1>6, <1>60, PhaseCases DEF Sheds
  <2>2. CASE registry'[r] = registry[r]
    <3>1. PhaseOf(r)' = PhaseOf(r)
      BY <1>60, <2>2 DEF Sheds, PhaseOf, ActiveWorkflow
    <3>2. Run!Trim(r)
      BY <1>1, <1>2, <1>3, <2>1, <3>1 DEF Run!Trim, phase, token, log
    <3> QED
      BY <3>2 DEF Run!RunNext
  <2>3. CASE registry'[r].kind = "none" /\ EventsOf(r)' = {}
    <3>1. PhaseOf(r)' = "absent" /\ LogOf(r)' = {}
      BY <2>3 DEF PhaseOf, ActiveWorkflow, LogOf
    <3>2. Run!Forget(r)
      BY <1>1, <1>2, <1>3, <2>1, <3>1 DEF Run!Forget, phase, token, log
    <3> QED
      BY <3>2 DEF Run!RunNext
  <2> QED
    BY <1>60, <2>2, <2>3 DEF Sheds
<1>70. CASE Compacts(r)
  <2>1. PhaseOf(r) = "open" /\ LogOf(r)' \in SUBSET LogOf(r)
    BY <1>5, <1>70, PhaseCases DEF Compacts
  <2>2. TokenOf(r)' = TokenOf(r)
    BY <1>70 DEF Compacts, TokenOf, HasHead, Latest
  <2>3. PhaseOf(r)' = "open"
    <3>1. heads'[r].status \in Live
      BY <1>70, HeadStatus DEF Compacts
    <3> QED
      BY <1>70, <3>1 DEF Compacts, PhaseOf, ActiveWorkflow
  <2>4. Run!Trim(r)
    BY <1>1, <1>2, <1>3, <2>1, <2>2, <2>3 DEF Run!Trim, phase, token, log
  <2> QED
    BY <2>4 DEF Run!RunNext
<1> QED
  BY <1>10, <1>20, <1>30, <1>40, <1>50, <1>60, <1>70 DEF OneRunStep

\* Every behaviour of the Store is one that DurableRun allows: a RunID lives
\* once, only the current claim appends fenced records, the log grows at its
\* end, and a retired RunID never opens again.
THEOREM StoreImplementsDurableRun == Spec => ImplementsDurableRun
<1>1. Init => Run!RunInit
  <2> SUFFICES ASSUME Init
               PROVE  \A r \in Runs : PhaseOf(r) = "absent" /\ TokenOf(r) = 0 /\ LogOf(r) = {}
    BY DEF Run!RunInit
  <2> SUFFICES ASSUME NEW r \in Runs
               PROVE  PhaseOf(r) = "absent" /\ TokenOf(r) = 0 /\ LogOf(r) = {}
    OBVIOUS
  <2>1. registry[r].kind = "none" /\ heads[r].version = 0 /\ EventsOf(r) = {}
    BY DEF Init, NoRegistry, NoHead, EventsOf
  <2>2. PhaseOf(r) = "absent"
    BY <2>1 DEF PhaseOf, ActiveWorkflow
  <2> QED
    BY <2>1, <2>2 DEF TokenOf, HasHead, LogOf
<1>2. UNCHANGED tables => UNCHANGED Run!runVars
  <2>1. UNCHANGED tables => \A q \in Runs : RunSame(q)
    BY DEF tables, RunSame, CheckpointsOf, EventsOf, RetentionOf
  <2> QED
    BY <2>1, SameLooksSame DEF Run!runVars
<1>3. RetentionInv /\ [Next]_vars => [Run!RunNext]_(Run!runVars)
  BY <1>2, StepIsOfOneRun, OneRunStepImplements DEF vars
<1> QED
  BY <1>1, <1>3, RetentionInvariant, PTL DEF Spec, ImplementsDurableRun, Run!RunSpec

-----------------------------------------------------------------------------
(* The retention calls make only steps of DBStore, so its theorems hold      *)
(* beside them, no call deletes more than its budget, and PurgeRunLog        *)
(* deletes nothing it did not select.  The budget is about the sizes of sets *)
(* of rows: first come the sums that MapThenSumSet computes, then what a     *)
(* select or a deletion takes, then the accounts of the calls.               *)

-----------------------------------------------------------------------------
(* The sizes of sets of rows *)

\* The size of records is the sum of their sizes.
LEMMA BytesAreSummed ==
  ASSUME NEW S, IsFiniteSet(S), NEW w \in [S -> Nat], \A e \in S : w[e] = BytesOf(e),
         NEW f \in SetSums(S, w)
  PROVE MapThenSumSet(BytesOf, S) = f[S]
<1> DEFINE Add(g) == [t \in SUBSET S |-> IF t = {} THEN 0 ELSE BytesOf(CHOOSE e \in t : TRUE) + g[t \ {CHOOSE e \in t : TRUE}]]
           sum == CHOOSE g : g = Add(g)
<1>1. MapThenSumSet(BytesOf, S) = sum[S]
  BY DEF MapThenSumSet, MapThenFoldSet
<1>2. ASSUME NEW g PROVE Add(g) = AddOne(S, w, g)
  <2>1. \A t \in SUBSET S : t # {} => BytesOf(CHOOSE e \in t : TRUE) = w[CHOOSE e \in t : TRUE]
    OBVIOUS
  <2> QED BY <2>1 DEF AddOne
<1>3. PICK g : g = AddOne(S, w, g)
  BY AddingExists
<1>4. g = Add(g)
  BY <1>2, <1>3
<1> HIDE DEF Add
<1>5. sum = Add(sum)
  BY <1>4 DEF sum
<1> HIDE DEF sum
<1>6. sum = AddOne(S, w, sum)
  BY <1>2, <1>5
<1>7. sum[S] = f[S]
  BY <1>6, SumIsUnique
<1> QED BY <1>1, <1>7

\* So is that of the records of retention rows,
LEMMA RetainedBytesAreSummed ==
  ASSUME NEW S, IsFiniteSet(S), NEW w \in [S -> Nat], \A e \in S : w[e] = RetainedBytes(e),
         NEW f \in SetSums(S, w)
  PROVE MapThenSumSet(RetainedBytes, S) = f[S]
<1> DEFINE Add(g) == [t \in SUBSET S |-> IF t = {} THEN 0 ELSE RetainedBytes(CHOOSE e \in t : TRUE) + g[t \ {CHOOSE e \in t : TRUE}]]
           sum == CHOOSE g : g = Add(g)
<1>1. MapThenSumSet(RetainedBytes, S) = sum[S]
  BY DEF MapThenSumSet, MapThenFoldSet
<1>2. ASSUME NEW g PROVE Add(g) = AddOne(S, w, g)
  <2>1. \A t \in SUBSET S : t # {} => RetainedBytes(CHOOSE e \in t : TRUE) = w[CHOOSE e \in t : TRUE]
    OBVIOUS
  <2> QED BY <2>1 DEF AddOne
<1>3. PICK g : g = AddOne(S, w, g)
  BY AddingExists
<1>4. g = Add(g)
  BY <1>2, <1>3
<1> HIDE DEF Add
<1>5. sum = Add(sum)
  BY <1>4 DEF sum
<1> HIDE DEF sum
<1>6. sum = AddOne(S, w, sum)
  BY <1>2, <1>5
<1>7. sum[S] = f[S]
  BY <1>6, SumIsUnique
<1> QED BY <1>1, <1>7

\* and that of checkpoints.
LEMMA CheckpointSizesAreSummed ==
  ASSUME NEW S, IsFiniteSet(S), NEW w \in [S -> Nat], \A e \in S : w[e] = CheckpointSize(e),
         NEW f \in SetSums(S, w)
  PROVE MapThenSumSet(CheckpointSize, S) = f[S]
<1> DEFINE Add(g) == [t \in SUBSET S |-> IF t = {} THEN 0 ELSE CheckpointSize(CHOOSE e \in t : TRUE) + g[t \ {CHOOSE e \in t : TRUE}]]
           sum == CHOOSE g : g = Add(g)
<1>1. MapThenSumSet(CheckpointSize, S) = sum[S]
  BY DEF MapThenSumSet, MapThenFoldSet
<1>2. ASSUME NEW g PROVE Add(g) = AddOne(S, w, g)
  <2>1. \A t \in SUBSET S : t # {} => CheckpointSize(CHOOSE e \in t : TRUE) = w[CHOOSE e \in t : TRUE]
    OBVIOUS
  <2> QED BY <2>1 DEF AddOne
<1>3. PICK g : g = AddOne(S, w, g)
  BY AddingExists
<1>4. g = Add(g)
  BY <1>2, <1>3
<1> HIDE DEF Add
<1>5. sum = Add(sum)
  BY <1>4 DEF sum
<1> HIDE DEF sum
<1>6. sum = AddOne(S, w, sum)
  BY <1>2, <1>5
<1>7. sum[S] = f[S]
  BY <1>6, SumIsUnique
<1> QED BY <1>1, <1>7

\* Records have a size, which is that of a part of them and of the rest.
LEMMA BytesSplit ==
  ASSUME NEW E, IsFiniteSet(E), E \subseteq EventRow, NEW F \in SUBSET E
  PROVE BytesIn(E) = BytesIn(F) + BytesIn(E \ F) /\ BytesIn(E) \in Nat /\ BytesIn(F) \in Nat
<1>1. ASSUME NEW S \in SUBSET E PROVE [e \in S |-> BytesOf(e)] \in [S -> Nat] /\ IsFiniteSet(S)
  BY FS_Subset, DBStoreAssumption DEF EventRow, BytesOf
<1> DEFINE w == [e \in E |-> BytesOf(e)]
<1>2. w \in [E -> Nat]
  BY <1>1
<1>2a. \A e \in E : w[e] = BytesOf(e)
  OBVIOUS
<1> HIDE DEF w
<1>3. PICK f \in SetSums(E, w) : TRUE
  BY <1>2, SumExists
<1>4. ASSUME NEW S \in SUBSET E PROVE BytesIn(S) = f[S]
  <2> DEFINE v == [e \in S |-> BytesOf(e)]
             h == [s \in SUBSET S |-> f[s]]
  <2>1. v \in [S -> Nat] /\ IsFiniteSet(S) /\ \A e \in S : v[e] = BytesOf(e)
    BY <1>1
  <2>2. f \in [SUBSET E -> Nat]
    BY DEF SetSums
  <2>3. Restricted(S, w, f, v, h) /\ h[S] = f[S]
    BY <1>2a, <2>2 DEF Restricted
  <2> HIDE DEF v, h
  <2>4. h \in SetSums(S, v)
    BY <1>2, <2>3, SumOfPart
  <2>5. MapThenSumSet(BytesOf, S) = h[S]
    BY <2>1, <2>4, BytesAreSummed
  <2> QED BY <2>3, <2>5 DEF BytesIn
<1>5. f[E] = f[F] + f[E \ F]
  BY <1>2, SumSplits
<1>6. f[E] \in Nat /\ f[F] \in Nat
  BY DEF SetSums
<1> QED BY <1>4, <1>5, <1>6

\* No records have no size.
LEMMA NoBytes == BytesIn({}) = 0
<1>1. IsFiniteSet({})
  BY FS_EmptySet
<1>2. {} \subseteq EventRow /\ {} \in SUBSET {} /\ {} \ {} = {}
  OBVIOUS
<1>3. BytesIn({}) = BytesIn({}) + BytesIn({}) /\ BytesIn({}) \in Nat
  BY <1>1, <1>2, BytesSplit
<1>4. \A n \in Nat : n = n + n => n = 0
  OBVIOUS
<1> QED BY <1>3, <1>4

-----------------------------------------------------------------------------
(* What one deletion takes *)

\* Products of naturals grow with their factors.
LEMMA ProductsGrow ==
  ASSUME NEW k \in Nat, NEW a \in Nat, NEW b \in Nat, a <= b
  PROVE  k * a <= k * b /\ k * a \in Nat /\ k * b \in Nat
<1> DEFINE d == b - a
<1>1. d \in Nat /\ b = a + d
  OBVIOUS
<1> HIDE DEF d
<1>2. k * (a + d) = k * a + k * d
  BY <1>1
<1>3. k * a \in Nat /\ k * d \in Nat
  BY <1>1
<1> QED BY <1>1, <1>2, <1>3

\* The records one deletion takes fit its budget,
LEMMA EventsFitBudget ==
  ASSUME TypeOK, FiniteTables, NEW r, NEW rows \in Nat, NEW bytes \in Nat
  PROVE  LET E == EventsWithin(r, rows, bytes)
         IN  /\ E \in SUBSET events /\ IsFiniteSet(E)
             /\ Cardinality(E) \in 0..rows
             /\ BytesIn(E) \in 0..bytes
<1> DEFINE E == EventsWithin(r, rows, bytes)
           upTo(c) == {d \in EventsOf(r) : d.sequence <= c.sequence}
<1>1. /\ E \in SUBSET EventsOf(r)
      /\ \A c \in E : Cardinality(upTo(c)) <= rows /\ BytesIn(upTo(c)) <= bytes
  BY DEF EventsWithin, WithinBudget, EventSequence, BytesIn
<1>2. \A s \in SUBSET EventsOf(r) : s \in SUBSET events /\ IsFiniteSet(s) /\ s \subseteq EventRow
  BY FS_Subset DEF EventsOf, FiniteTables, TypeOK
<1>3. \A e \in E : e.sequence \in Nat
  BY <1>1, <1>2 DEF EventRow
<1> HIDE DEF E
<1>4. CASE E = {}
  BY <1>4, FS_EmptySet, NoBytes DEF E
<1>5. CASE E # {}
  <2> DEFINE R == {p \in E \X E : p[2].sequence <= p[1].sequence}
  <2>0. \A d, e \in E : <<d, e>> \in R <=> e.sequence <= d.sequence
    OBVIOUS
  <2> HIDE DEF R
  <2>1. Orders(R, E)
    BY <1>3, <2>0 DEF Orders
  <2>2. IsFiniteSet(E)
    BY <1>1, <1>2
  <2>3. PICK c \in E : \A e \in E : e # c => <<c, e>> \in R
    BY <1>5, <2>1, <2>2, FirstExists
  <2>4. ASSUME NEW e \in E PROVE e.sequence <= c.sequence
    <3>1. CASE e = c
      BY <1>3, <3>1
    <3>2. CASE e # c
      <4>1. <<c, e>> \in R
        BY <2>3, <3>2
      <4> QED BY <2>0, <4>1
    <3> QED BY <3>1, <3>2
  <2>5. E \in SUBSET upTo(c) /\ upTo(c) \in SUBSET EventsOf(r)
    BY <1>1, <2>4
  <2>6. IsFiniteSet(upTo(c)) /\ upTo(c) \subseteq EventRow
    BY <1>2, <2>5
  <2>7. Cardinality(upTo(c)) <= rows /\ BytesIn(upTo(c)) <= bytes
    BY <1>1
  <2> HIDE DEF upTo
  <2>8. Cardinality(E) <= Cardinality(upTo(c)) /\ Cardinality(E) \in Nat /\ Cardinality(upTo(c)) \in Nat
    BY <2>5, <2>6, FS_Subset, FS_CardinalityType
  <2>9. BytesIn(upTo(c)) = BytesIn(E) + BytesIn(upTo(c) \ E) /\ BytesIn(E) \in Nat
    BY <2>5, <2>6, BytesSplit
  <2>10. BytesIn(upTo(c) \ E) \in Nat
    <3>1. upTo(c) \ E \in SUBSET upTo(c)
      OBVIOUS
    <3> QED BY <2>6, <3>1, BytesSplit
  <2>11. Cardinality(E) \in 0..rows
    BY <2>7, <2>8
  <2>12. BytesIn(E) \in 0..bytes
    BY <2>7, <2>9, <2>10
  <2> QED BY <1>1, <1>2, <2>2, <2>11, <2>12 DEF E
<1> QED BY <1>4, <1>5

\* and so do the checkpoints.
LEMMA CheckpointsFitBudget ==
  ASSUME TypeOK, FiniteTables, NEW r, NEW rows \in Nat, NEW bytes \in Nat
  PROVE  LET C == CheckpointsWithin(r, rows, bytes)
         IN  /\ C \in SUBSET checkpoints /\ IsFiniteSet(C)
             /\ Cardinality(C) \in 0..rows
             /\ CheckpointBytes * Cardinality(C) \in 0..bytes
<1> DEFINE C == CheckpointsWithin(r, rows, bytes)
           upTo(c) == {d \in CheckpointsOf(r) : d.version <= c.version}
<1>1. /\ C \in SUBSET CheckpointsOf(r)
      /\ \A c \in C : Cardinality(upTo(c)) <= rows /\ MapThenSumSet(CheckpointSize, upTo(c)) <= bytes
  BY DEF CheckpointsWithin, WithinBudget, CheckpointVersion
<1>2. \A s \in SUBSET CheckpointsOf(r) : s \in SUBSET checkpoints /\ IsFiniteSet(s) /\ s \subseteq CheckpointRow
  BY FS_Subset DEF CheckpointsOf, FiniteTables, TypeOK
<1>3. \A e \in C : e.version \in Nat
  BY <1>1, <1>2 DEF CheckpointRow
<1>0. CheckpointBytes \in Nat
  BY DBStoreAssumption
<1> HIDE DEF C
<1>4. CASE C = {}
  <2>1. CheckpointBytes * 0 = 0
    BY <1>0
  <2> QED BY <1>4, <2>1, FS_EmptySet DEF C
<1>5. CASE C # {}
  <2> DEFINE R == {p \in C \X C : p[2].version <= p[1].version}
  <2>0. \A d, e \in C : <<d, e>> \in R <=> e.version <= d.version
    OBVIOUS
  <2> HIDE DEF R
  <2>1. Orders(R, C)
    BY <1>3, <2>0 DEF Orders
  <2>2. IsFiniteSet(C)
    BY <1>1, <1>2
  <2>3. PICK c \in C : \A e \in C : e # c => <<c, e>> \in R
    BY <1>5, <2>1, <2>2, FirstExists
  <2>4. ASSUME NEW e \in C PROVE e.version <= c.version
    <3>1. CASE e = c
      BY <1>3, <3>1
    <3>2. CASE e # c
      <4>1. <<c, e>> \in R
        BY <2>3, <3>2
      <4> QED BY <2>0, <4>1
    <3> QED BY <3>1, <3>2
  <2>5. C \in SUBSET upTo(c) /\ upTo(c) \in SUBSET CheckpointsOf(r)
    BY <1>1, <2>4
  <2>6. IsFiniteSet(upTo(c))
    BY <1>2, <2>5
  <2>7. Cardinality(upTo(c)) <= rows /\ MapThenSumSet(CheckpointSize, upTo(c)) <= bytes
    BY <1>1
  <2> HIDE DEF upTo
  <2>8. Cardinality(C) <= Cardinality(upTo(c)) /\ Cardinality(C) \in Nat /\ Cardinality(upTo(c)) \in Nat
    BY <2>5, <2>6, FS_Subset, FS_CardinalityType
  <2>9. MapThenSumSet(CheckpointSize, upTo(c)) = CheckpointBytes * Cardinality(upTo(c))
    <3> DEFINE w == [d \in upTo(c) |-> CheckpointBytes]
    <3>1. w \in [upTo(c) -> Nat] /\ \A d \in upTo(c) : w[d] = CheckpointSize(d)
      BY <1>0 DEF CheckpointSize
    <3>2. PICK f \in SetSums(upTo(c), w) : TRUE
      <4> HIDE DEF w
      <4> QED BY <2>6, <3>1, SumExists
    <3>3. f[upTo(c)] = CheckpointBytes * Cardinality(upTo(c))
      BY <1>0, <2>6, SumOfEquals
    <3> HIDE DEF w
    <3>4. MapThenSumSet(CheckpointSize, upTo(c)) = f[upTo(c)]
      BY <2>6, <3>1, CheckpointSizesAreSummed
    <3> QED BY <3>3, <3>4
  <2>10. CheckpointBytes * Cardinality(C) <= CheckpointBytes * Cardinality(upTo(c))
         /\ CheckpointBytes * Cardinality(C) \in Nat /\ CheckpointBytes * Cardinality(upTo(c)) \in Nat
    BY <1>0, <2>8, ProductsGrow
  <2>11. Cardinality(C) \in 0..rows
    BY <2>7, <2>8
  <2>12. CheckpointBytes * Cardinality(C) \in 0..bytes
    BY <2>7, <2>9, <2>10
  <2> QED BY <1>1, <1>2, <2>2, <2>11, <2>12 DEF C
<1> QED BY <1>4, <1>5

\* One transaction of deletePurgingHistory stays within what is left of the
\* budget of its call.
LEMMA DeletionFitsBudget ==
  ASSUME TypeOK, FiniteTables, NEW r, NEW rows \in Nat, NEW bytes \in Nat,
         DeletePurgingHistory(r, rows, bytes)
  PROVE  /\ Cardinality(events \ events') + Cardinality(checkpoints \ checkpoints') \in 0..rows
         /\ MapThenSumSet(BytesOf, events \ events')
              + CheckpointBytes * Cardinality(checkpoints \ checkpoints') \in 0..bytes
<1> DEFINE E == EventsWithin(r, rows, bytes)
           rowsLeft == rows - Cardinality(E)
           bytesLeft == bytes - BytesIn(E)
           C == IF rowsLeft > 0 /\ bytesLeft > 0 THEN CheckpointsWithin(r, rowsLeft, bytesLeft) ELSE {}
<1>1. events' = events \ E /\ checkpoints' = checkpoints \ C
  BY DEF DeletePurgingHistory, BytesIn
<1>2. /\ E \in SUBSET events
      /\ Cardinality(E) \in 0..rows
      /\ BytesIn(E) \in 0..bytes
  BY EventsFitBudget
<1> HIDE DEF E
<1>3. rowsLeft \in Nat /\ bytesLeft \in Nat
  BY <1>2
<1>3a. rowsLeft = rows - Cardinality(E) /\ bytesLeft = bytes - BytesIn(E)
  OBVIOUS
<1> HIDE DEF rowsLeft, bytesLeft
<1>4. /\ C \in SUBSET checkpoints
      /\ Cardinality(C) \in 0..rowsLeft
      /\ CheckpointBytes * Cardinality(C) \in 0..bytesLeft
  <2>1. CASE rowsLeft > 0 /\ bytesLeft > 0
    BY <1>3, <2>1, CheckpointsFitBudget
  <2>2. CASE ~(rowsLeft > 0 /\ bytesLeft > 0)
    <3>1. CheckpointBytes * 0 = 0
      BY DBStoreAssumption
    <3> QED BY <1>3, <2>2, <3>1, FS_EmptySet
  <2> QED BY <2>1, <2>2
<1> HIDE DEF C
<1>5. events \ events' = E /\ checkpoints \ checkpoints' = C
  BY <1>1, <1>2, <1>4
<1>6. \A a, b, n \in Int : a \in 0..n /\ b \in 0..(n - a) => a + b \in 0..n
  OBVIOUS
<1>7. Cardinality(E) + Cardinality(C) \in 0..rows
  BY <1>2, <1>3a, <1>4, <1>6
<1>8. BytesIn(E) + CheckpointBytes * Cardinality(C) \in 0..bytes
  BY <1>2, <1>3a, <1>4, <1>6
<1> QED BY <1>5, <1>7, <1>8 DEF BytesIn

-----------------------------------------------------------------------------
(* What one select returns *)

\* Retention rows are ordered by time, then ordinal.
LEMMA OlderOrders ==
  ASSUME NEW X, X \subseteq RetentionRow
  PROVE  /\ \A x, y \in X : Older(x, y) \/ Older(y, x)
         /\ \A x, y, z \in X : Older(x, y) /\ Older(y, z) => Older(x, z)
<1>1. \A x \in X : x.appendedAt \in Nat /\ x.ordinal \in Nat
  BY DEF RetentionRow
<1> QED BY <1>1 DEF Older

OrdinalsOf(X) == {x.ordinal : x \in X}

\* What PurgeRunLog selects is in the log, and fits its limits.
LEMMA SelectionFitsBudget ==
  ASSUME StoreInv, FiniteTables, NEW before, NEW rowLimit \in Nat, NEW byteLimit \in Nat
  PROVE  LET X == SelectedRows(before, rowLimit, byteLimit)
         IN  /\ X \in SUBSET retention /\ IsFiniteSet(X)
             /\ \A o \in OrdinalsOf(X) : o \in Nat /\ o < nextOrdinal
             /\ Cardinality(Numbered(events, OrdinalsOf(X))) <= rowLimit
             /\ BytesIn(Numbered(events, OrdinalsOf(X))) <= byteLimit
<1> DEFINE X == SelectedRows(before, rowLimit, byteLimit)
           candidates == JournalCandidates(before)
           upTo(x) == {y \in candidates : Older(y, x)}
           E == Numbered(events, OrdinalsOf(X))
<1>0. TypeOK /\ KeysAreUnique
  BY DEF StoreInv
<1>1. /\ X \in SUBSET candidates
      /\ \A x \in X : Cardinality(upTo(x)) <= rowLimit /\ MapThenSumSet(RetainedBytes, upTo(x)) <= byteLimit
  BY DEF SelectedRows
<1>2. /\ candidates \in SUBSET retention
      /\ \A x \in candidates : \E e \in events : e.ordinal = x.ordinal
  BY DEF JournalCandidates
<1> HIDE DEF X, candidates
<1>3. /\ IsFiniteSet(candidates) /\ candidates \subseteq RetentionRow
      /\ IsFiniteSet(X) /\ X \in SUBSET retention
  <2>1. X \in SUBSET retention /\ retention \subseteq RetentionRow /\ IsFiniteSet(retention)
    BY <1>0, <1>1, <1>2 DEF TypeOK, FiniteTables
  <2> QED BY <1>2, <2>1, FS_Subset
<1>4. \A o \in OrdinalsOf(X) : o \in Nat /\ o < nextOrdinal
  <2>1. \A x \in X : x \in RetentionRow /\ x \in retention
    BY <1>0, <1>3 DEF TypeOK
  <2>2. \A x \in X : x.ordinal \in Nat /\ x.ordinal < nextOrdinal
    BY <1>0, <2>1 DEF KeysAreUnique, RetentionRow
  <2> QED BY <2>2 DEF OrdinalsOf
<1>5. E \in SUBSET events /\ IsFiniteSet(E) /\ E \subseteq EventRow
  <2>1. E \in SUBSET events
    BY DEF Numbered
  <2> QED BY <1>0, <2>1, FS_Subset DEF FiniteTables, TypeOK
<1>6. \A e \in E : \E x \in X : x.ordinal = e.ordinal
  BY DEF Numbered, OrdinalsOf
<1>7. \A d, e \in E : d.ordinal = e.ordinal => d = e
  BY <1>0, <1>5 DEF KeysAreUnique
<1>8. \A x \in candidates : EventOf(x) \in events /\ EventOf(x).ordinal = x.ordinal
  <2> SUFFICES ASSUME NEW x \in candidates PROVE EventOf(x) \in events /\ EventOf(x).ordinal = x.ordinal
    OBVIOUS
  <2>1. \E e \in events : e.ordinal = x.ordinal
    BY <1>2
  <2> QED BY <2>1 DEF EventOf
<1> HIDE DEF E
<1>9. CASE X = {}
  <2>1. E = {}
    BY <1>6, <1>9
  <2> QED BY <1>3, <1>4, <2>1, FS_EmptySet, NoBytes DEF X, E
<1>10. CASE X # {}
  <2> DEFINE R == {p \in X \X X : Older(p[2], p[1])}
  <2>0. \A x, y \in X : <<x, y>> \in R <=> Older(y, x)
    OBVIOUS
  <2> HIDE DEF R
  <2>1. Orders(R, X)
    <3>1. X \subseteq RetentionRow
      BY <1>1, <1>3
    <3>2. /\ \A x, y \in X : Older(x, y) \/ Older(y, x)
          /\ \A x, y, z \in X : Older(x, y) /\ Older(y, z) => Older(x, z)
      BY <3>1, OlderOrders
    <3> QED BY <2>0, <3>2 DEF Orders
  <2>2. PICK last \in X : \A x \in X : x # last => <<last, x>> \in R
    BY <1>3, <1>10, <2>1, FirstExists
  <2>3. ASSUME NEW x \in X PROVE Older(x, last)
    <3>1. CASE x = last
      <4>1. last \in RetentionRow
        BY <1>1, <1>3
      <4> QED BY <3>1, <4>1 DEF Older, RetentionRow
    <3>2. CASE x # last
      <4>1. <<last, x>> \in R
        BY <2>2, <3>2
      <4> QED BY <2>0, <4>1
    <3> QED BY <3>1, <3>2
  <2> DEFINE U == upTo(last)
  <2>4. X \in SUBSET U /\ U \in SUBSET candidates
    BY <1>1, <2>3
  <2>5. Cardinality(U) <= rowLimit /\ MapThenSumSet(RetainedBytes, U) <= byteLimit
    BY <1>1
  <2> HIDE DEF U
  <2>6. IsFiniteSet(U) /\ Cardinality(U) \in Nat
    BY <1>3, <2>4, FS_Subset, FS_CardinalityType
  \* Each record stands for a row,
  <2> DEFINE h == [e \in E |-> CHOOSE x \in X : x.ordinal = e.ordinal]
  <2>7. \A e \in E : h[e] \in X /\ h[e].ordinal = e.ordinal
    BY <1>6
  <2>8. h \in [E -> U]
    BY <2>4, <2>7
  <2> HIDE DEF h
  <2>9. \A d, e \in E : h[d] = h[e] => d = e
    BY <1>7, <2>7
  <2>10. Cardinality(E) <= Cardinality(U) /\ Cardinality(E) \in Nat
    <3>1. h \in Injection(E, U)
      BY <2>8, <2>9 DEF Injection, IsInjective
    <3> QED BY <1>5, <2>6, <3>1, FS_Injection, FS_CardinalityType
  \* whose bytes are its own.
  <2> DEFINE w == [e \in E |-> BytesOf(e)]
             v == [x \in U |-> RetainedBytes(x)]
  <2>11. \A x \in U : RetainedBytes(x) \in Nat
    <3> SUFFICES ASSUME NEW x \in U PROVE RetainedBytes(x) \in Nat
      OBVIOUS
    <3>1. EventOf(x) \in EventRow
      BY <1>0, <1>8, <2>4 DEF TypeOK
    <3> QED BY <3>1, DBStoreAssumption DEF RetainedBytes, BytesOf, EventRow
  <2>12. v \in [U -> Nat] /\ \A x \in U : v[x] = RetainedBytes(x)
    BY <2>11
  <2>13. w \in [E -> Nat] /\ \A e \in E : w[e] = BytesOf(e)
    BY <1>5, DBStoreAssumption DEF BytesOf, EventRow
  <2>14. \A e \in E : w[e] = v[h[e]]
    <3> SUFFICES ASSUME NEW e \in E PROVE w[e] = v[h[e]]
      OBVIOUS
    <3>1. h[e] \in U /\ h[e] \in candidates /\ h[e].ordinal = e.ordinal
      BY <2>4, <2>7
    <3>2. EventOf(h[e]) = e
      BY <1>0, <1>5, <1>8, <3>1 DEF KeysAreUnique
    <3>3. v[h[e]] = RetainedBytes(h[e]) /\ w[e] = BytesOf(e)
      BY <2>12, <2>13, <3>1
    <3> QED BY <3>2, <3>3 DEF RetainedBytes
  <2> HIDE DEF v, w
  <2>15. PICK f \in SetSums(E, w) : TRUE
    BY <1>5, <2>13, SumExists
  <2>16. PICK g \in SetSums(U, v) : TRUE
    BY <2>6, <2>12, SumExists
  <2>17. BytesIn(E) = f[E] /\ MapThenSumSet(RetainedBytes, U) = g[U]
    BY <1>5, <2>6, <2>12, <2>13, BytesAreSummed, RetainedBytesAreSummed DEF BytesIn
  <2> DEFINE I == {h[e] : e \in E}
  <2>18. f[E] = g[I]
    BY <1>5, <2>8, <2>9, <2>12, <2>13, <2>14, SumOfImage
  <2>19. I \in SUBSET U
    BY <2>8
  <2> HIDE DEF I
  <2>20. g[U] = g[I] + g[U \ I]
    BY <2>6, <2>12, <2>19, SumSplits
  <2>21. g[I] \in Nat /\ g[U \ I] \in Nat
    BY <2>19 DEF SetSums
  <2>22. BytesIn(E) <= byteLimit
    BY <2>5, <2>17, <2>18, <2>20, <2>21
  <2>23. Cardinality(E) <= rowLimit
    BY <2>5, <2>6, <2>10
  <2> QED BY <1>3, <1>4, <2>22, <2>23 DEF X, E
<1> QED BY <1>9, <1>10

\* What a select with a limit returns.
LEMMA LimitedIsShort ==
  ASSUME NEW T, NEW q \in Seq(T), NEW n \in Nat
  PROVE  Limited(q, n) \in Seq(T) /\ Len(Limited(q, n)) \in 0..n
<1> DEFINE m == IF Len(q) <= n THEN Len(q) ELSE n
<1>1. m \in 0..Len(q) /\ m \in 0..n
  OBVIOUS
<1> HIDE DEF m
<1>2. SubSeq(q, 1, m) \in Seq(T) /\ Len(SubSeq(q, 1, m)) = m
  BY <1>1
<1> QED BY <1>1, <1>2 DEF Limited, m

\* The queue of the runs that are being purged is a sequence of runs,
LEMMA PurgingRunsAreRuns ==
  ASSUME TypeOK, FewRuns
  PROVE  PurgingRuns \in Seq(Runs) /\ Len(PurgingRuns) \in 0..RunLimit
<1> DEFINE S == {r \in Runs : registry[r].kind = "workflow" /\ registry[r].state = "purging"}
           Before(q, r) == EnrolledAt(q) < EnrolledAt(r) \/ (EnrolledAt(q) = EnrolledAt(r) /\ q < r)
           R == {p \in S \X S : Before(p[1], p[2])}
           queue == CHOOSE q \in [1..Cardinality(S) -> S] :
                      \A i, j \in 1..Cardinality(S) : i < j => q[i] # q[j] /\ Before(q[i], q[j])
<1>1. PurgingRuns = Limited(queue, RunLimit)
  BY DEF PurgingRuns, InOrder, Sorted
<1>2. S \in SUBSET Registered /\ S \in SUBSET Runs
  BY DEF Registered
<1>3. IsFiniteSet(S)
  BY <1>2, FS_Subset DEF FewRuns
<1>4. \A r \in S : EnrolledAt(r) \in Nat /\ r \in Nat
  BY <1>2, PurgeCallsAssumption DEF TypeOK, RegistryRow, EnrolledAt
<1> HIDE DEF S
<1>5. \A q, r \in S : <<q, r>> \in R <=> Before(q, r)
  OBVIOUS
<1> HIDE DEF R
<1>6. Orders(R, S)
  BY <1>4, <1>5 DEF Orders
<1>7. PICK q \in Sortings(R, S) : TRUE
  BY <1>3, <1>6, SortingExists
<1>8. q \in [1..Cardinality(S) -> S] /\ \A i, j \in 1..Cardinality(S) : i < j => q[i] # q[j] /\ Before(q[i], q[j])
  BY <1>5, <1>7 DEF Sortings
<1>9. queue \in [1..Cardinality(S) -> S]
  BY <1>8
<1> HIDE DEF queue
<1>10. queue \in Seq(Runs)
  BY <1>2, <1>3, <1>9, FS_CardinalityType
<1> QED BY <1>1, <1>10, LimitedIsShort, PurgeCallsAssumption

\* that of the candidates is one,
LEMMA TerminalRunsAreRuns ==
  ASSUME TypeOK, FewRuns, NEW before, NEW capacity \in Nat
  PROVE  TerminalRuns(before, capacity) \in Seq(Runs)
<1> DEFINE S == {r \in Runs : /\ ActiveWorkflow(r)
                         /\ HasHead(r)
                         /\ Terminal(heads[r].status)
                         /\ heads[r].updated < before
                         /\ \A c \in CheckpointsOf(r) : c.version <= heads[r].version}
           Before(q, r) == FinishedAt(q) < FinishedAt(r) \/ (FinishedAt(q) = FinishedAt(r) /\ q < r)
           R == {p \in S \X S : Before(p[1], p[2])}
           queue == CHOOSE q \in [1..Cardinality(S) -> S] :
                      \A i, j \in 1..Cardinality(S) : i < j => q[i] # q[j] /\ Before(q[i], q[j])
<1>1. TerminalRuns(before, capacity) = Limited(queue, capacity)
  BY DEF TerminalRuns, InOrder, Sorted
<1>2. S \in SUBSET Registered /\ S \in SUBSET Runs
  BY DEF Registered, ActiveWorkflow
<1>3. IsFiniteSet(S)
  BY <1>2, FS_Subset DEF FewRuns
<1>4. \A r \in S : FinishedAt(r) \in Nat /\ r \in Nat
  BY <1>2, PurgeCallsAssumption DEF TypeOK, HeadRow, FinishedAt
<1> HIDE DEF S
<1>5. \A q, r \in S : <<q, r>> \in R <=> Before(q, r)
  OBVIOUS
<1> HIDE DEF R
<1>6. Orders(R, S)
  BY <1>4, <1>5 DEF Orders
<1>7. PICK q \in Sortings(R, S) : TRUE
  BY <1>3, <1>6, SortingExists
<1>8. q \in [1..Cardinality(S) -> S] /\ \A i, j \in 1..Cardinality(S) : i < j => q[i] # q[j] /\ Before(q[i], q[j])
  BY <1>5, <1>7 DEF Sortings
<1>9. queue \in [1..Cardinality(S) -> S]
  BY <1>8
<1> HIDE DEF queue
<1>10. queue \in Seq(Runs)
  BY <1>2, <1>3, <1>9, FS_CardinalityType
<1> QED BY <1>1, <1>10, LimitedIsShort

\* and that of the journals that PurgeRunLog goes through is one.
LEMMA SweptRunsAreRuns ==
  ASSUME TypeOK, FewRuns, NEW X \in SUBSET retention, IsFiniteSet(X)
  PROVE  Sorted({x.run : x \in X}, LAMBDA q, r : Older(OldestRow(X, q), OldestRow(X, r))) \in Seq(Runs)
<1> DEFINE S == {x.run : x \in X}
           Before(q, r) == Older(OldestRow(X, q), OldestRow(X, r))
           R == {p \in S \X S : Before(p[1], p[2])}
           queue == CHOOSE q \in [1..Cardinality(S) -> S] :
                      \A i, j \in 1..Cardinality(S) : i < j => q[i] # q[j] /\ Before(q[i], q[j])
<1>1. Sorted({x.run : x \in X}, LAMBDA q, r : Older(OldestRow(X, q), OldestRow(X, r))) = queue
  BY DEF Sorted
<1>2. X \subseteq RetentionRow /\ S \in SUBSET Runs
  BY DEF TypeOK, RetentionRow
<1>3. IsFiniteSet(S)
  <2> DEFINE f == [r \in S |-> CHOOSE x \in X : x.run = r]
  <2>1. \A r \in S : f[r] \in X /\ f[r].run = r
    OBVIOUS
  <2>2. f \in [S -> X]
    BY <2>1
  <2> HIDE DEF f
  <2>3. f \in Injection(S, X)
    BY <2>1, <2>2 DEF Injection, IsInjective
  <2> QED BY <2>3, FS_Injection
\* Each of these runs has its oldest row,
<1>3a. ASSUME NEW r \in S PROVE OldestRow(X, r) \in X
  <2> DEFINE D == {x \in X : x.run = r}
             Q == {p \in D \X D : Older(p[1], p[2])}
  <2>1. D # {} /\ D \in SUBSET X
    OBVIOUS
  <2>1a. IsFiniteSet(D) /\ D \subseteq RetentionRow
    BY <1>2, <2>1, FS_Subset
  <2>2. \A x, y \in D : <<x, y>> \in Q <=> Older(x, y)
    OBVIOUS
  <2>3. \A x \in D : x.run = r
    OBVIOUS
  <2>3a. \A x \in X : x.run = r => x \in D
    OBVIOUS
  <2> HIDE DEF D, Q
  <2>4. /\ \A x, y \in D : Older(x, y) \/ Older(y, x)
        /\ \A x, y, z \in D : Older(x, y) /\ Older(y, z) => Older(x, z)
    BY <2>1a, OlderOrders
  <2>5. Orders(Q, D)
    BY <2>2, <2>4 DEF Orders
  <2>6. PICK x \in D : \A y \in D : y # x => <<x, y>> \in Q
    BY <2>1, <2>1a, <2>5, FirstExists
  <2>7. \A y \in D : Older(x, y)
    <3> SUFFICES ASSUME NEW y \in D PROVE Older(x, y)
      OBVIOUS
    <3>1. CASE y = x
      BY <2>4, <3>1
    <3>2. CASE y # x
      <4>1. <<x, y>> \in Q
        BY <2>6, <3>2
      <4> QED BY <2>2, <4>1
    <3> QED BY <3>1, <3>2
  <2>8. x \in X /\ x.run = r /\ \A y \in X : y.run = r => Older(x, y)
    BY <2>1, <2>3, <2>3a, <2>7
  <2> QED BY <2>8 DEF OldestRow
\* and these rows are ordered.
<1>4. /\ \A q, r \in S : Before(q, r) \/ Before(r, q)
      /\ \A p, q, r \in S : Before(p, q) /\ Before(q, r) => Before(p, r)
  BY <1>2, <1>3a, OlderOrders
<1> HIDE DEF Before
<1> HIDE DEF S
<1>5. \A q, r \in S : <<q, r>> \in R <=> Before(q, r)
  OBVIOUS
<1> HIDE DEF R
<1>6. Orders(R, S)
  BY <1>4, <1>5 DEF Orders
<1>7. PICK q \in Sortings(R, S) : TRUE
  BY <1>3, <1>6, SortingExists
<1>8. q \in [1..Cardinality(S) -> S] /\ \A i, j \in 1..Cardinality(S) : i < j => q[i] # q[j] /\ Before(q[i], q[j])
  BY <1>5, <1>7 DEF Sortings
<1>9. queue \in [1..Cardinality(S) -> S]
  BY <1>8
<1> HIDE DEF queue
<1>10. queue \in Seq(Runs)
  BY <1>2, <1>3, <1>9, FS_CardinalityType
<1> QED BY <1>1, <1>10

-----------------------------------------------------------------------------
(* The steps of the Store change little *)

\* A transaction inserts at most one row into each table, a record only with
\* the next ordinal, and changes the registry row of at most one run.
SmallStep ==
  /\ \E e : events' \subseteq events \cup {e} /\ (events' \subseteq events \/ e.ordinal = nextOrdinal)
  /\ \E c : checkpoints' \subseteq checkpoints \cup {c}
  /\ \E x : retention' \subseteq retention \cup {x}
  /\ \E r : \A q \in Runs : q # r => registry'[q] = registry[q]
  /\ nextOrdinal <= nextOrdinal'

\* A set that gains at most one element stays finite.
LEMMA FewMore ==
  ASSUME NEW S, IsFiniteSet(S), NEW T, NEW e, T \subseteq S \cup {e}
  PROVE  IsFiniteSet(T)
<1>1. IsFiniteSet(S \cup {e})
  BY FS_AddElement
<1> QED BY <1>1, FS_Subset

\* So the tables stay finite, and the runs they know stay finitely many.
LEMMA SmallStepsKeepFinite ==
  ASSUME FiniteTables, FewRuns, SmallStep
  PROVE  FiniteTables' /\ FewRuns'
<1>1. FiniteTables'
  BY FewMore DEF FiniteTables, SmallStep
<1>2. FewRuns'
  <2>1. PICK r : \A q \in Runs : q # r => registry'[q] = registry[q]
    BY DEF SmallStep
  <2>2. Registered' \subseteq Registered \cup {r}
    BY <2>1 DEF Registered
  <2> QED BY <2>2, FewMore DEF FewRuns
<1> QED BY <1>1, <1>2

\* Inserting a checkpoint is small,
LEMMA AdvanceIsSmall ==
  ASSUME TypeOK, NEW row, NEW prior, AdvanceCheckpoint(row, prior)
  PROVE  SmallStep
<1>1. /\ checkpoints' = checkpoints \cup {row}
      /\ UNCHANGED <<registry, events, retention, nextOrdinal>>
  BY DEF AdvanceCheckpoint
<1>2. nextOrdinal <= nextOrdinal
  BY DEF TypeOK
<1> QED BY <1>1, <1>2 DEF SmallStep

\* and so is appending a record.
LEMMA AppendIsSmall ==
  ASSUME TypeOK, NEW r \in Runs, NEW sequence, NEW payload, NEW claim, NEW kind,
         AppendRunLog(r, sequence, payload, claim),
         registry' = [registry EXCEPT ![r] = Ensured(r, kind)],
         UNCHANGED <<heads, checkpoints, clock>>
  PROVE  SmallStep
<1>0. nextOrdinal \in Nat
  BY DEF TypeOK
<1>1. \E q : \A p \in Runs : p # q => registry'[p] = registry[p]
  BY DEF TypeOK
<1>2. \E c : checkpoints' \subseteq checkpoints \cup {c}
  OBVIOUS
<1>3. CASE /\ events' = events \cup
                {[run |-> r, sequence |-> sequence, ordinal |-> nextOrdinal,
                  payload |-> payload, claim |-> claim]}
           /\ retention' = retention \cup
                {[run |-> r, ordinal |-> nextOrdinal, appendedAt |-> clock]}
           /\ nextOrdinal' = nextOrdinal + 1
  <2> DEFINE e == [run |-> r, sequence |-> sequence, ordinal |-> nextOrdinal,
                   payload |-> payload, claim |-> claim]
             x == [run |-> r, ordinal |-> nextOrdinal, appendedAt |-> clock]
  <2>1. events' \subseteq events \cup {e} /\ e.ordinal = nextOrdinal
    BY <1>3
  <2>2. retention' \subseteq retention \cup {x}
    BY <1>3
  <2> HIDE DEF e, x
  <2>3. nextOrdinal <= nextOrdinal'
    BY <1>0, <1>3
  <2> QED BY <1>1, <1>2, <2>1, <2>2, <2>3 DEF SmallStep
<1>4. ASSUME NEW e \in EventsOf(r),
             retention' = IF \E x \in retention : x.ordinal = e.ordinal
                          THEN retention
                          ELSE retention \cup
                                 {[run |-> r, ordinal |-> e.ordinal, appendedAt |-> clock]},
             UNCHANGED <<events, nextOrdinal>>
      PROVE  SmallStep
  <2> DEFINE x == [run |-> r, ordinal |-> e.ordinal, appendedAt |-> clock]
  <2>1. retention' \subseteq retention \cup {x}
    BY <1>4
  <2> HIDE DEF x
  <2>2. \E f : events' \subseteq events \cup {f} /\ (events' \subseteq events \/ f.ordinal = nextOrdinal)
    BY <1>4
  <2>3. nextOrdinal <= nextOrdinal'
    BY <1>0, <1>4
  <2> QED BY <1>1, <1>2, <2>1, <2>2, <2>3 DEF SmallStep
<1> QED BY <1>3, <1>4 DEF AppendRunLog

\* Every step of a worker is small,
LEMMA WorkerIsSmall ==
  ASSUME TypeOK, WorkerNext
  PROVE  SmallStep
<1>0. nextOrdinal <= nextOrdinal
  BY DEF TypeOK
<1>1. ASSUME NEW r \in Runs, NEW identity, NEW owner, NEW lease, NEW stamp,
             Create(r, identity, owner, lease, stamp)
      PROVE  SmallStep
  <2>1. /\ \E c : checkpoints' = checkpoints \cup {c}
        /\ registry' = [registry EXCEPT ![r] = Ensured(r, "workflow")]
        /\ UNCHANGED <<events, retention, nextOrdinal>>
    BY <1>1 DEF Create
  <2>2. \A q \in Runs : q # r => registry'[q] = registry[q]
    BY <2>1 DEF TypeOK
  <2> QED BY <1>0, <2>1, <2>2 DEF SmallStep
<1>2. ASSUME NEW r \in Runs, NEW base, NEW owner, NEW claim, NEW identity, NEW lease, NEW stamp,
             Claim(r, base, owner, claim, identity, lease, stamp)
      PROVE  SmallStep
  <2>1. \E row, prior : AdvanceCheckpoint(row, prior)
    BY <1>2 DEF Claim
  <2> QED BY <2>1, AdvanceIsSmall
<1>3. ASSUME NEW r \in Runs, NEW owner, NEW claim, NEW lease, RenewLease(r, owner, claim, lease)
      PROVE  SmallStep
  <2>1. /\ \E c : checkpoints' \subseteq checkpoints \cup {c}
        /\ UNCHANGED <<registry, events, retention, nextOrdinal>>
    BY <1>3 DEF RenewLease
  <2> QED BY <1>0, <2>1 DEF SmallStep
<1>4. ASSUME NEW r \in Runs, NEW base, NEW owner, NEW identity, NEW status, NEW lease, NEW progress,
             NEW stamp, Write(r, base, owner, identity, status, lease, progress, stamp)
      PROVE  SmallStep
  <2>1. \E row, prior : AdvanceCheckpoint(row, prior)
    BY <1>4 DEF Write
  <2> QED BY <2>1, AdvanceIsSmall
<1>5. ASSUME NEW r \in Runs, NEW sequence, NEW payload, AppendPlain(r, sequence, payload)
      PROVE  SmallStep
  BY <1>5, AppendIsSmall DEF AppendPlain
<1>6. ASSUME NEW r \in Runs, NEW owner, NEW claim, NEW sequence, NEW payload,
             AppendFenced(r, owner, claim, sequence, payload)
      PROVE  SmallStep
  BY <1>6, AppendIsSmall DEF AppendFenced
<1> QED BY <1>1, <1>2, <1>3, <1>4, <1>5, <1>6 DEF WorkerNext

\* and so is every transaction of retention, which inserts nothing.
LEMMA RetentionIsSmall ==
  ASSUME TypeOK, PurgeNext
  PROVE  SmallStep
<1>0. nextOrdinal <= nextOrdinal
  BY DEF TypeOK
<1> DEFINE Shrinks(r) == /\ events' \subseteq events
                         /\ checkpoints' \subseteq checkpoints
                         /\ retention' \subseteq retention
                         /\ nextOrdinal' = nextOrdinal
                         /\ \A q \in Runs : q # r => registry'[q] = registry[q]
<1>1. ASSUME NEW r \in Runs, Shrinks(r) PROVE SmallStep
  BY <1>0, <1>1 DEF SmallStep
<1>2. ASSUME NEW r \in Runs, NEW before, NEW stamp, EnrollTerminalRun(r, before, stamp) PROVE Shrinks(r)
  BY <1>2 DEF EnrollTerminalRun, TypeOK
<1>3. ASSUME NEW r \in Runs, NEW rows, NEW bytes, DeletePurgingHistory(r, rows, bytes) PROVE Shrinks(r)
  BY <1>3 DEF DeletePurgingHistory, WithoutRetention, TypeOK
<1>4. ASSUME NEW r \in Runs, NEW before, NEW rows, NEW bytes, PurgeConfirmedRunLog(r, before, rows, bytes)
      PROVE Shrinks(r)
  BY <1>4 DEF PurgeConfirmedRunLog, WithoutRetention, TypeOK
<1>5. ASSUME NEW r \in Runs, NEW before, NEW ordinals, PurgeJournalEvents(r, ordinals, before) PROVE Shrinks(r)
  BY <1>5 DEF PurgeJournalEvents, TypeOK
<1> HIDE DEF Shrinks
<1> QED BY <1>1, <1>2, <1>3, <1>4, <1>5 DEF PurgeNext

\* So every step of the Store is.
LEMMA StoreStepsAreSmall ==
  ASSUME TypeOK, [Next]_vars
  PROVE  SmallStep
<1>0. nextOrdinal <= nextOrdinal
  BY DEF TypeOK
<1>1. CASE Tick \/ UNCHANGED vars
  <2>1. UNCHANGED <<registry, checkpoints, events, retention, nextOrdinal>>
    BY <1>1 DEF Tick, vars, tables
  <2> QED BY <1>0, <2>1 DEF SmallStep
<1>2. CASE WorkerNext
  BY <1>2, WorkerIsSmall
<1>3. CASE PurgeNext
  BY <1>3, RetentionIsSmall
<1> QED BY <1>1, <1>2, <1>3 DEF Next

\* and it keeps what the proofs below need of the tables.
LEMMA StoreStepKeeps ==
  ASSUME StoreInv, FiniteTables, FewRuns, [Next]_vars
  PROVE  StoreInv' /\ FiniteTables' /\ FewRuns' /\ SmallStep
<1>0. TypeOK
  BY DEF StoreInv
<1>1. SmallStep
  BY <1>0, StoreStepsAreSmall
<1>2. StoreInv'
  <2>1. CASE Tick
    BY <2>1, <1>0, TickPreservesInv DEF Tick, TypeOK
  <2>2. CASE WorkerNext
    BY <2>2, WorkerPreservesInv
  <2>3. CASE PurgeNext
    BY <2>3, PurgePreservesInv
  <2>4. CASE UNCHANGED vars
    BY <2>4, <1>0, TickPreservesInv DEF vars, TypeOK
  <2> QED BY <2>1, <2>2, <2>3, <2>4 DEF Next
<1> QED BY <1>1, <1>2, SmallStepsKeepFinite

-----------------------------------------------------------------------------
(* The accounts of PurgeRunLog *)

\* What is selected in a smaller log is smaller.
LEMMA LessIsNumbered ==
  ASSUME NEW E, IsFiniteSet(E), E \subseteq EventRow, NEW F \in SUBSET E
  PROVE  /\ IsFiniteSet(F) /\ F \subseteq EventRow
         /\ Cardinality(E) \in Nat /\ Cardinality(F) \in Nat /\ Cardinality(E \ F) \in Nat
         /\ BytesIn(E) \in Nat /\ BytesIn(F) \in Nat /\ BytesIn(E \ F) \in Nat
         /\ Cardinality(E) = Cardinality(F) + Cardinality(E \ F)
         /\ BytesIn(E) = BytesIn(F) + BytesIn(E \ F)
<1>1. F \in SUBSET E /\ E \ F \in SUBSET E
  OBVIOUS
<1>2. IsFiniteSet(F) /\ IsFiniteSet(E \ F) /\ F \subseteq EventRow
  BY <1>1, FS_Subset
<1>3. Cardinality(E) \in Nat /\ Cardinality(F) \in Nat /\ Cardinality(E \ F) \in Nat
  BY <1>2, FS_CardinalityType
<1>4. Cardinality(E \ F) = Cardinality(E) - Cardinality(E \cap F)
  BY FS_Difference
<1>5. E \cap F = F
  OBVIOUS
<1>6. Cardinality(E) = Cardinality(F) + Cardinality(E \ F)
  BY <1>3, <1>4, <1>5
<1>7. BytesIn(E) \in Nat /\ BytesIn(F) \in Nat /\ BytesIn(E) = BytesIn(F) + BytesIn(E \ F)
  BY BytesSplit
<1>8. BytesIn(E \ F) \in Nat
  BY <1>1, BytesSplit
<1> QED BY <1>2, <1>3, <1>6, <1>7, <1>8

\* A selection is finite.
LEMMA NumberedIsFinite ==
  ASSUME NEW log, IsFiniteSet(log), log \subseteq EventRow, NEW ordinals
  PROVE  IsFiniteSet(Numbered(log, ordinals)) /\ Numbered(log, ordinals) \subseteq EventRow
<1>1. Numbered(log, ordinals) \in SUBSET log
  BY DEF Numbered
<1> QED BY <1>1, FS_Subset

\* Records are deleted, or one is added under the next ordinal: the accounts
\* stay right, since no selection has that ordinal.
LEMMA AccountsStay ==
  ASSUME NEW log, IsFiniteSet(log), log \subseteq EventRow, NEW next \in Nat,
         NEW log2, NEW next2 \in Nat, next <= next2,
         NEW e, log2 \subseteq log \cup {e}, log2 \subseteq log \/ e.ordinal = next,
         NEW call, SweepAccounts(call, log, next)
  PROVE  SweepAccounts(call, log2, next2)
<1> DEFINE O == call.ordinals
           E == Numbered(log, O)
           F == Numbered(log2, O)
<1>1. call \in SweepCall /\ \A o \in O : o \in Nat /\ o < next
  BY DEF SweepAccounts, SweepCall
<1>2. F \in SUBSET E
  BY <1>1 DEF Numbered
<1>3. IsFiniteSet(E) /\ E \subseteq EventRow
  BY NumberedIsFinite
<1>4. call.deletedRows + Cardinality(E) <= call.rowLimit /\ call.deletedBytes + BytesIn(E) <= call.byteLimit
  BY DEF SweepAccounts
<1>4a. \A o \in O : o < next2
  BY <1>1
<1> HIDE DEF E, F
<1>5. /\ Cardinality(E) \in Nat /\ Cardinality(F) \in Nat /\ Cardinality(E \ F) \in Nat
      /\ BytesIn(E) \in Nat /\ BytesIn(F) \in Nat /\ BytesIn(E \ F) \in Nat
      /\ Cardinality(E) = Cardinality(F) + Cardinality(E \ F)
      /\ BytesIn(E) = BytesIn(F) + BytesIn(E \ F)
  BY <1>2, <1>3, LessIsNumbered
<1>6. call.deletedRows \in Nat /\ call.deletedBytes \in Nat /\ call.rowLimit \in Nat /\ call.byteLimit \in Nat
  BY <1>1 DEF SweepCall
<1>7. call.deletedRows + Cardinality(F) <= call.rowLimit /\ call.deletedBytes + BytesIn(F) <= call.byteLimit
  BY <1>4, <1>5, <1>6
<1> QED BY <1>1, <1>4a, <1>7 DEF SweepAccounts, F

\* A transaction of the call deletes records of its selection, and accounts
\* for them.
LEMMA AccountsMove ==
  ASSUME NEW log, IsFiniteSet(log), log \subseteq EventRow, NEW next \in Nat,
         NEW call, SweepAccounts(call, log, next), call.queue # <<>>,
         NEW log2 \in SUBSET log, log \ log2 \subseteq Numbered(log, call.ordinals)
  PROVE  LET rows == Cardinality(log \ log2)
             bytes == BytesIn(log \ log2)
         IN  SweepAccounts([call EXCEPT !.queue = Tail(@), !.deletedRows = @ + rows,
                                        !.deletedBytes = @ + bytes], log2, next)
<1> DEFINE O == call.ordinals
           E == Numbered(log, O)
           F == Numbered(log2, O)
           G == log \ log2
           rows == Cardinality(G)
           bytes == BytesIn(G)
           new == [call EXCEPT !.queue = Tail(@), !.deletedRows = @ + rows, !.deletedBytes = @ + bytes]
<1> SUFFICES SweepAccounts(new, log2, next)
  OBVIOUS
<1>1. call \in SweepCall /\ \A o \in O : o < next
  BY DEF SweepAccounts
<1>2. F \in SUBSET E /\ E \ F = G
  BY DEF Numbered
<1>3. IsFiniteSet(E) /\ E \subseteq EventRow
  BY NumberedIsFinite
<1>4. call.deletedRows + Cardinality(E) <= call.rowLimit /\ call.deletedBytes + BytesIn(E) <= call.byteLimit
  BY DEF SweepAccounts
<1>4a. SweepAccounts(new, log2, next) <=>
         /\ new \in SweepCall
         /\ new.at # "idle" => new.before \in Cutoffs
         /\ \A o \in new.ordinals : o < next
         /\ new.deletedRows + Cardinality(Numbered(log2, new.ordinals)) <= new.rowLimit
         /\ new.deletedBytes + BytesIn(Numbered(log2, new.ordinals)) <= new.byteLimit
  BY DEF SweepAccounts
<1>5. /\ Cardinality(E) \in Nat /\ Cardinality(F) \in Nat /\ rows \in Nat
      /\ BytesIn(E) \in Nat /\ BytesIn(F) \in Nat /\ bytes \in Nat
      /\ Cardinality(E) = Cardinality(F) + rows
      /\ BytesIn(E) = BytesIn(F) + bytes
  <2> HIDE DEF E, F, G
  <2> QED BY <1>2, <1>3, LessIsNumbered
<1>6. Numbered(log2, O) = F
  OBVIOUS
<1> HIDE DEF E, F, rows, bytes
<1>7. call.deletedRows \in Nat /\ call.deletedBytes \in Nat /\ call.rowLimit \in Nat /\ call.byteLimit \in Nat
      /\ call.queue \in Seq(Runs)
  BY <1>1 DEF SweepCall
<1>8. Tail(call.queue) \in Seq(Runs)
  BY <1>7
<1>9. call.deletedRows + rows \in Nat /\ call.deletedBytes + bytes \in Nat
  <2>1. \A a, b \in Nat : a + b \in Nat
    OBVIOUS
  <2> QED BY <1>5, <1>7, <2>1
<1>10. /\ new \in SweepCall /\ new.at = call.at /\ new.before = call.before /\ new.ordinals = O
       /\ new.rowLimit = call.rowLimit /\ new.byteLimit = call.byteLimit
       /\ new.deletedRows = call.deletedRows + rows
       /\ new.deletedBytes = call.deletedBytes + bytes
  BY <1>1, <1>8, <1>9 DEF SweepCall
<1>10a. call.at # "idle" => call.before \in Cutoffs
  BY DEF SweepAccounts
<1> HIDE DEF new, O
<1>10b. \A a, b, c, d, n \in Nat : a + b <= n /\ b = c + d => (a + d) + c <= n
  OBVIOUS
<1>10c. /\ (call.deletedRows + rows) + Cardinality(F) <= call.rowLimit
        /\ (call.deletedBytes + bytes) + BytesIn(F) <= call.byteLimit
  BY <1>4, <1>5, <1>7, <1>10b
<1>11. /\ new.deletedRows + Cardinality(F) <= new.rowLimit
       /\ new.deletedBytes + BytesIn(F) <= new.byteLimit
  BY <1>10, <1>10c
<1> QED BY <1>1, <1>4a, <1>6, <1>10, <1>10a, <1>11

\* No call selects nothing.
LEMMA IdleSweepAccounts ==
  ASSUME NEW log, NEW next \in Nat
  PROVE  NoSweep \in SweepCall /\ SweepAccounts(NoSweep, log, next)
<1>1. NoSweep \in SweepCall
  BY DEF NoSweep, SweepCall
<1>2. Numbered(log, {}) = {}
  BY DEF Numbered
<1>3. NoSweep.ordinals = {} /\ NoSweep.deletedRows = 0 /\ NoSweep.deletedBytes = 0
      /\ NoSweep.rowLimit = 0 /\ NoSweep.byteLimit = 0 /\ NoSweep.at = "idle"
  BY DEF NoSweep
<1> QED BY <1>1, <1>2, <1>3, NoBytes, FS_EmptySet DEF SweepAccounts

-----------------------------------------------------------------------------
(* The steps of the calls *)

\* What the invariant says of one call.
LEMMA CallParts ==
  ASSUME CallsInv
  PROVE  /\ StoreInv /\ TypeOK /\ FiniteTables /\ FewRuns
         /\ purge \in [Purgers -> PurgeCall] /\ \A p \in Purgers : PurgeAccounts(purge[p])
         /\ sweep \in [Sweepers -> SweepCall]
         /\ \A p \in Sweepers : SweepAccounts(sweep[p], events, nextOrdinal)
         /\ IsFiniteSet(events) /\ events \subseteq EventRow /\ nextOrdinal \in Nat
  BY DEF CallsInv, StoreInv, TypeOK, FiniteTables

\* The limits of a call are naturals.
LEMMA LimitsAreNaturals ==
  /\ \A n \in RowLimits : n \in Nat \ {0}
  /\ \A n \in ByteLimits : n \in Nat \ {0}
  /\ \A t \in Cutoffs : t \in Nat
  BY DBStoreAssumption

\* Spending moves a part of the budget from one side to the other.
LEMMA Spending ==
  ASSUME NEW a \in Nat, NEW d \in Nat, NEW n \in Nat, a + d = n, NEW k \in 0..a
  PROVE  a - k \in Nat /\ d + k \in Nat /\ (a - k) + (d + k) = n
  OBVIOUS

\* A call that has not begun has deleted nothing.
LEMMA IdlePurgeAccounts == NoPurge \in PurgeCall /\ PurgeAccounts(NoPurge)
  BY DEF NoPurge, PurgeCall, PurgeAccounts

\* PurgeTerminalRuns counts the runs that are being purged,
LEMMA BeginPurgeAccounts ==
  ASSUME CallsInv, NEW p \in Purgers, NEW before \in Cutoffs, NEW rowLimit \in RowLimits,
         NEW byteLimit \in ByteLimits, BeginPurge(p, before, rowLimit, byteLimit)
  PROVE  PurgeAccounts(purge'[p])
<1> DEFINE at == IF Len(PurgingRuns) < RunLimit THEN "select" ELSE "pending"
           new == [NoPurge EXCEPT !.at = at, !.before = before,
                     !.capacity = RunLimit - Len(PurgingRuns),
                     !.rowLimit = rowLimit, !.byteLimit = byteLimit]
<1>1. purge'[p] = new
  BY CallParts DEF BeginPurge
<1>2. Len(PurgingRuns) \in 0..RunLimit /\ RunLimit \in Nat
  BY CallParts, PurgingRunsAreRuns, PurgeCallsAssumption
<1>3. RunLimit - Len(PurgingRuns) \in Nat
  BY <1>2
<1>4. at \in {"select", "pending"}
  OBVIOUS
<1>4a. before \in Nat /\ rowLimit \in Nat /\ byteLimit \in Nat
  BY LimitsAreNaturals
<1> HIDE DEF at
<1>4b. NoPurge \in PurgeCall /\ NoPurge.deletedRows = 0 /\ NoPurge.deletedBytes = 0
  BY IdlePurgeAccounts DEF NoPurge
<1>5. /\ new \in PurgeCall /\ new.at = at /\ new.before = before
      /\ new.rowLimit = rowLimit /\ new.byteLimit = byteLimit
      /\ new.deletedRows = 0 /\ new.deletedBytes = 0
  BY <1>3, <1>4, <1>4a, <1>4b DEF PurgeCall
<1> HIDE DEF new
<1> QED BY <1>1, <1>4, <1>5 DEF PurgeAccounts

\* selects the ended ones and those to delete from,
LEMMA MovingAccounts ==
  ASSUME NEW call, PurgeAccounts(call), NEW at \in {"enroll", "retire", "pending"},
         NEW queue \in Seq(Runs), call.at \notin {"idle", "delete"}, at = "retire" => queue # <<>>
  PROVE  PurgeAccounts([call EXCEPT !.at = at, !.queue = queue])
<1> DEFINE new == [call EXCEPT !.at = at, !.queue = queue]
<1>0. /\ call \in PurgeCall
      /\ call.before \in Cutoffs /\ call.rowLimit \in RowLimits /\ call.byteLimit \in ByteLimits
      /\ call.deletedRows = 0 /\ call.deletedBytes = 0
  BY DEF PurgeAccounts
<1>1. /\ new \in PurgeCall /\ new.at = at /\ new.before = call.before /\ new.queue = queue
      /\ new.rowLimit = call.rowLimit /\ new.byteLimit = call.byteLimit
      /\ new.deletedRows = 0 /\ new.deletedBytes = 0
  BY <1>0 DEF PurgeCall
<1> HIDE DEF new
<1>2. PurgeAccounts(new)
  BY <1>0, <1>1 DEF PurgeAccounts
<1> QED BY <1>2 DEF new

\* starts to delete with its whole budget,
LEMMA DrainingAccounts ==
  ASSUME NEW call, PurgeAccounts(call), NEW queue \in Seq(Runs), call.at = "pending"
  PROVE  PurgeAccounts([call EXCEPT !.at = "delete", !.queue = queue,
                                    !.rows = call.rowLimit, !.bytes = call.byteLimit])
<1> DEFINE new == [call EXCEPT !.at = "delete", !.queue = queue,
                               !.rows = call.rowLimit, !.bytes = call.byteLimit]
<1>0. /\ call \in PurgeCall
      /\ call.before \in Cutoffs /\ call.rowLimit \in RowLimits /\ call.byteLimit \in ByteLimits
      /\ call.deletedRows = 0 /\ call.deletedBytes = 0
  BY DEF PurgeAccounts
<1>0a. call.rowLimit \in Nat /\ call.byteLimit \in Nat
  BY <1>0 DEF PurgeCall
<1>1. /\ new \in PurgeCall /\ new.at = "delete" /\ new.before = call.before
      /\ new.rowLimit = call.rowLimit /\ new.byteLimit = call.byteLimit
      /\ new.rows = call.rowLimit /\ new.bytes = call.byteLimit
      /\ new.deletedRows = 0 /\ new.deletedBytes = 0
  BY <1>0, <1>0a DEF PurgeCall
<1> HIDE DEF new
<1>2. new.rows + new.deletedRows = new.rowLimit /\ new.bytes + new.deletedBytes = new.byteLimit
  BY <1>0a, <1>1
<1>3. PurgeAccounts(new)
  BY <1>0, <1>1, <1>2 DEF PurgeAccounts
<1> QED BY <1>3 DEF new

\* and accounts for what each of its transactions deletes.
LEMMA SpendingAccounts ==
  ASSUME NEW call, PurgeAccounts(call), call.at = "delete", call.queue # <<>>,
         NEW rows \in 0..call.rows, NEW bytes \in 0..call.bytes
  PROVE  PurgeAccounts([call EXCEPT !.queue = Tail(@), !.rows = @ - rows, !.bytes = @ - bytes,
                                    !.deletedRows = @ + rows, !.deletedBytes = @ + bytes])
<1> DEFINE new == [call EXCEPT !.queue = Tail(@), !.rows = @ - rows, !.bytes = @ - bytes,
                               !.deletedRows = @ + rows, !.deletedBytes = @ + bytes]
<1>0. /\ call \in PurgeCall
      /\ call.before \in Cutoffs /\ call.rowLimit \in RowLimits /\ call.byteLimit \in ByteLimits
      /\ call.rows + call.deletedRows = call.rowLimit
      /\ call.bytes + call.deletedBytes = call.byteLimit
  BY DEF PurgeAccounts
<1>1. /\ call.rows \in Nat /\ call.bytes \in Nat /\ call.queue \in Seq(Runs)
      /\ call.deletedRows \in Nat /\ call.deletedBytes \in Nat
      /\ call.rowLimit \in Nat /\ call.byteLimit \in Nat
  BY <1>0 DEF PurgeCall
<1>1a. call.rows + call.deletedRows = call.rowLimit
  BY <1>0
<1>1b. call.bytes + call.deletedBytes = call.byteLimit
  BY <1>0
<1>2a. /\ call.rows - rows \in Nat /\ call.deletedRows + rows \in Nat
       /\ (call.rows - rows) + (call.deletedRows + rows) = call.rowLimit
  <2> HIDE DEF new
  <2> QED BY <1>1, <1>1a, Spending
<1>3. /\ call.bytes - bytes \in Nat /\ call.deletedBytes + bytes \in Nat
      /\ (call.bytes - bytes) + (call.deletedBytes + bytes) = call.byteLimit
  <2> HIDE DEF new
  <2> QED BY <1>1, <1>1b, Spending
<1>4. Tail(call.queue) \in Seq(Runs)
  BY <1>1
<1>5. /\ new \in PurgeCall /\ new.at = "delete" /\ new.before = call.before
      /\ new.rowLimit = call.rowLimit /\ new.byteLimit = call.byteLimit
      /\ new.rows = call.rows - rows /\ new.bytes = call.bytes - bytes
      /\ new.deletedRows = call.deletedRows + rows
      /\ new.deletedBytes = call.deletedBytes + bytes
  BY <1>0, <1>2a, <1>3, <1>4 DEF PurgeCall
<1> HIDE DEF new
<1>6. PurgeAccounts(new)
  BY <1>0, <1>2a, <1>3, <1>5 DEF PurgeAccounts
<1> QED BY <1>6 DEF new

\* What a call has left of a limit is within that limit.
LEMMA PartOfLimit ==
  ASSUME NEW limits, NEW n \in limits, NEW k \in 1..n
  PROVE  k \in LeftOf(limits)
  BY DEF LeftOf

\* A transaction of deletePurgingHistory is one of the Store, with a part of
\* the budget of a call.
LEMMA DeleteHistoryAccounts ==
  ASSUME CallsInv, NEW p \in Purgers, DeleteHistory(p)
  PROVE  [Next]_vars /\ PurgeAccounts(purge'[p])
<1> DEFINE call == purge[p]
           r == Head(call.queue)
           rows == Cardinality(events \ events') + Cardinality(checkpoints \ checkpoints')
           bytes == MapThenSumSet(BytesOf, events \ events')
                      + CheckpointBytes * Cardinality(checkpoints \ checkpoints')
<1>0. /\ call.at = "delete" /\ call.queue # <<>> /\ call.rows > 0 /\ call.bytes > 0
      /\ DeletePurgingHistory(r, call.rows, call.bytes) \/ UNCHANGED vars
      /\ purge' = [purge EXCEPT ![p].queue = Tail(@), ![p].rows = @ - rows, ![p].bytes = @ - bytes,
                                ![p].deletedRows = @ + rows, ![p].deletedBytes = @ + bytes]
  BY DEF DeleteHistory
<1>1. purge'[p] = [call EXCEPT !.queue = Tail(@), !.rows = @ - rows, !.bytes = @ - bytes,
                               !.deletedRows = @ + rows, !.deletedBytes = @ + bytes]
  BY <1>0, CallParts
<1>2. /\ PurgeAccounts(call) /\ call \in PurgeCall
      /\ call.rowLimit \in RowLimits /\ call.byteLimit \in ByteLimits /\ call.before \in Cutoffs
      /\ call.rows + call.deletedRows = call.rowLimit
      /\ call.bytes + call.deletedBytes = call.byteLimit
  BY <1>0, CallParts DEF PurgeAccounts
<1>3. /\ call.queue \in Seq(Runs) /\ call.rows \in Nat /\ call.bytes \in Nat
      /\ call.deletedRows \in Nat /\ call.deletedBytes \in Nat
      /\ call.rowLimit \in Nat /\ call.byteLimit \in Nat
  BY <1>2 DEF PurgeCall
<1>4. r \in Runs
  BY <1>0, <1>3
<1>5. call.rows \in 1..call.rowLimit /\ call.bytes \in 1..call.byteLimit
  <2>1. \A a, d, n \in Nat : a # 0 /\ a + d = n => a \in 1..n
    OBVIOUS
  <2>2. call.rows # 0 /\ call.bytes # 0
    BY <1>0
  <2>3. call.rows + call.deletedRows = call.rowLimit /\ call.bytes + call.deletedBytes = call.byteLimit
    BY <1>2
  <2> QED BY <1>3, <2>1, <2>2, <2>3
<1>6. call.rows \in LeftOf(RowLimits) /\ call.bytes \in LeftOf(ByteLimits)
  BY <1>2, <1>5, PartOfLimit
<1>7. [Next]_vars
  <2>1. CASE DeletePurgingHistory(r, call.rows, call.bytes)
    <3>1. PurgeNext
      BY <1>2, <1>4, <1>6, <2>1 DEF PurgeNext
    <3> QED BY <3>1 DEF Next
  <2> QED BY <1>0, <2>1
<1>8. rows \in 0..call.rows /\ bytes \in 0..call.bytes
  <2>1. CASE DeletePurgingHistory(r, call.rows, call.bytes)
    BY <1>3, <2>1, CallParts, DeletionFitsBudget
  <2>2. CASE UNCHANGED vars
    <3>1. events \ events' = {} /\ checkpoints \ checkpoints' = {}
      BY <2>2 DEF vars, tables
    <3>2. CheckpointBytes * 0 = 0
      BY DBStoreAssumption
    <3>3. rows = 0 /\ bytes = 0
      BY <3>1, <3>2, NoBytes, FS_EmptySet DEF BytesIn
    <3> QED BY <1>3, <3>3
  <2> QED BY <1>0, <2>1, <2>2
<1> HIDE DEF rows, bytes, call
<1>9. PurgeAccounts(purge'[p])
  <2>1. call.at = "delete" /\ call.queue # <<>> /\ PurgeAccounts(call)
    BY <1>0, <1>2
  <2>2. PurgeAccounts([call EXCEPT !.queue = Tail(@), !.rows = @ - rows, !.bytes = @ - bytes,
                                   !.deletedRows = @ + rows, !.deletedBytes = @ + bytes])
    BY <1>8, <2>1, SpendingAccounts
  <2> QED BY <1>1, <2>2
<1> QED BY <1>7, <1>9

\* Every step of a PurgeTerminalRuns call is a step of the Store or none, and
\* keeps its accounts.
LEMMA PurgeStepAccounts ==
  ASSUME CallsInv, NEW p \in Purgers, PurgeStep(p)
  PROVE  [Next]_vars /\ PurgeAccounts(purge'[p])
<1> DEFINE call == purge[p]
           r == Head(call.queue)
<1>0. /\ PurgeAccounts(call) /\ call \in PurgeCall
      /\ call.queue \in Seq(Runs) /\ call.capacity \in Nat
      /\ call.at # "idle" => call.before \in Cutoffs
      /\ call.at = "retire" => call.queue # <<>>
      /\ TypeOK /\ FewRuns /\ purge \in [Purgers -> PurgeCall]
  BY CallParts DEF PurgeAccounts, PurgeCall
<1>1. CASE SelectTerminal(p)
  <2>1. /\ call.at = "select" /\ UNCHANGED vars
        /\ purge'[p] = [call EXCEPT !.at = "enroll", !.queue = TerminalRuns(call.before, call.capacity)]
    BY <1>0, <1>1 DEF SelectTerminal
  <2>2. TerminalRuns(call.before, call.capacity) \in Seq(Runs)
    BY <1>0, TerminalRunsAreRuns
  <2> DEFINE queue == TerminalRuns(call.before, call.capacity)
  <2> HIDE DEF call, queue
  <2>3. PurgeAccounts([call EXCEPT !.at = "enroll", !.queue = queue])
    <3>1. call.at \notin {"idle", "delete"} /\ queue \in Seq(Runs)
      BY <2>1, <2>2 DEF queue
    <3> QED BY <1>0, <3>1, MovingAccounts
  <2> QED BY <2>1, <2>3 DEF queue
<1>2. CASE InspectCandidate(p)
  <2> DEFINE at == IF call.queue # <<>> /\ FirstRowFits(r, call.byteLimit) THEN "retire" ELSE "pending"
  <2>1. /\ call.at = "enroll" /\ UNCHANGED vars
        /\ purge' = [purge EXCEPT ![p].at = at]
    BY <1>2 DEF InspectCandidate
  <2>2. at \in {"enroll", "retire", "pending"} /\ (at = "retire" => call.queue # <<>>)
    OBVIOUS
  <2> HIDE DEF at
  <2>3. purge'[p] = [call EXCEPT !.at = at, !.queue = call.queue]
    BY <1>0, <2>1 DEF PurgeCall
  <2> HIDE DEF call
  <2>4. PurgeAccounts([call EXCEPT !.at = at, !.queue = call.queue])
    <3>1. call.at \notin {"idle", "delete"}
      BY <2>1
    <3> QED BY <1>0, <2>2, <3>1, MovingAccounts
  <2> QED BY <2>1, <2>3, <2>4
<1>3. CASE RetireCandidate(p)
  <2>1. /\ call.at = "retire"
        /\ (\E stamp \in Stamps : EnrollTerminalRun(r, call.before, stamp)) \/ UNCHANGED vars
        /\ purge'[p] = [call EXCEPT !.at = "enroll", !.queue = Tail(call.queue)]
    BY <1>0, <1>3 DEF RetireCandidate
  <2>2. r \in Runs /\ Tail(call.queue) \in Seq(Runs)
    BY <1>0, <2>1
  <2>3. [Next]_vars
    BY <1>0, <2>1, <2>2 DEF Next, PurgeNext
  <2> HIDE DEF call
  <2>4. PurgeAccounts([call EXCEPT !.at = "enroll", !.queue = Tail(call.queue)])
    <3>1. call.at \notin {"idle", "delete"}
      BY <2>1
    <3> QED BY <1>0, <2>2, <3>1, MovingAccounts
  <2> QED BY <2>1, <2>3, <2>4
<1>4. CASE SelectPending(p)
  <2>1. /\ call.at = "pending" /\ UNCHANGED vars
        /\ purge'[p] = [call EXCEPT !.at = "delete", !.queue = PurgingRuns,
                                    !.rows = call.rowLimit, !.bytes = call.byteLimit]
    BY <1>0, <1>4 DEF SelectPending
  <2>2. PurgingRuns \in Seq(Runs)
    BY <1>0, PurgingRunsAreRuns
  <2> HIDE DEF call
  <2>3. PurgeAccounts([call EXCEPT !.at = "delete", !.queue = PurgingRuns,
                                   !.rows = call.rowLimit, !.bytes = call.byteLimit])
    BY <1>0, <2>1, <2>2, DrainingAccounts
  <2> QED BY <2>1, <2>3
<1>5. CASE DeleteHistory(p)
  BY <1>5, DeleteHistoryAccounts
<1>6. CASE EndPurge(p)
  BY <1>0, <1>6, IdlePurgeAccounts DEF EndPurge
<1> QED BY <1>1, <1>2, <1>3, <1>4, <1>5, <1>6 DEF PurgeStep

\* PurgeRunLog selects what fits its limits,
LEMMA BeginSweepAccounts ==
  ASSUME CallsInv, NEW p \in Sweepers, NEW before \in Cutoffs, NEW rowLimit \in RowLimits,
         NEW byteLimit \in ByteLimits, BeginSweep(p, before, rowLimit, byteLimit)
  PROVE  SweepAccounts(sweep'[p], events, nextOrdinal)
<1> DEFINE rows == SelectedRows(before, rowLimit, byteLimit)
           ordinals == OrdinalsOf(rows)
           queue == Sorted({x.run : x \in rows},
                           LAMBDA q, r : Older(OldestRow(rows, q), OldestRow(rows, r)))
           new == [NoSweep EXCEPT !.at = "sweep", !.before = before, !.queue = queue,
                     !.ordinals = ordinals, !.rowLimit = rowLimit, !.byteLimit = byteLimit]
<1>1. sweep'[p] = new
  BY CallParts DEF BeginSweep, OrdinalsOf
<1>2. rowLimit \in Nat /\ byteLimit \in Nat /\ before \in Nat
  BY LimitsAreNaturals
<1>3. /\ rows \in SUBSET retention /\ IsFiniteSet(rows)
      /\ \A o \in ordinals : o \in Nat /\ o < nextOrdinal
      /\ Cardinality(Numbered(events, ordinals)) <= rowLimit
      /\ BytesIn(Numbered(events, ordinals)) <= byteLimit
  BY <1>2, CallParts, SelectionFitsBudget
<1>4. queue \in Seq(Runs)
  <2> HIDE DEF rows
  <2> QED BY <1>3, CallParts, SweptRunsAreRuns
<1>5. ordinals \in SUBSET Nat
  BY <1>3
<1>6. NoSweep \in SweepCall /\ NoSweep.deletedRows = 0 /\ NoSweep.deletedBytes = 0
  BY IdleSweepAccounts, CallParts DEF NoSweep
<1>7. Cardinality(Numbered(events, ordinals)) \in Nat /\ BytesIn(Numbered(events, ordinals)) \in Nat
  <2> HIDE DEF ordinals
  <2>1. IsFiniteSet(Numbered(events, ordinals)) /\ Numbered(events, ordinals) \subseteq EventRow
    BY CallParts, NumberedIsFinite
  <2>2. Numbered(events, ordinals) \in SUBSET Numbered(events, ordinals)
    OBVIOUS
  <2> QED BY <2>1, <2>2, LessIsNumbered
<1> HIDE DEF ordinals, queue, rows
<1>8. /\ new \in SweepCall /\ new.at = "sweep" /\ new.before = before /\ new.ordinals = ordinals
      /\ new.rowLimit = rowLimit /\ new.byteLimit = byteLimit
      /\ new.deletedRows = 0 /\ new.deletedBytes = 0
  BY <1>2, <1>4, <1>5, <1>6 DEF SweepCall
<1> HIDE DEF new
<1>9. /\ new.deletedRows + Cardinality(Numbered(events, new.ordinals)) <= new.rowLimit
      /\ new.deletedBytes + BytesIn(Numbered(events, new.ordinals)) <= new.byteLimit
  BY <1>3, <1>7, <1>8
<1> QED BY <1>1, <1>3, <1>8, <1>9 DEF SweepAccounts

\* and deletes nothing but what it selected.
LEMMA SweepRunAccounts ==
  ASSUME CallsInv, NEW p \in Sweepers, SweepRun(p)
  PROVE  [Next]_vars /\ SweepAccounts(sweep'[p], events', nextOrdinal')
<1> DEFINE call == sweep[p]
           r == Head(call.queue)
           seen == {x.ordinal : x \in RetentionOf(r)}
<1>0. /\ SweepAccounts(call, events, nextOrdinal) /\ call \in SweepCall
      /\ sweep \in [Sweepers -> SweepCall]
      /\ call.queue # <<>> /\ call.at = "sweep" /\ call.before \in Cutoffs
      /\ PurgeJournalEvents(r, call.ordinals, call.before) \/ UNCHANGED vars
  BY CallParts DEF SweepRun, SweepAccounts
<1>1. sweep'[p] = [call EXCEPT !.queue = Tail(@),
                               !.deletedRows = @ + Cardinality(events \ events'),
                               !.deletedBytes = @ + BytesIn(events \ events')]
  BY <1>0 DEF SweepRun, BytesIn
<1>2. r \in Runs
  BY <1>0 DEF SweepCall
<1>3. /\ [Next]_vars /\ nextOrdinal' = nextOrdinal
      /\ events' \in SUBSET events /\ events \ events' \subseteq Numbered(events, call.ordinals)
  <2>1. CASE PurgeJournalEvents(r, call.ordinals, call.before)
    <3>1. EligibleRetention(r, call.ordinals, call.before)
            = EligibleRetention(r, call.ordinals \cap seen, call.before)
      BY DEF EligibleRetention
    <3>2. PurgeJournalEvents(r, call.ordinals \cap seen, call.before)
      BY <2>1, <3>1 DEF PurgeJournalEvents, JournalPurgeable
    <3>3. call.ordinals \cap seen \in SUBSET seen
      OBVIOUS
    <3>4. [Next]_vars
      BY <1>0, <1>2, <3>2, <3>3 DEF Next, PurgeNext
    <3>5. events' \in SUBSET events /\ events \ events' \subseteq Numbered(events, call.ordinals)
          /\ nextOrdinal' = nextOrdinal
      BY <2>1 DEF PurgeJournalEvents, EligibleRetention, Numbered
    <3> QED BY <3>4, <3>5
  <2>2. CASE UNCHANGED vars
    BY <2>2 DEF vars, tables
  <2> QED BY <1>0, <2>1, <2>2
<1>4. IsFiniteSet(events) /\ events \subseteq EventRow /\ nextOrdinal \in Nat
  BY CallParts
<1> DEFINE log2 == events'
<1>5. log2 \in SUBSET events /\ events \ log2 \subseteq Numbered(events, call.ordinals)
  BY <1>3
<1> HIDE DEF call, log2
<1>6. SweepAccounts([call EXCEPT !.queue = Tail(@), !.deletedRows = @ + Cardinality(events \ log2),
                                 !.deletedBytes = @ + BytesIn(events \ log2)], log2, nextOrdinal)
  BY <1>0, <1>4, <1>5, AccountsMove
<1> QED BY <1>1, <1>3, <1>6 DEF log2

\* Every step is a step of the Store or none; the calls keep their accounts,
\* also those that take no part in it.
LEMMA StepsKeepAccounts ==
  ASSUME CallsInv, CallsNext
  PROVE  /\ [Next]_vars
         /\ purge' \in [Purgers -> PurgeCall] /\ \A p \in Purgers : PurgeAccounts(purge'[p])
         /\ sweep' \in [Sweepers -> SweepCall]
         /\ \A p \in Sweepers : \/ SweepAccounts(sweep'[p], events', nextOrdinal')
                                \/ sweep'[p] = sweep[p]
<1>0. /\ purge \in [Purgers -> PurgeCall] /\ \A p \in Purgers : PurgeAccounts(purge[p])
      /\ sweep \in [Sweepers -> SweepCall]
      /\ \A p \in Sweepers : SweepAccounts(sweep[p], events, nextOrdinal)
      /\ nextOrdinal \in Nat
  BY CallParts
<1>1. CASE (Tick \/ WorkerNext \/ CompactNext) /\ UNCHANGED callVars
  <2>1. [Next]_vars
    <3>1. CompactNext => PurgeNext
      BY DEF CompactNext, PurgeNext
    <3> QED BY <1>1, <3>1 DEF Next
  <2>2. purge' = purge /\ sweep' = sweep
    BY <1>1 DEF callVars
  <2> QED BY <1>0, <2>1, <2>2
<1>2. ASSUME NEW p \in Purgers, CallPurge(p) \/ PurgeStep(p) \/ AbortPurge(p)
      PROVE  /\ [Next]_vars /\ sweep' = sweep
             /\ purge' \in [Purgers -> PurgeCall] /\ \A q \in Purgers : PurgeAccounts(purge'[q])
  <2>1. [Next]_vars /\ PurgeAccounts(purge'[p])
    <3>1. CASE CallPurge(p)
      <4>1. PICK before \in Cutoffs, rowLimit \in RowLimits, byteLimit \in ByteLimits :
              BeginPurge(p, before, rowLimit, byteLimit)
        BY <3>1 DEF CallPurge
      <4>2. UNCHANGED vars
        BY <4>1 DEF BeginPurge
      <4> QED BY <4>1, <4>2, BeginPurgeAccounts
    <3>2. CASE PurgeStep(p)
      BY <3>2, PurgeStepAccounts
    <3>3. CASE AbortPurge(p)
      BY <1>0, <3>3, IdlePurgeAccounts DEF AbortPurge
    <3> QED BY <1>2, <3>1, <3>2, <3>3
  <2>2. sweep' = sweep /\ \E new : purge' = [purge EXCEPT ![p] = new]
    BY <1>2 DEF CallPurge, BeginPurge, PurgeStep, SelectTerminal, InspectCandidate, RetireCandidate,
                SelectPending, DeleteHistory, EndPurge, AbortPurge
  <2>3. purge'[p] \in PurgeCall
    BY <2>1 DEF PurgeAccounts
  <2> QED BY <1>0, <2>1, <2>2, <2>3
<1>3. ASSUME NEW p \in Sweepers, CallSweep(p) \/ SweepRun(p) \/ EndSweep(p) \/ AbortSweep(p)
      PROVE  /\ [Next]_vars /\ purge' = purge
             /\ sweep' \in [Sweepers -> SweepCall]
             /\ SweepAccounts(sweep'[p], events', nextOrdinal')
             /\ \A q \in Sweepers : q # p => sweep'[q] = sweep[q]
  <2>1. [Next]_vars /\ SweepAccounts(sweep'[p], events', nextOrdinal')
    <3>1. CASE CallSweep(p)
      <4>1. PICK before \in Cutoffs, rowLimit \in RowLimits, byteLimit \in ByteLimits :
              BeginSweep(p, before, rowLimit, byteLimit)
        BY <3>1 DEF CallSweep
      <4>2. UNCHANGED vars /\ events' = events /\ nextOrdinal' = nextOrdinal
        BY <4>1 DEF BeginSweep, vars, tables
      <4> QED BY <4>1, <4>2, BeginSweepAccounts
    <3>2. CASE SweepRun(p)
      BY <3>2, SweepRunAccounts
    <3>3. CASE EndSweep(p) \/ AbortSweep(p)
      <4>1. UNCHANGED vars /\ events' = events /\ nextOrdinal' = nextOrdinal /\ sweep'[p] = NoSweep
        BY <1>0, <3>3 DEF EndSweep, AbortSweep, vars, tables
      <4> QED BY <1>0, <4>1, IdleSweepAccounts
    <3> QED BY <1>3, <3>1, <3>2, <3>3
  <2>2. purge' = purge /\ \E new : sweep' = [sweep EXCEPT ![p] = new]
    BY <1>3 DEF CallSweep, BeginSweep, SweepRun, EndSweep, AbortSweep
  <2>3. sweep'[p] \in SweepCall
    BY <2>1 DEF SweepAccounts
  <2> QED BY <1>0, <2>1, <2>2, <2>3
<1> QED BY <1>0, <1>1, <1>2, <1>3 DEF CallsNext

-----------------------------------------------------------------------------
(* The theorems *)

\* The invariant holds at first,
LEMMA CallsBegin == CallsInit => CallsInv
<1> SUFFICES ASSUME CallsInit PROVE CallsInv
  OBVIOUS
<1>0. /\ Init /\ purge = [p \in Purgers |-> NoPurge] /\ sweep = [p \in Sweepers |-> NoSweep]
  BY DEF CallsInit
<1>1. StoreInv /\ nextOrdinal \in Nat
  BY <1>0, InitEstablishesInv DEF StoreInv, TypeOK
<1>2. FiniteTables
  BY <1>0, FS_EmptySet DEF Init, FiniteTables
<1>3. FewRuns
  <2>1. Registered = {}
    BY <1>0 DEF Init, Registered, NoRegistry
  <2> QED BY <2>1, FS_EmptySet DEF FewRuns
<1>4. purge \in [Purgers -> PurgeCall] /\ \A p \in Purgers : PurgeAccounts(purge[p])
  BY <1>0, IdlePurgeAccounts
<1>5. sweep \in [Sweepers -> SweepCall] /\ \A p \in Sweepers : SweepAccounts(sweep[p], events, nextOrdinal)
  BY <1>0, <1>1, IdleSweepAccounts
<1> QED BY <1>1, <1>2, <1>3, <1>4, <1>5 DEF CallsInv

\* and every step keeps it.
LEMMA CallsKeep == CallsInv /\ [CallsNext]_allVars => CallsInv'
<1> SUFFICES ASSUME CallsInv, [CallsNext]_allVars PROVE CallsInv'
  OBVIOUS
<1>0. /\ StoreInv /\ FiniteTables /\ FewRuns
      /\ purge \in [Purgers -> PurgeCall] /\ \A p \in Purgers : PurgeAccounts(purge[p])
      /\ sweep \in [Sweepers -> SweepCall]
      /\ \A p \in Sweepers : SweepAccounts(sweep[p], events, nextOrdinal)
      /\ IsFiniteSet(events) /\ events \subseteq EventRow /\ nextOrdinal \in Nat
  BY CallParts
<1>1. /\ [Next]_vars
      /\ purge' \in [Purgers -> PurgeCall] /\ \A p \in Purgers : PurgeAccounts(purge'[p])
      /\ sweep' \in [Sweepers -> SweepCall]
      /\ \A p \in Sweepers : \/ SweepAccounts(sweep'[p], events', nextOrdinal')
                             \/ sweep'[p] = sweep[p]
  <2>1. CASE CallsNext
    BY <2>1, StepsKeepAccounts
  <2>2. CASE UNCHANGED allVars
    BY <1>0, <2>2 DEF allVars, callVars
  <2> QED BY <2>1, <2>2
<1>2. StoreInv' /\ FiniteTables' /\ FewRuns' /\ SmallStep
  BY <1>0, <1>1, StoreStepKeeps
<1>3. ASSUME NEW p \in Sweepers PROVE SweepAccounts(sweep'[p], events', nextOrdinal')
  <2>1. CASE sweep'[p] = sweep[p]
    <3> DEFINE log2 == events'
               next2 == nextOrdinal'
    <3>1. next2 \in Nat /\ nextOrdinal <= next2
      BY <1>2 DEF StoreInv, TypeOK, SmallStep
    <3>2. PICK e : log2 \subseteq events \cup {e} /\ (log2 \subseteq events \/ e.ordinal = nextOrdinal)
      BY <1>2 DEF SmallStep
    <3>3. SweepAccounts(sweep[p], events, nextOrdinal)
      BY <1>0
    <3> HIDE DEF log2, next2
    <3>4. SweepAccounts(sweep[p], log2, next2)
      BY <1>0, <3>1, <3>2, <3>3, AccountsStay
    <3> QED BY <2>1, <3>4 DEF log2, next2
  <2> QED BY <1>1, <2>1
<1> QED BY <1>1, <1>2, <1>3 DEF CallsInv

\* What makes up the budget stays within it.
LEMMA PurgeStaysWithin ==
  ASSUME NEW call, PurgeAccounts(call)
  PROVE  call.deletedRows <= call.rowLimit /\ call.deletedBytes <= call.byteLimit
<1>1. call \in PurgeCall
  BY DEF PurgeAccounts
<1>2. /\ call.rows \in Nat /\ call.bytes \in Nat /\ call.rowLimit \in Nat /\ call.byteLimit \in Nat
      /\ call.deletedRows \in Nat /\ call.deletedBytes \in Nat
  BY <1>1 DEF PurgeCall
<1>3. \A a, d, n \in Nat : (a + d = n => d <= n) /\ 0 <= n
  OBVIOUS
<1>4. CASE call.at = "delete"
  <2>1. call.rows + call.deletedRows = call.rowLimit /\ call.bytes + call.deletedBytes = call.byteLimit
    BY <1>4 DEF PurgeAccounts
  <2> QED BY <1>2, <1>3, <2>1
<1>5. CASE call.at # "delete"
  <2>1. call.deletedRows = 0 /\ call.deletedBytes = 0
    BY <1>5 DEF PurgeAccounts
  <2> QED BY <1>2, <1>3, <2>1
<1> QED BY <1>4, <1>5

\* In every reachable state the tables are consistent and finite, and every
\* call's budget covers what it deleted and what it may still delete.
THEOREM AccountsHold == CallsSpec => []CallsInv
<1> QED BY CallsBegin, CallsKeep, PTL DEF CallsSpec

\* The calls of retention, cut into their statements and transactions and run
\* by any number of processes, make only the steps the Store allows, so what
\* is proved of the Store is true beside them.
THEOREM CallsImplementStore == CallsSpec => Spec
<1>1. CallsInit => Init
  BY DEF CallsInit
<1>2. CallsInv /\ [CallsNext]_allVars => [Next]_vars
  <2> SUFFICES ASSUME CallsInv, [CallsNext]_allVars PROVE [Next]_vars
    OBVIOUS
  <2>1. CASE CallsNext
    BY <2>1, StepsKeepAccounts
  <2>2. CASE UNCHANGED allVars
    BY <2>2 DEF allVars
  <2> QED BY <2>1, <2>2
<1> QED BY <1>1, <1>2, AccountsHold, PTL DEF CallsSpec, Spec

\* No call deletes more rows or bytes than its arguments allow, over all its
\* transactions and beside any number of other calls.
THEOREM BudgetsAreHard == CallsSpec => []BudgetIsHard
<1>1. CallsInv => BudgetIsHard
  <2> SUFFICES ASSUME CallsInv PROVE BudgetIsHard
    OBVIOUS
  <2>1. ASSUME NEW p \in Purgers
        PROVE  purge[p].deletedRows <= purge[p].rowLimit /\ purge[p].deletedBytes <= purge[p].byteLimit
    BY CallParts, PurgeStaysWithin
  <2>2. ASSUME NEW p \in Sweepers
        PROVE  sweep[p].deletedRows <= sweep[p].rowLimit /\ sweep[p].deletedBytes <= sweep[p].byteLimit
    <3> DEFINE call == sweep[p]
               E == Numbered(events, call.ordinals)
    <3>1. /\ SweepAccounts(call, events, nextOrdinal) /\ call \in SweepCall
          /\ IsFiniteSet(E) /\ E \subseteq EventRow
      BY CallParts, NumberedIsFinite
    <3>2. call.deletedRows + Cardinality(E) <= call.rowLimit /\ call.deletedBytes + BytesIn(E) <= call.byteLimit
      BY <3>1 DEF SweepAccounts
    <3> HIDE DEF E, call
    <3>3. /\ call.rowLimit \in Nat /\ call.byteLimit \in Nat
          /\ call.deletedRows \in Nat /\ call.deletedBytes \in Nat
      BY <3>1 DEF SweepCall
    <3>4. Cardinality(E) \in Nat /\ BytesIn(E) \in Nat
      <4>1. E \in SUBSET E
        OBVIOUS
      <4> QED BY <3>1, <4>1, LessIsNumbered
    <3>5. call.deletedRows <= call.rowLimit /\ call.deletedBytes <= call.byteLimit
      BY <3>2, <3>3, <3>4
    <3> QED BY <3>5 DEF call
  <2> QED BY <2>1, <2>2 DEF BudgetIsHard
<1> QED BY <1>1, AccountsHold, PTL

\* A worker deletes no record.
LEMMA WorkersKeepRecords == WorkerNext => events \subseteq events'
<1>1. ASSUME NEW row, NEW prior, AdvanceCheckpoint(row, prior) PROVE events' = events
  BY <1>1 DEF AdvanceCheckpoint
<1>2. ASSUME NEW r, NEW sequence, NEW payload, NEW claim, AppendRunLog(r, sequence, payload, claim)
      PROVE  events \subseteq events'
  BY <1>2 DEF AppendRunLog
<1>3. ASSUME NEW r, NEW base, NEW owner, NEW claim, NEW identity, NEW lease, NEW stamp,
             Claim(r, base, owner, claim, identity, lease, stamp)
      PROVE  events' = events
  BY <1>1, <1>3 DEF Claim
<1>4. ASSUME NEW r, NEW base, NEW owner, NEW identity, NEW status, NEW lease, NEW progress,
             NEW stamp, Write(r, base, owner, identity, status, lease, progress, stamp)
      PROVE  events' = events
  BY <1>1, <1>4 DEF Write
<1>5. ASSUME NEW r, NEW sequence, NEW payload, AppendPlain(r, sequence, payload)
      PROVE  events \subseteq events'
  BY <1>2, <1>5 DEF AppendPlain
<1>6. ASSUME NEW r, NEW owner, NEW claim, NEW sequence, NEW payload,
             AppendFenced(r, owner, claim, sequence, payload)
      PROVE  events \subseteq events'
  BY <1>2, <1>6 DEF AppendFenced
<1>7. ASSUME NEW r, NEW identity, NEW owner, NEW lease, NEW stamp, Create(r, identity, owner, lease, stamp)
      PROVE  events' = events
  BY <1>7 DEF Create
<1>8. ASSUME NEW r, NEW owner, NEW claim, NEW lease, RenewLease(r, owner, claim, lease)
      PROVE  events' = events
  BY <1>8 DEF RenewLease
<1> QED BY <1>3, <1>4, <1>5, <1>6, <1>7, <1>8 DEF WorkerNext

\* A journal loses a record only in a PurgeRunLog call that selected it as old
\* enough, whatever happened to the run between the call's select and its
\* transaction.
THEOREM OnlySelectedRowsGo == CallsSpec => SweepDeletesOnlySelected
<1> DEFINE Selected(e) == \E p \in Sweepers, x \in retention :
                            /\ x.ordinal = e.ordinal
                            /\ e.ordinal \in sweep[p].ordinals
                            /\ x.appendedAt < sweep[p].before
           Deleted == \A e \in events \ events' : registry[e.run].kind = "journal" => Selected(e)
<1>1. ASSUME [CallsNext]_allVars PROVE Deleted
  <2>1. ASSUME events \subseteq events' PROVE Deleted
    BY <2>1
  <2>2. ASSUME NEW r, NEW rows, NEW bytes, DeletePurgingHistory(r, rows, bytes) PROVE Deleted
    <3>1. registry[r].kind = "workflow" /\ \A e \in events \ events' : e.run = r
      BY <2>2 DEF DeletePurgingHistory, EventsWithin, WithinBudget, EventsOf
    <3> QED BY <3>1
  <2>3. ASSUME NEW r, NEW before, NEW rows, NEW bytes, PurgeConfirmedRunLog(r, before, rows, bytes)
        PROVE  Deleted
    <3>1. registry[r].kind = "workflow"
      BY <2>3 DEF PurgeConfirmedRunLog, ActiveWorkflow
    <3>2. \A e \in events \ events' : e.run = r
      BY <2>3 DEF PurgeConfirmedRunLog, ContiguousPrefix, ConfirmedCandidates, EventsOf
    <3> QED BY <3>1, <3>2
  <2>4. ASSUME NEW p \in Sweepers, SweepRun(p) PROVE Deleted
    <3>1. CASE PurgeJournalEvents(Head(sweep[p].queue), sweep[p].ordinals, sweep[p].before)
      BY <3>1 DEF PurgeJournalEvents, EligibleRetention, RetentionOf
    <3>2. CASE UNCHANGED vars
      BY <2>1, <3>2 DEF vars, tables
    <3> QED BY <2>4, <3>1, <3>2 DEF SweepRun
  <2>5. ASSUME NEW p \in Purgers, PurgeStep(p) PROVE Deleted
    <3>1. CASE DeleteHistory(p)
      <4>1. \/ DeletePurgingHistory(Head(purge[p].queue), purge[p].rows, purge[p].bytes)
            \/ UNCHANGED vars
        BY <3>1 DEF DeleteHistory
      <4>2. CASE UNCHANGED vars
        BY <2>1, <4>2 DEF vars, tables
      <4> QED BY <2>2, <4>1, <4>2
    <3>2. CASE ~DeleteHistory(p)
      <4>1. events' = events
        BY <2>5, <3>2 DEF PurgeStep, SelectTerminal, InspectCandidate, RetireCandidate,
                          EnrollTerminalRun, SelectPending, EndPurge, vars, tables
      <4> QED BY <2>1, <4>1
    <3> QED BY <3>1, <3>2
  <2>6. CASE WorkerNext
    BY <2>1, <2>6, WorkersKeepRecords
  <2>7. CASE CompactNext
    BY <2>3, <2>7 DEF CompactNext
  <2>8. CASE Tick \/ UNCHANGED allVars
    BY <2>1, <2>8 DEF Tick, allVars, vars, tables
  <2>9. ASSUME NEW p \in Purgers, CallPurge(p) \/ AbortPurge(p) PROVE Deleted
    BY <2>1, <2>9 DEF CallPurge, BeginPurge, AbortPurge, vars, tables
  <2>10. ASSUME NEW p \in Sweepers, CallSweep(p) \/ EndSweep(p) \/ AbortSweep(p) PROVE Deleted
    BY <2>1, <2>10 DEF CallSweep, BeginSweep, EndSweep, AbortSweep, vars, tables
  <2> HIDE DEF Deleted
  <2> QED BY <1>1, <2>4, <2>5, <2>6, <2>7, <2>8, <2>9, <2>10 DEF CallsNext
<1>2. [CallsNext]_allVars => [Deleted]_allVars
  BY <1>1
<1>3. CallsSpec => [][Deleted]_allVars
  BY <1>2, PTL DEF CallsSpec
<1> QED BY <1>3 DEF SweepDeletesOnlySelected
=============================================================================
