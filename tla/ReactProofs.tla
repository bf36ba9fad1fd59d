---------------------------- MODULE ReactProofs ----------------------------
(***************************************************************************)
(* What every run of the React agent keeps to, for every value of its      *)
(* constants: its transcript is whole (TranscriptIsWhole), its limits hold *)
(* (WithinLimits), an invokable call is a barrier (InvokableIsBarrier) and *)
(* the run is a Conversation.                                              *)
(*                                                                         *)
(* All of it follows from IInv.  Its heart is Transcript: the messages,    *)
(* the observations that wait for the next turn, and for each call that is *)
(* owed the answer it will get.  Transcript is a whole transcript all the  *)
(* time, and only the model adds to it; to settle, crash or interrupt      *)
(* moves an answer from one of its three parts to another, or nothing.     *)
(***************************************************************************)
EXTENDS React, Recursion, SequenceTheorems

\* What the messages of the transcript and the observations are.
Messages == [kind : {"input", "assistant", "tool", "repair"}, id : Ids \cup Nat,
             calls : Seq(Calls), parts : BOOLEAN]
Observations == [kind : {"tool", "repair"}, id : Ids \cup Nat, calls : {<<>>}, parts : {TRUE}]

\* What a branch may hold.
Statuses == {"ready", "running", "settled", "failed", "waiting"}
OutcomeKinds == {"result", "rejected", "error", "interrupt", "nil"}
Outcomes == [kind : OutcomeKinds, id : Ids \cup Nat, refs : BOOLEAN]
CallLists == {response.calls : response \in Responses}

Typed ==
  /\ state \in State
  /\ at \in Nodes \cup Ended \cup {"suspended"}
  /\ route \in BOOLEAN
  /\ batch \in Seq(Calls)
  /\ branch \in [DOMAIN batch -> [status : Statuses, outcome : Outcomes]]
  /\ crashes \in 0..MaxCrashes
  /\ interrupts \in 0..MaxInterrupts

\* A branch that is settled has an outcome of its call, and what is observed
\* is settled.
Branches ==
  /\ \A i \in DOMAIN batch : branch[i].status = "settled" => OutcomeAccepted(batch[i], branch[i].outcome)
  /\ at = "observe" => \A i \in DOMAIN batch : branch[i].status = "settled"
  /\ Cardinality(With("running")) <= MaxParallelTools

\* Calls that are not observed yet.
Owed == batch \o state.remaining
Expected(calls) == [j \in DOMAIN calls |-> Message("tool", calls[j].id, <<>>, TRUE)]

\* The transcript the run comes to when every call that is owed is observed.
Transcript == (state.messages \o state.pending) \o Expected(Owed)

Answered(ms) ==
  /\ \A i \in DOMAIN ms : \A j \in DOMAIN ms[i].calls :
       /\ i + j \in DOMAIN ms
       /\ ms[i + j].kind = "tool"
       /\ ms[i + j].id = ms[i].calls[j].id
  /\ \A k \in DOMAIN ms : ms[k].kind = "tool" =>
       \E i \in 1..(k - 1) : k - i <= Len(ms[i].calls)

\* Every call list of ms has been given its room.
Settled(ms) == \A i \in 1..Len(ms) : i + Len(ms[i].calls) <= Len(ms)

\* Nothing is under way, a repair is, or the calls of the last message are.
Quiet(ms, p, owed) == p = <<>> /\ owed = <<>> /\ Settled(ms)
Repairing(ms, p, owed) ==
  /\ Len(p) = 1 /\ p[1].kind = "repair" /\ p[1].calls = <<>>
  /\ owed = <<>>
  /\ Settled(ms)
  /\ <<>> \in CallLists
Calling(ms, p, owed) ==
  /\ Len(ms) > 0
  /\ ms[Len(ms)].kind = "assistant"
  /\ ms[Len(ms)].calls # <<>>
  /\ ms[Len(ms)].calls \in CallLists
  /\ Len(ms[Len(ms)].calls) = Len(p) + Len(owed)
  /\ \A i \in 1..(Len(ms) - 1) : i + Len(ms[i].calls) <= Len(ms) - 1
  /\ \A j \in 1..Len(p) : p[j].kind = "tool" /\ p[j].calls = <<>>
  /\ \A j \in 1..Len(owed) : ms[Len(ms)].calls[Len(p) + j] = owed[j]

\* Which of the three it is where.
Stages ==
  /\ at \in {"model", "finish", "done"} => Quiet(state.messages, state.pending, Owed)
  /\ at = "prepare" =>
       /\ Owed = <<>>
       /\ \/ Quiet(state.messages, state.pending, Owed)
          \/ Repairing(state.messages, state.pending, Owed)
          \/ Calling(state.messages, state.pending, Owed)
  /\ at = "continue" =>
       /\ batch = <<>>
       /\ route <=> Owed # <<>>
       /\ \/ Repairing(state.messages, state.pending, Owed)
          \/ Calling(state.messages, state.pending, Owed)
  /\ at \in {"dispatch", "tool", "observe", "suspended"} => Calling(state.messages, state.pending, Owed)
  /\ at = "dispatch" => batch = <<>> /\ state.remaining # <<>>
  /\ at \in {"tool", "observe", "suspended"} => batch # <<>>

\* finish is given the answer.
Answering ==
  at = "done" \/ (at = "finish" /\ route) =>
    /\ Len(state.messages) > 0
    /\ state.messages[Len(state.messages)].kind = "assistant"
    /\ state.messages[Len(state.messages)].parts
    /\ state.messages[Len(state.messages)].calls = <<>>

\* An invokable call is a batch of its own.
Batches == \A i \in DOMAIN batch : IsInvokable(batch[i]) => Len(batch) = 1

\* The counters count the transcript.
Counted ==
  /\ state.turn <= MaxTurns
  /\ state.toolCalls = CallsIn(state.messages)
  /\ state.toolCalls <= MaxToolCalls
  /\ Len(Owed) <= state.toolCalls

\* The artifacts are of calls that are observed, in their order.
Reported ==
  /\ ArtifactsOnce
  /\ \A i \in DOMAIN state.artifacts : state.artifacts[i] <= state.toolCalls - Len(Owed)

\* The turns of the abstract conversation.
Conversed ==
  /\ at \in {"model", "finish"} => Len(WholeTurns) = state.turn - 1 /\ C!TotalCalls(WholeTurns) = state.toolCalls
  /\ at \in Nodes \cup {"suspended"} /\ Quiet(state.messages, state.pending, Owed) /\ at = "prepare" =>
       Len(WholeTurns) = state.turn /\ C!TotalCalls(WholeTurns) = state.toolCalls
  /\ at \in Nodes \cup {"suspended"} /\ Repairing(state.messages, state.pending, Owed) =>
       Len(WholeTurns) = state.turn - 1 /\ C!TotalCalls(WholeTurns) = state.toolCalls
  /\ at \in Nodes \cup {"suspended"} /\ Calling(state.messages, state.pending, Owed) =>
       /\ Len(WholeTurns) = state.turn - 1
       /\ C!TotalCalls(WholeTurns) + Len(state.messages[Len(state.messages)].calls) = state.toolCalls

\* The inductive invariant.
IInv ==
  Typed /\ Branches /\ Answered(Transcript) /\ Stages /\ Answering /\ Batches /\ Counted /\ Reported /\ Conversed

\* The partial sums of the calls of a transcript.
Sums(ms) == {T \in [0..Len(ms) -> Nat] :
  T[0] = 0 /\ \A k \in 1..Len(ms) : T[k] = T[k - 1] + Len(ms[k].calls)}

\* The calls of a transcript are counted from left to right.
LEMMA CallsAreSummed ==
  ASSUME NEW M, \A m \in M : Len(m.calls) \in Nat, NEW ms \in Seq(M)
  PROVE \E T \in Sums(ms) : CallsIn(ms) = T[Len(ms)]
<1> DEFINE n == Len(ms)
           step == [p \in (1..n) \X Nat |-> p[2] + Len(ms[p[1]].calls)]
           iter == CHOOSE f : f = [s \in SUBSET DOMAIN ms |->
                                     IF s = {} THEN 0 ELSE f[s \ {Max(s)}] + Len(ms[Max(s)].calls)]
<1>1. CallsIn(ms) = iter[DOMAIN ms]
  BY DEF CallsIn, FoldLeft, MapThenFoldSet
<1> HIDE DEF step, iter
<1>2. n \in Nat /\ DOMAIN ms = 1..n /\ \A i \in 1..n : Len(ms[i].calls) \in Nat
  OBVIOUS
<1> HIDE DEF n
<1> USE DEF step
<1>3. step \in [(1..n) \X Nat -> Nat] /\ \A i \in 1..n, x \in Nat : step[<<i, x>>] = x + Len(ms[i].calls)
  BY <1>2
<1> HIDE DEF step
<1>4. PICK h \in LeftFolds(n, Nat, 0, step) : TRUE
  <2>1. n \in Nat /\ 0 \in Nat /\ step \in [(1..n) \X Nat -> Nat]
    BY <1>2, <1>3
  <2> QED BY ONLY <2>1, LeftFold
<1>5. h \in [SUBSET (1..n) -> Nat]
  BY <1>4 DEF LeftFolds
<1>6. ASSUME NEW s \in SUBSET (1..n)
      PROVE h[s] = IF s = {} THEN 0 ELSE h[s \ {Max(s)}] + Len(ms[Max(s)].calls)
  <2>1. h[s] = IF s = {} THEN 0 ELSE step[<<Max(s), h[s \ {Max(s)}]>>]
    BY <1>4 DEF LeftFolds
  <2>2. CASE s # {}
    <3>1. Max(s) \in 1..n
      BY <1>2, <2>2, MaxIsMember
    <3>2. s \ {Max(s)} \in SUBSET (1..n)
      OBVIOUS
    <3>3. h[s \ {Max(s)}] \in Nat
      BY <1>5, <3>2
    <3> QED BY <1>3, <2>1, <2>2, <3>1, <3>3
  <2> QED BY <2>1, <2>2
<1>7. h = [s \in SUBSET DOMAIN ms |-> IF s = {} THEN 0 ELSE h[s \ {Max(s)}] + Len(ms[Max(s)].calls)]
  BY <1>2, <1>5, <1>6
<1>8. iter = [s \in SUBSET DOMAIN ms |-> IF s = {} THEN 0 ELSE iter[s \ {Max(s)}] + Len(ms[Max(s)].calls)]
  BY <1>7 DEF iter
<1>9. iter[{}] = 0
  BY <1>2, <1>8
<1>10. ASSUME NEW s \in SUBSET (1..n), s # {}, iter[s \ {Max(s)}] \in Nat
       PROVE iter[s] = step[<<Max(s), iter[s \ {Max(s)}]>>]
  <2>1. Max(s) \in 1..n
    BY <1>2, <1>10, MaxIsMember
  <2> QED BY <1>2, <1>3, <1>8, <1>10, <2>1
<1>10a. FoldsAs(n, Nat, 0, step, iter)
  BY <1>9, <1>10 DEF FoldsAs
<1>11. PICK T \in Foldings(n, Nat, 0, step, iter[1..n]) : TRUE
  <2>1. /\ n \in Nat /\ 0 \in Nat /\ step \in [(1..n) \X Nat -> Nat] /\ FoldsAs(n, Nat, 0, step, iter)
   BY <1>2, <1>3, <1>10a
  <2>2. Foldings(n, Nat, 0, step, iter[1..n]) # {}
   BY <2>1, FoldIsStepwise
  <2> QED BY <2>2
<1>12. T \in [0..n -> Nat] /\ T[0] = 0
  BY <1>11 DEF Foldings
<1>13. \A k \in 1..n : T[k] = T[k - 1] + Len(ms[k].calls)
  <2> SUFFICES ASSUME NEW k \in 1..n PROVE T[k] = T[k - 1] + Len(ms[k].calls)
    OBVIOUS
  <2>1. T[k] = step[<<k, T[k - 1]>>] /\ k - 1 \in 0..n
    BY <1>2, <1>11 DEF Foldings
  <2>2. T[k - 1] \in Nat
    BY <1>12, <2>1
  <2> QED BY <1>3, <2>1, <2>2
<1>14. T \in Sums(ms)
  BY <1>12, <1>13 DEF Sums, n
<1>15. CallsIn(ms) = T[n]
  BY <1>1, <1>2, <1>11 DEF Foldings
<1> QED BY <1>14, <1>15 DEF n

\* ls begins with ms.
GoesOn(ms, ls) == Len(ms) <= Len(ls) /\ \A k \in 1..Len(ms) : ls[k] = ms[k]

\* A transcript that goes on as another one does has the same partial sums.
LEMMA SumsAgree ==
  ASSUME NEW M, \A m \in M : Len(m.calls) \in Nat, NEW ms \in Seq(M), NEW ls \in Seq(M),
         GoesOn(ms, ls),
         NEW T \in Sums(ms), NEW U \in Sums(ls)
  PROVE U[Len(ms)] = T[Len(ms)]
<1> DEFINE n == Len(ms)
<1>1. n \in Nat /\ n <= Len(ls) /\ Len(ls) \in Nat
  BY DEF GoesOn
<1>2. T[0] = 0 /\ \A k \in 1..n : T[k] = T[k - 1] + Len(ms[k].calls)
  BY DEF Sums
<1>3. U[0] = 0 /\ \A k \in 1..n : U[k] = U[k - 1] + Len(ms[k].calls)
  BY <1>1 DEF Sums, GoesOn
<1> HIDE DEF n
<1> DEFINE S == {k \in Nat : k <= n => U[k] = T[k]}
<1>4. 0 \in S
  BY <1>2, <1>3
<1>5. ASSUME NEW k \in Nat, k \in S PROVE k + 1 \in S
  <2> SUFFICES ASSUME k + 1 <= n PROVE U[k + 1] = T[k + 1]
    OBVIOUS
  <2>1. k + 1 \in 1..n /\ (k + 1) - 1 = k /\ U[k] = T[k]
    BY <1>1, <1>5
  <2> QED BY <1>2, <1>3, <2>1
<1> HIDE DEF S
<1>6. Nat \subseteq S
  BY <1>4, <1>5, Induction
<1> QED BY <1>1, <1>6 DEF S, n

\* CallsIn counts the calls of one more message.
LEMMA CallsOfAppend ==
  ASSUME NEW M, \A m \in M : Len(m.calls) \in Nat, NEW ms \in Seq(M), NEW m \in M
  PROVE CallsIn(ms) \in Nat /\ CallsIn(Append(ms, m)) = CallsIn(ms) + Len(m.calls)
<1> DEFINE ls == Append(ms, m)
           n == Len(ms)
<1>1. ls \in Seq(M) /\ Len(ls) = n + 1 /\ n \in Nat /\ ls[n + 1] = m /\ \A k \in 1..n : ls[k] = ms[k]
  OBVIOUS
<1> HIDE DEF ls
<1>2. PICK T \in Sums(ms) : CallsIn(ms) = T[Len(ms)]
  BY CallsAreSummed
<1>3. PICK U \in Sums(ls) : CallsIn(ls) = U[Len(ls)]
  BY <1>1, CallsAreSummed
<1>4. U[n] = T[n]
  <2>1. GoesOn(ms, ls)
    BY <1>1 DEF GoesOn
  <2> QED BY <1>1, <1>2, <1>3, <2>1, SumsAgree
<1>5. U[n + 1] = U[n] + Len(m.calls)
  <2>1. n + 1 \in 1..Len(ls) /\ (n + 1) - 1 = n
    BY <1>1
  <2> QED BY <1>1, <1>3, <2>1 DEF Sums
<1>6. T[n] \in Nat
  <2>1. n \in 0..n /\ T \in [0..n -> Nat]
    BY <1>1, <1>2 DEF Sums
  <2> QED BY <2>1
<1> QED BY <1>1, <1>2, <1>3, <1>4, <1>5, <1>6 DEF ls

\* CallsIn passes over messages without calls.
LEMMA CallsOfConcat ==
  ASSUME NEW M, \A m \in M : Len(m.calls) \in Nat, NEW ms \in Seq(M), NEW q \in Seq(M),
         \A j \in 1..Len(q) : Len(q[j].calls) = 0
  PROVE CallsIn(ms \o q) = CallsIn(ms)
<1> DEFINE ls == ms \o q
           n == Len(ms)
           d == Len(q)
<1>1. /\ ls \in Seq(M) /\ Len(ls) = n + d /\ n \in Nat /\ d \in Nat
      /\ \A k \in 1..n : ls[k] = ms[k]
      /\ \A k \in 1..d : ls[n + k] = q[k]
  OBVIOUS
<1> HIDE DEF ls, d
<1>2. PICK T \in Sums(ms) : CallsIn(ms) = T[Len(ms)]
  BY CallsAreSummed
<1>3. PICK U \in Sums(ls) : CallsIn(ls) = U[Len(ls)]
  BY <1>1, CallsAreSummed
<1>4. U[n] = T[n]
  <2>1. GoesOn(ms, ls)
    BY <1>1 DEF GoesOn
  <2> QED BY <1>1, <1>2, <1>3, <2>1, SumsAgree
<1>5. T[n] \in Nat
  <2>1. T \in [0..n -> Nat] /\ n \in 0..n
    BY <1>1, <1>2 DEF Sums
  <2> QED BY <2>1
<1> DEFINE S == {k \in Nat : k <= d => U[n + k] = T[n]}
<1>6. 0 \in S
  BY <1>1, <1>4
<1>7. ASSUME NEW k \in Nat, k \in S PROVE k + 1 \in S
  <2> SUFFICES ASSUME k + 1 <= d PROVE U[n + (k + 1)] = T[n]
    OBVIOUS
  <2>1. n + (k + 1) \in 1..Len(ls) /\ (n + (k + 1)) - 1 = n + k
    BY <1>1
  <2>2. U[n + (k + 1)] = U[n + k] + Len(ls[n + (k + 1)].calls)
    BY <1>3, <2>1 DEF Sums
  <2>3. Len(ls[n + (k + 1)].calls) = 0
    BY <1>1 DEF d
  <2>4. U[n + k] = T[n]
    BY <1>1, <1>7
  <2> QED BY <1>5, <2>2, <2>3, <2>4
<1> HIDE DEF S
<1>8. Nat \subseteq S
  BY <1>6, <1>7, Induction
<1>9. U[n + d] = T[n]
  BY <1>1, <1>8 DEF S
<1> QED BY <1>1, <1>2, <1>3, <1>9 DEF ls


-----------------------------------------------------------------------------
\* WholeTurns, as an operator of the transcript.
WholeIn(ms, i) == \/ ms[i].kind = "repair"
                  \/ ms[i].calls # <<>> /\ i + Len(ms[i].calls) <= Len(ms)
TurnsOf(ms) ==
  FoldLeftDomain(LAMBDA ts, i : IF WholeIn(ms, i) THEN Append(ts, ms[i].calls) ELSE ts, <<>>, ms)

\* WholeTurns is the fold of the transcript.
LEMMA WholeTurnsOf == WholeTurns = TurnsOf(state.messages)
BY DEF WholeTurns, TurnsOf, WholeIn

\* So it is in the next state.
LEMMA WholeTurnsNext == WholeTurns' = TurnsOf(state'.messages)
<1>1. (WholeTurns = TurnsOf(state.messages))'
  BY WholeTurnsOf, PTL
<1> QED BY <1>1

\* The whole turns of the first messages.
TurnLists(ms) == {T \in [0..Len(ms) -> Seq(Seq(Calls))] :
  /\ T[0] = <<>>
  /\ \A k \in 1..Len(ms) : T[k] = IF WholeIn(ms, k) THEN Append(T[k - 1], ms[k].calls) ELSE T[k - 1]}

\* The turns of a transcript are collected from left to right.
LEMMA TurnsAreCollected ==
  ASSUME NEW M, \A m \in M : m.calls \in Seq(Calls), NEW ms \in Seq(M)
  PROVE \E T \in TurnLists(ms) : TurnsOf(ms) = T[Len(ms)]
<1> DEFINE n == Len(ms)
           D == DOMAIN [i \in DOMAIN ms |-> i]
           X == Seq(Seq(Calls))
           step == [p \in (1..n) \X X |-> IF WholeIn(ms, p[1]) THEN Append(p[2], ms[p[1]].calls) ELSE p[2]]
           index(s) == [i \in DOMAIN ms |-> i][Max(s)]
           iter == CHOOSE f : f = [s \in SUBSET D |->
                     IF s = {} THEN <<>>
                     ELSE IF WholeIn(ms, index(s)) THEN Append(f[s \ {Max(s)}], ms[index(s)].calls)
                          ELSE f[s \ {Max(s)}]]
<1>1. TurnsOf(ms) = iter[D]
  BY DEF TurnsOf, FoldLeftDomain, FoldLeft, MapThenFoldSet
<1>2. n \in Nat /\ DOMAIN ms = 1..n /\ D = 1..n /\ \A i \in 1..n : ms[i].calls \in Seq(Calls)
  OBVIOUS
<1>3. <<>> \in X /\ \A x \in X, c \in Seq(Calls) : Append(x, c) \in X
  OBVIOUS
<1> HIDE DEF n, D, X
<1>4. /\ step \in [(1..n) \X X -> X]
      /\ \A i \in 1..n, x \in X : step[<<i, x>>] = IF WholeIn(ms, i) THEN Append(x, ms[i].calls) ELSE x
  BY <1>2, <1>3
<1> HIDE DEF step
<1>5. PICK h \in LeftFolds(n, X, <<>>, step) : TRUE
  <2>1. n \in Nat /\ <<>> \in X /\ step \in [(1..n) \X X -> X]
    BY <1>2, <1>3, <1>4
  <2> QED BY <2>1, LeftFold
<1>6. h \in [SUBSET (1..n) -> X]
  BY <1>5 DEF LeftFolds
<1>7. ASSUME NEW s \in SUBSET (1..n), s # {}
      PROVE Max(s) \in 1..n /\ index(s) = Max(s) /\ s \ {Max(s)} \in SUBSET (1..n)
  BY <1>2, <1>7, MaxIsMember
<1> HIDE DEF index
<1>8. ASSUME NEW s \in SUBSET (1..n)
      PROVE h[s] = IF s = {} THEN <<>>
                   ELSE IF WholeIn(ms, index(s)) THEN Append(h[s \ {Max(s)}], ms[index(s)].calls)
                        ELSE h[s \ {Max(s)}]
  <2>1. h[s] = IF s = {} THEN <<>> ELSE step[<<Max(s), h[s \ {Max(s)}]>>]
    BY <1>5 DEF LeftFolds
  <2>2. CASE s # {}
    <3>1. Max(s) \in 1..n /\ index(s) = Max(s) /\ h[s \ {Max(s)}] \in X
      BY <1>6, <1>7, <2>2
    <3> QED BY <1>4, <2>1, <2>2, <3>1
  <2> QED BY <2>1, <2>2
<1>9. h = [s \in SUBSET D |->
             IF s = {} THEN <<>>
             ELSE IF WholeIn(ms, index(s)) THEN Append(h[s \ {Max(s)}], ms[index(s)].calls)
                  ELSE h[s \ {Max(s)}]]
  BY <1>2, <1>6, <1>8
<1>10. iter = [s \in SUBSET D |->
                IF s = {} THEN <<>>
                ELSE IF WholeIn(ms, index(s)) THEN Append(iter[s \ {Max(s)}], ms[index(s)].calls)
                     ELSE iter[s \ {Max(s)}]]
  BY <1>9
<1> HIDE DEF iter
<1>11. FoldsAs(n, X, <<>>, step, iter)
  <2>1. iter[{}] = <<>>
    BY <1>10
  <2>2. ASSUME NEW s \in SUBSET (1..n), s # {}, iter[s \ {Max(s)}] \in X
        PROVE iter[s] = step[<<Max(s), iter[s \ {Max(s)}]>>]
    <3>1. Max(s) \in 1..n /\ index(s) = Max(s)
      BY <1>7, <2>2
    <3>2. iter[s] = IF WholeIn(ms, Max(s)) THEN Append(iter[s \ {Max(s)}], ms[Max(s)].calls)
                    ELSE iter[s \ {Max(s)}]
      BY <1>2, <1>10, <2>2, <3>1
    <3> QED BY <1>4, <2>2, <3>1, <3>2
  <2> QED BY <2>1, <2>2 DEF FoldsAs
<1>12. PICK T \in Foldings(n, X, <<>>, step, iter[1..n]) : TRUE
  <2>1. n \in Nat /\ <<>> \in X /\ step \in [(1..n) \X X -> X] /\ FoldsAs(n, X, <<>>, step, iter)
    BY <1>2, <1>3, <1>4, <1>11
  <2>2. Foldings(n, X, <<>>, step, iter[1..n]) # {}
    BY <2>1, FoldIsStepwise
  <2> QED BY <2>2
<1>13. T \in [0..n -> X] /\ T[0] = <<>> /\ T[n] = iter[1..n]
  BY <1>12 DEF Foldings
<1>14. \A k \in 1..n : T[k] = IF WholeIn(ms, k) THEN Append(T[k - 1], ms[k].calls) ELSE T[k - 1]
  <2> SUFFICES ASSUME NEW k \in 1..n
               PROVE T[k] = IF WholeIn(ms, k) THEN Append(T[k - 1], ms[k].calls) ELSE T[k - 1]
    OBVIOUS
  <2>1. T[k] = step[<<k, T[k - 1]>>] /\ k - 1 \in 0..n
    BY <1>2, <1>12 DEF Foldings
  <2>2. T[k - 1] \in X
    BY <1>13, <2>1
  <2> QED BY <1>4, <2>1, <2>2
<1>15. T \in TurnLists(ms)
  BY <1>13, <1>14 DEF TurnLists, n, X
<1>16. TurnsOf(ms) = T[n]
  BY <1>1, <1>2, <1>13
<1> QED BY <1>15, <1>16 DEF n


\* Turns that are whole and stay so are collected in the same order.
LEMMA TurnsAgree ==
  ASSUME NEW ms, NEW ls, GoesOn(ms, ls), NEW n \in Nat, n <= Len(ms), Len(ms) \in Nat, Len(ls) \in Nat,
         \A k \in 1..n : WholeIn(ls, k) <=> WholeIn(ms, k),
         NEW T \in TurnLists(ms), NEW U \in TurnLists(ls)
  PROVE U[n] = T[n]
<1>1. T[0] = <<>> /\ \A k \in 1..n : T[k] = IF WholeIn(ms, k) THEN Append(T[k - 1], ms[k].calls) ELSE T[k - 1]
  BY DEF TurnLists
<1>2. U[0] = <<>> /\ \A k \in 1..n : U[k] = IF WholeIn(ms, k) THEN Append(U[k - 1], ms[k].calls) ELSE U[k - 1]
  <2> SUFFICES ASSUME NEW k \in 1..n
               PROVE U[k] = IF WholeIn(ms, k) THEN Append(U[k - 1], ms[k].calls) ELSE U[k - 1]
    BY DEF TurnLists
  <2>1. k \in 1..Len(ls) /\ ls[k] = ms[k]
    BY DEF GoesOn
  <2>2. U[k] = IF WholeIn(ls, k) THEN Append(U[k - 1], ls[k].calls) ELSE U[k - 1]
    BY <2>1 DEF TurnLists
  <2> QED BY <2>1, <2>2
<1> DEFINE S == {k \in Nat : k <= n => U[k] = T[k]}
<1>3. 0 \in S
  BY <1>1, <1>2
<1>4. ASSUME NEW k \in Nat, k \in S PROVE k + 1 \in S
  <2> SUFFICES ASSUME k + 1 <= n PROVE U[k + 1] = T[k + 1]
    OBVIOUS
  <2>1. k + 1 \in 1..n /\ (k + 1) - 1 = k /\ U[k] = T[k]
    BY <1>4
  <2> QED BY <1>1, <1>2, <2>1
<1> HIDE DEF S
<1>5. Nat \subseteq S
  BY <1>3, <1>4, Induction
<1> QED BY <1>5 DEF S

\* A message that is no turn of its own adds no turn.
LEMMA TurnsOfAppend ==
  ASSUME NEW M, \A m \in M : m.calls \in Seq(Calls), NEW ms \in Seq(M), NEW m \in M,
         Settled(ms), m.kind # "repair"
  PROVE TurnsOf(Append(ms, m)) = TurnsOf(ms)
<1> DEFINE ls == Append(ms, m)
           n == Len(ms)
<1>1. ls \in Seq(M) /\ Len(ls) = n + 1 /\ n \in Nat /\ ls[n + 1] = m /\ \A k \in 1..n : ls[k] = ms[k]
  OBVIOUS
<1>1a. \A k \in 1..n : ms[k].calls \in Seq(Calls)
  OBVIOUS
<1>2. GoesOn(ms, ls)
  BY <1>1 DEF GoesOn
<1> HIDE DEF ls
<1>3. PICK T \in TurnLists(ms) : TurnsOf(ms) = T[Len(ms)]
  BY TurnsAreCollected
<1>4. PICK U \in TurnLists(ls) : TurnsOf(ls) = U[Len(ls)]
  BY <1>1, TurnsAreCollected
<1>5. \A k \in 1..n : WholeIn(ls, k) <=> WholeIn(ms, k)
  <2> SUFFICES ASSUME NEW k \in 1..n PROVE WholeIn(ls, k) <=> WholeIn(ms, k)
    OBVIOUS
  <2>1. k + Len(ms[k].calls) <= n /\ Len(ms[k].calls) \in Nat
    BY <1>1a DEF Settled
  <2> QED BY <1>1, <2>1 DEF WholeIn
<1>6. U[n] = T[n]
  <2>1. n \in Nat /\ n <= Len(ms) /\ Len(ms) \in Nat /\ Len(ls) \in Nat
    BY <1>1
  <2> QED BY <1>2, <1>5, <2>1, TurnsAgree
<1>7. ~WholeIn(ls, n + 1)
  <2>1. m.calls # <<>> => Len(m.calls) > 0 /\ Len(m.calls) \in Nat
    <3>1. m.calls \in Seq(Calls)
      OBVIOUS
    <3> QED BY <3>1
  <2> HIDE DEF n
  <2>2. ASSUME m.calls # <<>> PROVE ~(n + 1 + Len(m.calls) <= Len(ls))
    <3>1. Len(ls) = n + 1 /\ n \in Nat
      BY <1>1
    <3>2. Len(m.calls) > 0 /\ Len(m.calls) \in Nat
      BY <2>1, <2>2
    <3>3. \A L \in Nat : L > 0 => ~(n + 1 + L <= n + 1)
      BY <3>1
    <3>4. ~(n + 1 + Len(m.calls) <= n + 1)
      BY <3>2, <3>3
    <3> QED BY <3>1, <3>4
  <2>3. ls[n + 1] = m
    BY <1>1
  <2> QED BY <2>2, <2>3 DEF WholeIn
<1>8. U[n + 1] = U[n]
  <2>1. n + 1 \in 1..Len(ls) /\ (n + 1) - 1 = n
    BY <1>1
  <2> QED BY <1>4, <1>7, <2>1 DEF TurnLists
<1> QED BY <1>1, <1>3, <1>4, <1>6, <1>8 DEF ls

\* The observations of a turn make it whole, and are no turns themselves.
LEMMA TurnsOfConcat ==
  ASSUME NEW M, \A m \in M : m.calls \in Seq(Calls), NEW ms \in Seq(M), NEW q \in Seq(M),
         Len(ms) > 0, \A i \in 1..(Len(ms) - 1) : i + Len(ms[i].calls) <= Len(ms) - 1,
         ms[Len(ms)].kind # "repair", ms[Len(ms)].calls # <<>>, Len(ms[Len(ms)].calls) = Len(q),
         \A j \in 1..Len(q) : q[j].kind = "tool" /\ q[j].calls = <<>>
  PROVE TurnsOf(ms \o q) = Append(TurnsOf(ms), ms[Len(ms)].calls)
<1> DEFINE ls == ms \o q
           n == Len(ms)
           d == Len(q)
<1>1. /\ ls \in Seq(M) /\ Len(ls) = n + d /\ n \in Nat /\ d \in Nat
      /\ \A k \in 1..n : ls[k] = ms[k]
      /\ \A k \in 1..d : ls[n + k] = q[k]
  OBVIOUS
<1>1a. \A k \in 1..n : ms[k].calls \in Seq(Calls) /\ Len(ms[k].calls) \in Nat
  <2> SUFFICES ASSUME NEW k \in 1..n PROVE ms[k].calls \in Seq(Calls) /\ Len(ms[k].calls) \in Nat
    OBVIOUS
  <2>1. ms[k].calls \in Seq(Calls)
    OBVIOUS
  <2> QED BY <2>1
<1>2. GoesOn(ms, ls)
  BY <1>1 DEF GoesOn
<1> HIDE DEF ls
<1>3. PICK T \in TurnLists(ms) : TurnsOf(ms) = T[Len(ms)]
  BY TurnsAreCollected
<1>4. PICK U \in TurnLists(ls) : TurnsOf(ls) = U[Len(ls)]
  BY <1>1, TurnsAreCollected
<1>5. \A k \in 1..(n - 1) : WholeIn(ls, k) <=> WholeIn(ms, k)
  <2> SUFFICES ASSUME NEW k \in 1..(n - 1) PROVE WholeIn(ls, k) <=> WholeIn(ms, k)
    OBVIOUS
  <2>1. k + Len(ms[k].calls) <= n - 1 /\ Len(ms[k].calls) \in Nat /\ k \in 1..n
    BY <1>1a
  <2>2. ls[k] = ms[k]
    BY <1>1, <2>1
  <2>3. k + Len(ms[k].calls) <= Len(ms) /\ k + Len(ms[k].calls) <= Len(ls)
    BY <1>1, <2>1
  <2> QED BY <2>2, <2>3 DEF WholeIn
<1>6. U[n - 1] = T[n - 1]
  <2>1. n - 1 \in Nat /\ n - 1 <= Len(ms) /\ Len(ms) \in Nat /\ Len(ls) \in Nat
    BY <1>1
  <2> QED BY <1>2, <1>5, <2>1, TurnsAgree
<1>7. n \in 1..n /\ n \in 1..Len(ls) /\ d = Len(ms[n].calls) /\ d > 0
  BY <1>1, <1>1a
<1>8. WholeIn(ls, n) /\ ~WholeIn(ms, n)
  <2>0. Len(ms) = n
    OBVIOUS
  <2> HIDE DEF n, d
  <2>1. ls[n] = ms[n] /\ n + d <= Len(ls) /\ ~(n + d <= n)
    BY <1>1, <1>7
  <2>2. Len(ls[n].calls) = d /\ Len(ms[n].calls) = d
    BY <1>7, <2>1
  <2> QED BY <2>0, <2>1, <2>2 DEF WholeIn, n
<1>9. T[n] = T[n - 1] /\ U[n] = Append(U[n - 1], ms[n].calls)
  <2>1. T[n] = T[n - 1]
    BY <1>3, <1>7, <1>8 DEF TurnLists
  <2>2. U[n] = Append(U[n - 1], ls[n].calls)
    BY <1>4, <1>7, <1>8 DEF TurnLists
  <2> QED BY <1>1, <1>7, <2>1, <2>2
<1> DEFINE S == {k \in Nat : k <= d => U[n + k] = U[n]}
<1>10. 0 \in S
  BY <1>1
<1>11. ASSUME NEW k \in Nat, k \in S PROVE k + 1 \in S
  <2> SUFFICES ASSUME k + 1 <= d PROVE U[n + (k + 1)] = U[n]
    OBVIOUS
  <2>1. n + (k + 1) \in 1..Len(ls) /\ (n + (k + 1)) - 1 = n + k
    BY <1>1
  <2>2. ls[n + (k + 1)].kind = "tool" /\ ls[n + (k + 1)].calls = <<>>
    BY <1>1
  <2>3. ~WholeIn(ls, n + (k + 1))
    BY <2>2 DEF WholeIn
  <2>4. U[n + (k + 1)] = U[n + k]
    BY <1>4, <2>1, <2>3 DEF TurnLists
  <2> QED BY <1>11, <2>4
<1> HIDE DEF S
<1>12. Nat \subseteq S
  BY <1>10, <1>11, Induction
<1>13. U[n + d] = U[n]
  BY <1>1, <1>12 DEF S
<1> QED BY <1>1, <1>3, <1>4, <1>6, <1>9, <1>13 DEF ls

\* A repair request is a turn without calls.
LEMMA TurnsOfRepair ==
  ASSUME NEW M, \A m \in M : m.calls \in Seq(Calls), NEW ms \in Seq(M), NEW m \in M,
         Settled(ms), m.kind = "repair", m.calls = <<>>
  PROVE TurnsOf(Append(ms, m)) = Append(TurnsOf(ms), <<>>)
<1> DEFINE ls == Append(ms, m)
           n == Len(ms)
<1>1. ls \in Seq(M) /\ Len(ls) = n + 1 /\ n \in Nat /\ ls[n + 1] = m /\ \A k \in 1..n : ls[k] = ms[k]
  OBVIOUS
<1>1a. \A k \in 1..n : ms[k].calls \in Seq(Calls)
  OBVIOUS
<1>2. GoesOn(ms, ls)
  BY <1>1 DEF GoesOn
<1> HIDE DEF ls
<1>3. PICK T \in TurnLists(ms) : TurnsOf(ms) = T[Len(ms)]
  BY TurnsAreCollected
<1>4. PICK U \in TurnLists(ls) : TurnsOf(ls) = U[Len(ls)]
  BY <1>1, TurnsAreCollected
<1>5. \A k \in 1..n : WholeIn(ls, k) <=> WholeIn(ms, k)
  <2> SUFFICES ASSUME NEW k \in 1..n PROVE WholeIn(ls, k) <=> WholeIn(ms, k)
    OBVIOUS
  <2>1. k + Len(ms[k].calls) <= n /\ Len(ms[k].calls) \in Nat
    BY <1>1a DEF Settled
  <2> QED BY <1>1, <2>1 DEF WholeIn
<1>6. U[n] = T[n]
  <2>1. n \in Nat /\ n <= Len(ms) /\ Len(ms) \in Nat /\ Len(ls) \in Nat
    BY <1>1
  <2> QED BY <1>2, <1>5, <2>1, TurnsAgree
<1>7. WholeIn(ls, n + 1)
  BY <1>1 DEF WholeIn
<1>8. U[n + 1] = Append(U[n], <<>>)
  <2>1. n + 1 \in 1..Len(ls) /\ (n + 1) - 1 = n
    BY <1>1
  <2> QED BY <1>1, <1>4, <1>7, <2>1 DEF TurnLists
<1> QED BY <1>1, <1>3, <1>4, <1>6, <1>8 DEF ls


-----------------------------------------------------------------------------
\* TotalCalls of Conversation, over this module's folds.
TotalOf(ts) == FoldLeft(LAMBDA sum, calls : sum + Len(calls), 0, ts)

\* It is the same operator.
LEMMA TotalCallsIs == ASSUME NEW ts PROVE C!TotalCalls(ts) = TotalOf(ts)
BY DEF C!TotalCalls, TotalOf, FoldLeft, C!FoldLeft, MapThenFoldSet, C!MapThenFoldSet, Max, C!Max

\* The partial sums of a sequence of turns.
TurnSums(ts) == {T \in [0..Len(ts) -> Nat] :
  T[0] = 0 /\ \A k \in 1..Len(ts) : T[k] = T[k - 1] + Len(ts[k])}

\* The calls of the turns are counted from left to right.
LEMMA TurnsAreSummed ==
  ASSUME NEW E, NEW ts \in Seq(Seq(E))
  PROVE \E T \in TurnSums(ts) : TotalOf(ts) = T[Len(ts)]
<1> DEFINE n == Len(ts)
           step == [p \in (1..n) \X Nat |-> p[2] + Len(ts[p[1]])]
           iter == CHOOSE f : f = [s \in SUBSET DOMAIN ts |->
                                     IF s = {} THEN 0 ELSE f[s \ {Max(s)}] + Len(ts[Max(s)])]
<1>1. TotalOf(ts) = iter[DOMAIN ts]
  BY DEF TotalOf, FoldLeft, MapThenFoldSet
<1>2. n \in Nat /\ DOMAIN ts = 1..n /\ \A i \in 1..n : Len(ts[i]) \in Nat
  <2>1. \A i \in 1..n : ts[i] \in Seq(E)
    OBVIOUS
  <2>2. \A x \in Seq(E) : Len(x) \in Nat
    OBVIOUS
  <2> QED BY <2>1, <2>2
<1> HIDE DEF n
<1>3. step \in [(1..n) \X Nat -> Nat] /\ \A i \in 1..n, x \in Nat : step[<<i, x>>] = x + Len(ts[i])
  BY <1>2
<1> HIDE DEF step
<1>4. PICK h \in LeftFolds(n, Nat, 0, step) : TRUE
  <2>1. n \in Nat /\ 0 \in Nat /\ step \in [(1..n) \X Nat -> Nat]
    BY <1>2, <1>3
  <2> QED BY ONLY <2>1, LeftFold
<1>5. h \in [SUBSET (1..n) -> Nat]
  BY <1>4 DEF LeftFolds
<1>6. ASSUME NEW s \in SUBSET (1..n)
      PROVE h[s] = IF s = {} THEN 0 ELSE h[s \ {Max(s)}] + Len(ts[Max(s)])
  <2>1. h[s] = IF s = {} THEN 0 ELSE step[<<Max(s), h[s \ {Max(s)}]>>]
    BY <1>4 DEF LeftFolds
  <2>2. CASE s # {}
    <3>1. Max(s) \in 1..n
      BY <1>2, <2>2, MaxIsMember
    <3>2. s \ {Max(s)} \in SUBSET (1..n)
      OBVIOUS
    <3>3. h[s \ {Max(s)}] \in Nat
      BY <1>5, <3>2
    <3> QED BY <1>3, <2>1, <2>2, <3>1, <3>3
  <2> QED BY <2>1, <2>2
<1>7. h = [s \in SUBSET DOMAIN ts |-> IF s = {} THEN 0 ELSE h[s \ {Max(s)}] + Len(ts[Max(s)])]
  BY <1>2, <1>5, <1>6
<1>8. iter = [s \in SUBSET DOMAIN ts |-> IF s = {} THEN 0 ELSE iter[s \ {Max(s)}] + Len(ts[Max(s)])]
  BY <1>7
<1> HIDE DEF iter
<1>9. FoldsAs(n, Nat, 0, step, iter)
  <2>1. iter[{}] = 0
    BY <1>2, <1>8
  <2>2. ASSUME NEW s \in SUBSET (1..n), s # {}, iter[s \ {Max(s)}] \in Nat
        PROVE iter[s] = step[<<Max(s), iter[s \ {Max(s)}]>>]
    <3>1. Max(s) \in 1..n
      BY <1>2, <2>2, MaxIsMember
    <3> QED BY <1>2, <1>3, <1>8, <2>2, <3>1
  <2> QED BY <2>1, <2>2 DEF FoldsAs
<1>10. PICK T \in Foldings(n, Nat, 0, step, iter[1..n]) : TRUE
  <2>1. n \in Nat /\ 0 \in Nat /\ step \in [(1..n) \X Nat -> Nat] /\ FoldsAs(n, Nat, 0, step, iter)
    BY <1>2, <1>3, <1>9
  <2>2. Foldings(n, Nat, 0, step, iter[1..n]) # {}
    BY <2>1, FoldIsStepwise
  <2> QED BY <2>2
<1>11. T \in [0..n -> Nat] /\ T[0] = 0 /\ T[n] = iter[1..n]
  BY <1>10 DEF Foldings
<1>12. \A k \in 1..n : T[k] = T[k - 1] + Len(ts[k])
  <2> SUFFICES ASSUME NEW k \in 1..n PROVE T[k] = T[k - 1] + Len(ts[k])
    OBVIOUS
  <2>1. T[k] = step[<<k, T[k - 1]>>] /\ k - 1 \in 0..n
    BY <1>2, <1>10 DEF Foldings
  <2>2. T[k - 1] \in Nat
    BY <1>11, <2>1
  <2> QED BY <1>3, <2>1, <2>2
<1>13. T \in TurnSums(ts)
  BY <1>11, <1>12 DEF TurnSums, n
<1>14. TotalOf(ts) = T[n]
  BY <1>1, <1>2, <1>11
<1> QED BY <1>13, <1>14 DEF n

\* TotalCalls counts the calls of one more turn.
LEMMA TotalOfAppend ==
  ASSUME NEW E, NEW ts \in Seq(Seq(E)), NEW calls \in Seq(E)
  PROVE C!TotalCalls(ts) \in Nat /\ C!TotalCalls(Append(ts, calls)) = C!TotalCalls(ts) + Len(calls)
<1> DEFINE ls == Append(ts, calls)
           n == Len(ts)
<1>1. ls \in Seq(Seq(E)) /\ Len(ls) = n + 1 /\ n \in Nat /\ ls[n + 1] = calls /\ \A k \in 1..n : ls[k] = ts[k]
  OBVIOUS
<1> HIDE DEF ls
<1>2. PICK T \in TurnSums(ts) : TotalOf(ts) = T[Len(ts)]
  BY TurnsAreSummed
<1>3. PICK U \in TurnSums(ls) : TotalOf(ls) = U[Len(ls)]
  BY <1>1, TurnsAreSummed
<1>4. U[n] = T[n]
  <2> DEFINE S == {k \in Nat : k <= n => U[k] = T[k]}
  <2>1. 0 \in S
    BY <1>2, <1>3 DEF TurnSums
  <2>2. ASSUME NEW k \in Nat, k \in S PROVE k + 1 \in S
    <3> SUFFICES ASSUME k + 1 <= n PROVE U[k + 1] = T[k + 1]
      OBVIOUS
    <3>1. k + 1 \in 1..n /\ k + 1 \in 1..Len(ls) /\ (k + 1) - 1 = k /\ U[k] = T[k]
      BY <1>1, <2>2
    <3>2. T[k + 1] = T[k] + Len(ts[k + 1])
      BY <1>2, <3>1 DEF TurnSums
    <3>3. U[k + 1] = U[k] + Len(ls[k + 1])
      BY <1>3, <3>1 DEF TurnSums
    <3> QED BY <1>1, <3>1, <3>2, <3>3
  <2> HIDE DEF S
  <2>3. Nat \subseteq S
    BY <2>1, <2>2, Induction
  <2> QED BY <1>1, <2>3 DEF S
<1>5. U[n + 1] = U[n] + Len(calls)
  <2>1. n + 1 \in 1..Len(ls) /\ (n + 1) - 1 = n
    BY <1>1
  <2> QED BY <1>1, <1>3, <2>1 DEF TurnSums
<1>6. T[n] \in Nat
  <2>1. n \in 0..n /\ T \in [0..n -> Nat]
    BY <1>1, <1>2 DEF TurnSums
  <2> QED BY <2>1
<1> QED BY <1>1, <1>2, <1>3, <1>4, <1>5, <1>6, TotalCallsIs DEF ls

-----------------------------------------------------------------------------
\* Messages have calls, observations are messages.
LEMMA MessageTypes ==
  /\ \A m \in Messages : m.calls \in Seq(Calls) /\ Len(m.calls) \in Nat
  /\ \A m \in Observations : m \in Messages /\ m.calls = <<>>
  /\ Seq(Observations) \subseteq Seq(Messages)
<1>1. \A m \in Messages : m.calls \in Seq(Calls)
  BY DEF Messages
<1>2. \A c \in Seq(Calls) : Len(c) \in Nat
  OBVIOUS
<1>3. \A m \in Observations : m \in Messages /\ m.calls = <<>>
  <2>1. <<>> \in Seq(Calls)
    OBVIOUS
  <2> QED BY <2>1 DEF Messages, Observations
<1>4. ASSUME NEW q \in Seq(Observations) PROVE q \in Seq(Messages)
  <2>1. q \in [1..Len(q) -> Observations] /\ Len(q) \in Nat
    OBVIOUS
  <2>2. q \in [1..Len(q) -> Messages]
    BY <1>3, <2>1
  <2> QED BY <2>1, <2>2
<1> QED BY <1>1, <1>2, <1>3, <1>4

\* What two sequences put together are.
LEMMA ConcatIs ==
  ASSUME NEW X, NEW a \in Seq(X), NEW b \in Seq(X)
  PROVE /\ a \o b \in Seq(X)
        /\ Len(a \o b) = Len(a) + Len(b)
        /\ \A j \in 1..Len(a) : (a \o b)[j] = a[j]
        /\ \A j \in 1..Len(b) : (a \o b)[Len(a) + j] = b[j]
OBVIOUS

\* Sequences are put together in any grouping.
LEMMA ConcatThree ==
  ASSUME NEW X, NEW a \in Seq(X), NEW b \in Seq(X), NEW c \in Seq(X)
  PROVE (a \o b) \o c = a \o (b \o c)
BY ConcatAssociative

\* The observations a list of calls leads to.
LEMMA ExpectedType ==
  ASSUME NEW calls \in Seq(Calls)
  PROVE /\ Expected(calls) \in Seq(Observations)
        /\ Len(Expected(calls)) = Len(calls)
        /\ \A j \in 1..Len(calls) : Expected(calls)[j] = Message("tool", calls[j].id, <<>>, TRUE)
<1>1. Len(calls) \in Nat /\ DOMAIN calls = 1..Len(calls)
  OBVIOUS
<1>2. ASSUME NEW j \in 1..Len(calls) PROVE Message("tool", calls[j].id, <<>>, TRUE) \in Observations
  <2>1. calls[j] \in Calls
    OBVIOUS
  <2> QED BY <2>1 DEF Calls, Message, Observations
<1>3. Expected(calls) \in [1..Len(calls) -> Observations]
  BY <1>1, <1>2 DEF Expected
<1>4. \A j \in 1..Len(calls) : Expected(calls)[j] = Message("tool", calls[j].id, <<>>, TRUE)
  BY <1>1 DEF Expected
<1>5. Expected(calls) \in Seq(Observations) /\ Len(Expected(calls)) = Len(calls)
  <2> HIDE DEF Expected
  <2> QED BY <1>1, <1>3
<1> QED BY <1>4, <1>5

\* They are put together as the calls are.
LEMMA ExpectedConcat ==
  ASSUME NEW a \in Seq(Calls), NEW b \in Seq(Calls)
  PROVE Expected(a \o b) = Expected(a) \o Expected(b)
<1>1. a \o b \in Seq(Calls) /\ Len(a \o b) = Len(a) + Len(b) /\ Len(a) \in Nat /\ Len(b) \in Nat
  OBVIOUS
<1>2. /\ Expected(a \o b) \in Seq(Observations) /\ Len(Expected(a \o b)) = Len(a) + Len(b)
      /\ \A j \in 1..(Len(a) + Len(b)) : Expected(a \o b)[j] = Message("tool", (a \o b)[j].id, <<>>, TRUE)
  BY <1>1, ExpectedType
<1>3. /\ Expected(a) \in Seq(Observations) /\ Len(Expected(a)) = Len(a)
      /\ \A j \in 1..Len(a) : Expected(a)[j] = Message("tool", a[j].id, <<>>, TRUE)
  BY ExpectedType
<1>4. /\ Expected(b) \in Seq(Observations) /\ Len(Expected(b)) = Len(b)
      /\ \A j \in 1..Len(b) : Expected(b)[j] = Message("tool", b[j].id, <<>>, TRUE)
  BY ExpectedType
<1>5. /\ Expected(a) \o Expected(b) \in Seq(Observations)
      /\ Len(Expected(a) \o Expected(b)) = Len(a) + Len(b)
  BY <1>3, <1>4
<1>6. ASSUME NEW j \in 1..(Len(a) + Len(b)) PROVE Expected(a \o b)[j] = (Expected(a) \o Expected(b))[j]
  <2>1. CASE j <= Len(a)
    <3>1. j \in 1..Len(a) /\ (a \o b)[j] = a[j] /\ (Expected(a) \o Expected(b))[j] = Expected(a)[j]
      BY <1>1, <1>3, <1>4, <2>1
    <3> QED BY <1>2, <1>3, <3>1
  <2>2. CASE j > Len(a)
    <3>1. j - Len(a) \in 1..Len(b)
      BY <1>1, <2>2
    <3>2. (a \o b)[j] = b[j - Len(a)]
      BY <1>1, <2>2
    <3>3. (Expected(a) \o Expected(b))[j] = Expected(b)[j - Len(a)]
      BY <1>1, <1>3, <1>4, <2>2
    <3>4. Expected(b)[j - Len(a)] = Message("tool", b[j - Len(a)].id, <<>>, TRUE)
      BY <1>4, <3>1
    <3>5. Expected(a \o b)[j] = Message("tool", (a \o b)[j].id, <<>>, TRUE)
      BY <1>2
    <3> QED BY <3>2, <3>3, <3>4, <3>5
  <2>3. j <= Len(a) \/ j > Len(a)
    BY <1>1
  <2> QED BY <2>1, <2>2, <2>3
<1> QED
  <2> SUFFICES ASSUME NEW x \in Seq(Observations), NEW y \in Seq(Observations), NEW n \in Nat,
                      Len(x) = n, Len(y) = n, \A j \in 1..n : x[j] = y[j]
               PROVE x = y
    BY <1>1, <1>2, <1>5, <1>6
  <2> QED OBVIOUS

-----------------------------------------------------------------------------
\* A model that calls tools begins a turn,
LEMMA CallingBegins ==
  ASSUME NEW ms \in Seq(Messages), NEW m \in Messages, Settled(ms),
         m.kind = "assistant", m.calls # <<>>, m.calls \in CallLists
  PROVE Calling(Append(ms, m), <<>>, <<>> \o m.calls)
<1> DEFINE ls == Append(ms, m)
           n == Len(ms)
<1>1. ls \in Seq(Messages) /\ Len(ls) = n + 1 /\ n \in Nat /\ ls[n + 1] = m /\ \A k \in 1..n : ls[k] = ms[k]
  OBVIOUS
<1>2. m.calls \in Seq(Calls)
  BY MessageTypes
<1>3. <<>> \o m.calls = m.calls /\ Len(<<>>) = 0 /\ Len(m.calls) \in Nat
  BY <1>2
<1> HIDE DEF ls
<1>4. \A i \in 1..n : i + Len(ls[i].calls) <= n
  BY <1>1 DEF Settled
<1>5. Len(ls) > 0 /\ ls[Len(ls)] = m /\ Len(ls) - 1 = n
  BY <1>1
<1>6. Len(m.calls) = 0 + Len(m.calls) /\ \A j \in 1..Len(m.calls) : m.calls[0 + j] = m.calls[j]
  BY <1>3
<1>7. Calling(ls, <<>>, m.calls)
  BY <1>3, <1>4, <1>5, <1>6 DEF Calling
<1> QED BY <1>3, <1>7 DEF ls

\* another answer does not,
LEMMA SettledAppend ==
  ASSUME NEW ms \in Seq(Messages), NEW m \in Messages, Settled(ms), m.calls = <<>>
  PROVE Settled(Append(ms, m))
<1> DEFINE ls == Append(ms, m)
           n == Len(ms)
<1>1. ls \in Seq(Messages) /\ Len(ls) = n + 1 /\ n \in Nat /\ ls[n + 1] = m /\ \A k \in 1..n : ls[k] = ms[k]
  OBVIOUS
<1>2. Len(m.calls) = 0 /\ \A k \in 1..n : Len(ms[k].calls) \in Nat
  BY MessageTypes
<1> HIDE DEF ls
<1>3. ASSUME NEW i \in 1..Len(ls) PROVE i + Len(ls[i].calls) <= Len(ls)
  <2>1. CASE i = n + 1
    <3>1. ls[i] = m /\ i + 0 <= Len(ls)
      BY <1>1, <2>1
    <3> QED BY <1>2, <3>1
  <2>2. CASE i # n + 1
    <3>1. i \in 1..n /\ i + Len(ms[i].calls) <= n /\ ls[i] = ms[i]
      BY <1>1, <2>2 DEF Settled
    <3> QED BY <1>1, <1>2, <3>1
  <2> QED BY <2>1, <2>2
<1> QED BY <1>3 DEF Settled, ls

\* and the observations of a turn end it.
LEMMA CallingEnds ==
  ASSUME NEW ms \in Seq(Messages), NEW p \in Seq(Observations), Calling(ms, p, <<>>)
  PROVE Settled(ms \o p)
<1> DEFINE ls == ms \o p
           n == Len(ms)
           d == Len(p)
<1>1. p \in Seq(Messages)
  BY MessageTypes
<1>2. /\ ls \in Seq(Messages) /\ Len(ls) = n + d /\ n \in Nat /\ d \in Nat
      /\ \A k \in 1..n : ls[k] = ms[k]
      /\ \A k \in 1..d : ls[n + k] = p[k]
  BY <1>1
<1>3. /\ n > 0 /\ Len(ms[n].calls) = d
      /\ \A i \in 1..(n - 1) : i + Len(ms[i].calls) <= n - 1
      /\ \A j \in 1..d : p[j].calls = <<>>
  <2>1. Len(p) + Len(<<>>) = d
    BY <1>2
  <2> QED BY <2>1 DEF Calling
<1>4. \A k \in 1..n : Len(ms[k].calls) \in Nat
  BY MessageTypes
<1> HIDE DEF ls, n, d
<1>5. ASSUME NEW i \in 1..(n + d) PROVE i + Len(ls[i].calls) <= n + d
  <2>1. CASE i < n
    <3>1. i \in 1..(n - 1) /\ i \in 1..n
      BY <1>2, <2>1
    <3>2. ls[i] = ms[i] /\ i + Len(ms[i].calls) <= n - 1 /\ Len(ms[i].calls) \in Nat
      BY <1>2, <1>3, <1>4, <3>1
    <3> QED BY <1>2, <3>2
  <2>2. CASE i = n
    <3>1. n \in 1..n
      BY <1>2, <1>3
    <3> QED BY <1>2, <1>3, <2>2, <3>1
  <2>3. CASE i > n
    <3>1. i - n \in 1..d /\ n + (i - n) = i
      BY <1>2, <2>3
    <3>2. ls[n + (i - n)] = p[i - n]
      BY <1>2, <3>1
    <3>3. ls[i] = p[i - n]
      BY <3>1, <3>2
    <3>4. Len(ls[i].calls) = 0
      BY <1>3, <3>1, <3>3
    <3> QED BY <1>2, <3>4
  <2> QED BY <1>2, <2>1, <2>2, <2>3
<1> QED BY <1>2, <1>5 DEF Settled, ls

\* What is observed is not owed any more.
LEMMA CallingGoesOn ==
  ASSUME NEW ms \in Seq(Messages), NEW p \in Seq(Observations),
         NEW b \in Seq(Calls), NEW r \in Seq(Calls), Calling(ms, p, b \o r)
  PROVE Calling(ms, p \o Expected(b), r)
<1> DEFINE q == Expected(b)
           d == Len(p)
           e == Len(b)
           calls == ms[Len(ms)].calls
           z == p \o q
<1>1. q \in Seq(Observations) /\ Len(q) = e /\ \A j \in 1..e : q[j] = Message("tool", b[j].id, <<>>, TRUE)
  BY ExpectedType
<1>2. \A j \in 1..e : q[j].kind = "tool" /\ q[j].calls = <<>>
  <2> SUFFICES ASSUME NEW j \in 1..e PROVE q[j].kind = "tool" /\ q[j].calls = <<>>
    OBVIOUS
  <2>1. q[j] = Message("tool", b[j].id, <<>>, TRUE)
    BY <1>1
  <2> QED BY <2>1 DEF Message
<1>3. /\ Len(b \o r) = e + Len(r) /\ e \in Nat /\ d \in Nat /\ Len(r) \in Nat
      /\ \A j \in 1..Len(r) : (b \o r)[e + j] = r[j]
  OBVIOUS
<1> HIDE DEF q
<1>4. /\ Len(z) = d + e
      /\ \A j \in 1..d : z[j] = p[j]
      /\ \A j \in 1..e : z[d + j] = q[j]
  <2>1. /\ Len(p \o q) = Len(p) + Len(q)
        /\ \A j \in 1..Len(p) : (p \o q)[j] = p[j]
        /\ \A j \in 1..Len(q) : (p \o q)[Len(p) + j] = q[j]
    <3>1. q \in Seq(Observations)
      BY <1>1
    <3> QED BY <3>1, ConcatIs
  <2> QED BY <1>1, <2>1
<1>5. /\ Len(ms) > 0 /\ ms[Len(ms)].kind = "assistant" /\ calls # <<>> /\ calls \in CallLists
      /\ Len(calls) = d + Len(b \o r)
      /\ \A i \in 1..(Len(ms) - 1) : i + Len(ms[i].calls) <= Len(ms) - 1
      /\ \A j \in 1..d : p[j].kind = "tool" /\ p[j].calls = <<>>
      /\ \A j \in 1..Len(b \o r) : calls[d + j] = (b \o r)[j]
  BY DEF Calling
<1> HIDE DEF d, e, calls, z
<1>6. Len(calls) = Len(z) + Len(r)
  BY <1>3, <1>4, <1>5
<1>7. ASSUME NEW j \in 1..Len(r) PROVE calls[Len(z) + j] = r[j]
  <2>1. e + j \in 1..Len(b \o r) /\ d + (e + j) = Len(z) + j
    BY <1>3, <1>4
  <2>2. calls[d + (e + j)] = (b \o r)[e + j]
    BY <1>5, <2>1
  <2> QED BY <1>3, <2>1, <2>2
<1>8. ASSUME NEW j \in 1..Len(z) PROVE z[j].kind = "tool" /\ z[j].calls = <<>>
  <2>1. CASE j <= d
    <3>1. j \in 1..d
      BY <1>3, <2>1
    <3> QED BY <1>4, <1>5, <3>1
  <2>2. CASE j > d
    <3>1. j - d \in 1..e /\ d + (j - d) = j
      BY <1>3, <1>4, <2>2
    <3>2. z[d + (j - d)] = q[j - d]
      BY <1>4, <3>1
    <3> QED BY <1>2, <3>1, <3>2
  <2> QED BY <1>3, <2>1, <2>2
<1>9. Calling(ms, z, r)
  BY <1>5, <1>6, <1>7, <1>8 DEF Calling, calls
<1> QED BY <1>9 DEF z, q

\* A turn is answered when its calls get their observations,
LEMMA AnsweredCalls ==
  ASSUME NEW ms \in Seq(Messages), Answered(ms), NEW m \in Messages, m.kind = "assistant"
  PROVE Answered(Append(ms, m) \o Expected(m.calls))
<1> DEFINE n == Len(ms)
           c == m.calls
           d == Len(c)
           q == Expected(c)
           ls == Append(ms, m) \o q
<1>1. c \in Seq(Calls) /\ d \in Nat /\ DOMAIN c = 1..d
  BY MessageTypes
<1> HIDE DEF c
<1>2. q \in Seq(Observations) /\ Len(q) = d /\ \A j \in 1..d : q[j] = Message("tool", c[j].id, <<>>, TRUE)
  BY <1>1, ExpectedType
<1>2a. q \in Seq(Messages)
  BY <1>2, MessageTypes
<1> HIDE DEF q
<1>3. \A j \in 1..d : q[j].kind = "tool" /\ q[j].calls = <<>> /\ q[j].id = c[j].id
  <2> SUFFICES ASSUME NEW j \in 1..d PROVE q[j].kind = "tool" /\ q[j].calls = <<>> /\ q[j].id = c[j].id
    OBVIOUS
  <2>1. q[j] = Message("tool", c[j].id, <<>>, TRUE)
    BY <1>2
  <2> QED BY <2>1 DEF Message
<1>4. Append(ms, m) \in Seq(Messages) /\ n \in Nat /\ Len(Append(ms, m)) = n + 1
      /\ Append(ms, m)[n + 1] = m /\ \A k \in 1..n : Append(ms, m)[k] = ms[k]
  OBVIOUS
<1>5. /\ Len(ls) = n + 1 + d /\ DOMAIN ls = 1..(n + 1 + d)
      /\ \A k \in 1..n : ls[k] = ms[k]
      /\ ls[n + 1] = m
      /\ \A k \in 1..d : ls[n + 1 + k] = q[k]
  BY <1>1, <1>2, <1>2a, <1>4
<1>6. /\ \A i \in 1..n : \A j \in DOMAIN ms[i].calls :
           i + j \in 1..n /\ ms[i + j].kind = "tool" /\ ms[i + j].id = ms[i].calls[j].id
      /\ \A k \in 1..n : ms[k].kind = "tool" => \E i \in 1..(k - 1) : k - i <= Len(ms[i].calls)
  BY DEF Answered
<1> HIDE DEF ls, n, d
<1>7. ASSUME NEW k \in 1..(n + 1 + d) PROVE k \in 1..n \/ k = n + 1 \/ (k - (n + 1) \in 1..d /\ n + 1 + (k - (n + 1)) = k)
  BY <1>1, <1>4
<1>8. ASSUME NEW i \in DOMAIN ls, NEW j \in DOMAIN ls[i].calls
      PROVE i + j \in DOMAIN ls /\ ls[i + j].kind = "tool" /\ ls[i + j].id = ls[i].calls[j].id
  <2>1. CASE i \in 1..n
    <3>1. ls[i] = ms[i] /\ j \in DOMAIN ms[i].calls
      BY <1>5, <2>1
    <3>2. i + j \in 1..n /\ ms[i + j].kind = "tool" /\ ms[i + j].id = ms[i].calls[j].id
      BY <1>6, <2>1, <3>1
    <3>3. ls[i + j] = ms[i + j] /\ i + j \in 1..(n + 1 + d)
      BY <1>1, <1>4, <1>5, <3>2
    <3> QED BY <1>5, <3>1, <3>2, <3>3
  <2>2. CASE i = n + 1
    <3>1. ls[i] = m /\ j \in 1..d
      BY <1>1, <1>5, <2>2 DEF c
    <3>2. ls[n + 1 + j] = q[j] /\ i + j = n + 1 + j /\ n + 1 + j \in 1..(n + 1 + d)
      BY <1>1, <1>4, <1>5, <2>2, <3>1
    <3>3. ls[i].calls[j] = c[j]
      BY <3>1 DEF c
    <3> QED BY <1>3, <1>5, <3>1, <3>2, <3>3
  <2>3. CASE i - (n + 1) \in 1..d /\ n + 1 + (i - (n + 1)) = i
    <3>1. ls[i] = q[i - (n + 1)]
      BY <1>5, <2>3
    <3>2. ls[i].calls = <<>>
      BY <1>3, <2>3, <3>1
    <3> QED BY <3>2
  <2> QED BY <1>5, <1>7, <2>1, <2>2, <2>3
<1>9. ASSUME NEW k \in DOMAIN ls, ls[k].kind = "tool"
      PROVE \E i \in 1..(k - 1) : k - i <= Len(ls[i].calls)
  <2>1. CASE k \in 1..n
    <3>1. PICK i \in 1..(k - 1) : k - i <= Len(ms[i].calls)
      BY <1>5, <1>6, <1>9, <2>1
    <3>2. ls[i] = ms[i]
      <4>1. i \in 1..n
        BY <1>4, <2>1
      <4> QED BY <1>5, <4>1
    <3> QED BY <3>1, <3>2
  <2>2. CASE k = n + 1
    BY <1>5, <1>9, <2>2
  <2>3. CASE k - (n + 1) \in 1..d /\ n + 1 + (k - (n + 1)) = k
    <3>1. n + 1 \in 1..(k - 1) /\ k - (n + 1) <= d
      BY <1>1, <1>4, <2>3
    <3>2. Len(ls[n + 1].calls) = d
      BY <1>5 DEF c, d
    <3> QED BY <3>1, <3>2
  <2> QED BY <1>5, <1>7, <2>1, <2>2, <2>3
<1>10. Answered(ls)
  BY <1>8, <1>9 DEF Answered
<1> QED BY <1>10 DEF ls, q, c

\* and a message without calls needs no answer.
LEMMA AnsweredAppend ==
  ASSUME NEW ms \in Seq(Messages), Answered(ms), NEW m \in Messages, m.kind # "tool", m.calls = <<>>
  PROVE Answered(Append(ms, m))
<1> DEFINE n == Len(ms)
           ls == Append(ms, m)
<1>1. ls \in Seq(Messages) /\ Len(ls) = n + 1 /\ DOMAIN ls = 1..(n + 1) /\ n \in Nat
      /\ ls[n + 1] = m /\ \A k \in 1..n : ls[k] = ms[k]
  OBVIOUS
<1>2. /\ \A i \in 1..n : \A j \in DOMAIN ms[i].calls :
           i + j \in 1..n /\ ms[i + j].kind = "tool" /\ ms[i + j].id = ms[i].calls[j].id
      /\ \A k \in 1..n : ms[k].kind = "tool" => \E i \in 1..(k - 1) : k - i <= Len(ms[i].calls)
  BY DEF Answered
<1> HIDE DEF ls, n
<1>3. ASSUME NEW i \in DOMAIN ls, NEW j \in DOMAIN ls[i].calls
      PROVE i + j \in DOMAIN ls /\ ls[i + j].kind = "tool" /\ ls[i + j].id = ls[i].calls[j].id
  <2>1. i # n + 1
    BY <1>1
  <2>2. i \in 1..n /\ ls[i] = ms[i]
    BY <1>1, <2>1
  <2>3. i + j \in 1..n /\ ms[i + j].kind = "tool" /\ ms[i + j].id = ms[i].calls[j].id
    BY <1>2, <2>2
  <2>4. ls[i + j] = ms[i + j] /\ i + j \in 1..(n + 1)
    BY <1>1, <2>3
  <2> QED BY <1>1, <2>2, <2>3, <2>4
<1>4. ASSUME NEW k \in DOMAIN ls, ls[k].kind = "tool"
      PROVE \E i \in 1..(k - 1) : k - i <= Len(ls[i].calls)
  <2>1. k \in 1..n /\ ls[k] = ms[k]
    BY <1>1, <1>4
  <2>2. PICK i \in 1..(k - 1) : k - i <= Len(ms[i].calls)
    BY <1>2, <1>4, <2>1
  <2>3. ls[i] = ms[i]
    <3>1. i \in 1..n
      BY <1>1, <2>1
    <3> QED BY <1>1, <3>1
  <2> QED BY <2>2, <2>3
<1>5. Answered(ls)
  BY <1>3, <1>4 DEF Answered
<1> QED BY <1>5 DEF ls

-----------------------------------------------------------------------------
\* A sequence of numbers up to top, each larger than the one before.
Ascending(b, top) ==
  /\ \A i, j \in DOMAIN b : i < j => b[i] < b[j]
  /\ \A i \in DOMAIN b : b[i] <= top

\* One more number that is larger keeps it so.
LEMMA AscendingGrows ==
  ASSUME NEW b \in Seq(Nat), NEW top \in Nat, Ascending(b, top), NEW u, u = <<>> \/ u = <<top + 1>>
  PROVE b \o u \in Seq(Nat) /\ Ascending(b \o u, top + 1)
<1>1. CASE u = <<>>
  <2>1. b \o u = b
    BY <1>1
  <2>2. DOMAIN b = 1..Len(b) /\ \A i \in DOMAIN b : b[i] \in Nat
    OBVIOUS
  <2>3. \A x \in Nat : x <= top => x <= top + 1
    OBVIOUS
  <2>4. Ascending(b, top + 1)
    BY <2>2, <2>3 DEF Ascending
  <2> QED BY <2>1, <2>4
<1>2. CASE u = <<top + 1>>
  <2>1. /\ b \o u \in Seq(Nat)
        /\ DOMAIN (b \o u) = 1..(Len(b) + 1) /\ DOMAIN b = 1..Len(b) /\ Len(b) \in Nat
        /\ \A i \in 1..Len(b) : (b \o u)[i] = b[i] /\ b[i] \in Nat
        /\ (b \o u)[Len(b) + 1] = top + 1
    BY <1>2
  <2> DEFINE c == b \o u
  <2>2. \A i \in 1..Len(b) : c[i] <= top
    BY <2>1 DEF Ascending
  <2>3. \A i, j \in 1..Len(b) : i < j => c[i] < c[j]
    BY <2>1 DEF Ascending
  <2>4. \A i \in 1..Len(b) : c[i] \in Nat /\ c[Len(b) + 1] = top + 1
    BY <2>1
  <2> HIDE DEF c
  <2>5. ASSUME NEW i \in 1..(Len(b) + 1), NEW j \in 1..(Len(b) + 1), i < j PROVE c[i] < c[j]
    <3>1. i \in 1..Len(b)
      BY <2>1, <2>5
    <3>2. CASE j \in 1..Len(b)
      BY <2>3, <2>5, <3>1, <3>2
    <3>3. CASE j = Len(b) + 1
      <4>1. c[j] = top + 1 /\ c[i] <= top /\ c[i] \in Nat
        BY <2>2, <2>4, <3>1, <3>3
      <4>2. \A x \in Nat : x <= top => x < top + 1
        OBVIOUS
      <4> QED BY <4>1, <4>2
    <3> QED BY <2>1, <3>2, <3>3
  <2>6. ASSUME NEW i \in 1..(Len(b) + 1) PROVE c[i] <= top + 1
    <3>1. CASE i \in 1..Len(b)
      <4>1. c[i] <= top /\ c[i] \in Nat
        BY <2>2, <2>4, <3>1
      <4>2. \A x \in Nat : x <= top => x <= top + 1
        OBVIOUS
      <4> QED BY <4>1, <4>2
    <3>2. CASE i = Len(b) + 1
      BY <2>1, <3>2 DEF c
    <3> QED BY <2>1, <3>1, <3>2
  <2>7. DOMAIN c = 1..(Len(b) + 1)
    BY <2>1 DEF c
  <2>8. Ascending(c, top + 1)
    BY <2>5, <2>6, <2>7 DEF Ascending
  <2> QED BY <2>1, <2>8 DEF c
<1> QED BY <1>1, <1>2

\* Sequences of numbers are put together in any grouping.
LEMMA ConcatNumbers ==
  ASSUME NEW a \in Seq(Nat), NEW b \in Seq(Nat), NEW c \in Seq(Nat)
  PROVE  (a \o b) \o c = a \o (b \o c)
BY ConcatThree

\* One more reference, or none, goes to the end.
LEMMA ReferencesGrow ==
  ASSUME NEW a \in Seq(Nat), NEW t \in Seq(Nat), NEW u \in Seq(Nat), NEW before \in Nat, NEW k \in Nat,
         a \o t \in Seq(Nat), Ascending(a \o t, before + k),
         u = <<>> \/ u = <<before + (k + 1)>>
  PROVE  a \o (t \o u) \in Seq(Nat) /\ Ascending(a \o (t \o u), before + (k + 1))
<1>1. a \o (t \o u) = (a \o t) \o u
  BY ConcatNumbers
<1>2. before + k \in Nat /\ (before + k) + 1 = before + (k + 1)
  OBVIOUS
<1> QED BY <1>1, <1>2, AscendingGrows

\* References that are named by their calls, put together in the order of the
\* calls, ascend.
LEMMA ReferencesAscend ==
  ASSUME NEW a \in Seq(Nat), NEW before \in Nat, Ascending(a, before), NEW s \in Seq(Seq(Nat)),
         \A i \in 1..Len(s) : s[i] = <<>> \/ s[i] = <<before + i>>
  PROVE a \o FlattenSeq(s) \in Seq(Nat) /\ Ascending(a \o FlattenSeq(s), before + Len(s))
<1> DEFINE n == Len(s)
<1>1. n \in Nat
  OBVIOUS
<1>2. PICK T \in Flattenings(n, Nat, s, FlattenSeq(s)) : TRUE
  BY FlattenIsStepwise
<1>3. /\ T \in [0..n -> Seq(Nat)] /\ T[0] = <<>> /\ T[n] = FlattenSeq(s)
      /\ \A k \in 1..n : T[k] = T[k - 1] \o s[k]
  BY <1>2 DEF Flattenings
<1> DEFINE S == {k \in Nat : k <= n => a \o T[k] \in Seq(Nat) /\ Ascending(a \o T[k], before + k)}
<1>4. 0 \in S
  <2>1. a \o <<>> = a /\ before + 0 = before
    OBVIOUS
  <2> QED BY <1>3, <2>1
<1>5. ASSUME NEW k \in Nat, k \in S PROVE k + 1 \in S
  <2> SUFFICES ASSUME k + 1 <= n
               PROVE a \o T[k + 1] \in Seq(Nat) /\ Ascending(a \o T[k + 1], before + (k + 1))
    OBVIOUS
  <2>0. k + 1 \in 1..n /\ (k + 1) - 1 = k /\ k \in 0..n /\ k <= n
    BY <1>1
  <2>1. T[k + 1] = T[k] \o s[k + 1] /\ T[k] \in Seq(Nat)
    BY <1>3, <2>0
  <2>2. a \o T[k] \in Seq(Nat) /\ Ascending(a \o T[k], before + k)
    BY <1>5, <2>0
  <2>3. s[k + 1] \in Seq(Nat) /\ (s[k + 1] = <<>> \/ s[k + 1] = <<before + (k + 1)>>)
    BY <2>0
  <2> SUFFICES ASSUME NEW t \in Seq(Nat), t = T[k], NEW u \in Seq(Nat), u = s[k + 1],
                      a \o t \in Seq(Nat), Ascending(a \o t, before + k),
                      u = <<>> \/ u = <<before + (k + 1)>>
               PROVE a \o (t \o u) \in Seq(Nat) /\ Ascending(a \o (t \o u), before + (k + 1))
    BY <2>1, <2>2, <2>3
  <2> HIDE DEF S
  <2> QED BY ReferencesGrow
<1> HIDE DEF S
<1>6. Nat \subseteq S
  BY <1>4, <1>5, Induction
<1>7. a \o T[n] \in Seq(Nat) /\ Ascending(a \o T[n], before + n)
  BY <1>1, <1>6 DEF S
<1> QED BY <1>3, <1>7

\* A batch is the beginning of the calls, and an invokable call is one alone.
LEMMA BatchEnds ==
  ASSUME NEW calls \in Seq(Calls), calls # <<>>
  PROVE /\ ToolBatchEnd(calls) \in 1..Len(calls)
        /\ \A i \in 1..ToolBatchEnd(calls) : IsInvokable(calls[i]) => ToolBatchEnd(calls) = 1
<1>1. Len(calls) \in Nat /\ Len(calls) > 0 /\ DOMAIN calls = 1..Len(calls)
  OBVIOUS
<1>2. CASE IsInvokable(calls[1])
  <2>1. ToolBatchEnd(calls) = 1
    BY <1>2 DEF ToolBatchEnd
  <2> QED BY <1>1, <2>1
<1>3. CASE ~IsInvokable(calls[1])
  <2> DEFINE P(n) == /\ \A i \in 1..n : ~IsInvokable(calls[i])
                     /\ n = Len(calls) \/ IsInvokable(calls[n + 1])
             T == {n \in 1..Len(calls) : n = Len(calls) \/ IsInvokable(calls[n + 1])}
  <2>1. PICK m \in T : \A k \in T : m <= k
    <3>1. T \subseteq Nat /\ Len(calls) \in T
      BY <1>1
    <3> HIDE DEF T
    <3> QED BY <3>1, Least
  <2>2. m \in 1..Len(calls) /\ (m = Len(calls) \/ IsInvokable(calls[m + 1]))
    BY <2>1
  <2>3. ASSUME NEW i \in 1..m PROVE ~IsInvokable(calls[i])
    <3>1. CASE i = 1
      BY <1>3, <3>1
    <3>2. CASE i # 1
      <4>0. i \in Nat /\ m \in Nat /\ i <= m /\ m <= Len(calls) /\ i > 1
        <5>1. m \in 1..Len(calls) /\ Len(calls) \in Nat
          BY <1>1, <2>2
        <5> QED BY <3>2, <5>1
      <4>1. i - 1 \in 1..Len(calls) /\ ~(m <= i - 1) /\ (i - 1) + 1 = i /\ i - 1 # Len(calls)
        <5>1. \A k, L \in Nat : i <= k /\ k <= L /\ i > 1 =>
                 i - 1 \in 1..L /\ ~(k <= i - 1) /\ (i - 1) + 1 = i /\ i - 1 # L
          BY <4>0
        <5> QED BY <1>1, <4>0, <5>1
      <4>2. i - 1 \notin T
        <5> HIDE DEF T
        <5> QED BY <2>1, <4>1
      <4> QED BY <4>1, <4>2
    <3> QED BY <3>1, <3>2
  <2>4. m \in DOMAIN calls /\ P(m)
    BY <1>1, <2>2, <2>3
  <2>5. ToolBatchEnd(calls) = CHOOSE n \in DOMAIN calls : P(n)
    BY <1>3 DEF ToolBatchEnd
  <2>6. ToolBatchEnd(calls) \in DOMAIN calls /\ P(ToolBatchEnd(calls))
    <3> HIDE DEF P
    <3> QED BY <2>4, <2>5
  <2> QED BY <1>1, <2>6
<1> QED BY <1>2, <1>3

-----------------------------------------------------------------------------
\* The parts of the state, and how they make one.
LEMMA StateParts ==
  /\ \A s \in State :
       /\ s.turn \in Nat /\ s.toolCalls \in Nat /\ s.messages \in Seq(Messages)
       /\ s.pending \in Seq(Observations) /\ s.remaining \in Seq(Calls) /\ s.artifacts \in Seq(Nat)
  /\ \A t, c \in Nat, ms \in Seq(Messages), p \in Seq(Observations), r \in Seq(Calls), a \in Seq(Nat) :
       [turn |-> t, toolCalls |-> c, messages |-> ms, pending |-> p, remaining |-> r, artifacts |-> a] \in State
<1>1. State = [turn : Nat, toolCalls : Nat, messages : Seq(Messages), pending : Seq(Observations),
               remaining : Seq(Calls), artifacts : Seq(Nat)]
  BY Zenon DEF State, Messages, Observations
<1> QED BY <1>1

\* What the steps do that change the state of the run:
LEMMA PrepareEffect ==
  ASSUME Typed, Prepare
  PROVE /\ at = "prepare" /\ at' = "model" /\ state.turn < MaxTurns
        /\ state' = [turn |-> state.turn + 1, toolCalls |-> state.toolCalls,
                     messages |-> state.messages \o state.pending, pending |-> <<>>,
                     remaining |-> state.remaining, artifacts |-> state.artifacts]
        /\ UNCHANGED <<route, batch, branch, crashes, interrupts>>
BY DEF Typed, State, Prepare, Commit

\* a response that calls tools,
LEMMA CallsEffect ==
  ASSUME Typed, NEW response \in Responses, ModelCallsTools(response)
  PROVE /\ at = "model" /\ at' = "continue" /\ route'
        /\ ToolTurn(response)
        /\ state' = [turn |-> state.turn, toolCalls |-> state.toolCalls + Len(response.calls),
                     messages |-> Heard(response), pending |-> state.pending,
                     remaining |-> response.calls, artifacts |-> state.artifacts]
        /\ UNCHANGED <<batch, branch, crashes, interrupts>>
BY DEF Typed, State, ModelCallsTools, Commit

\* one that asks for a repair,
LEMMA RepairEffect ==
  ASSUME Typed, NEW response \in Responses, ModelAsksRepair(response)
  PROVE /\ at = "model" /\ at' = "continue" /\ route' = FALSE
        /\ response.calls = <<>>
        /\ state' = [turn |-> state.turn, toolCalls |-> state.toolCalls, messages |-> Heard(response),
                     pending |-> Append(state.pending, Message("repair", state.turn, <<>>, TRUE)),
                     remaining |-> state.remaining, artifacts |-> state.artifacts]
        /\ UNCHANGED <<batch, branch, crashes, interrupts>>
BY DEF Typed, State, ModelAsksRepair, OtherTurn, Commit

\* a final one,
LEMMA AnswerEffect ==
  ASSUME Typed, NEW response \in Responses, ModelAnswers(response)
  PROVE /\ at = "model" /\ at' = "finish" /\ route' = response.parts
        /\ response.calls = <<>>
        /\ state' = [turn |-> state.turn, toolCalls |-> state.toolCalls, messages |-> Heard(response),
                     pending |-> state.pending, remaining |-> state.remaining, artifacts |-> state.artifacts]
        /\ UNCHANGED <<batch, branch, crashes, interrupts>>
BY DEF Typed, State, ModelAnswers, OtherTurn, Commit

\* the fan-out of a batch,
LEMMA DispatchEffect ==
  ASSUME Typed, DispatchTools, state.remaining # <<>>
  PROVE \E end \in 1..Len(state.remaining) :
          /\ end = ToolBatchEnd(state.remaining)
          /\ at = "dispatch" /\ at' = "tool"
          /\ state' = [turn |-> state.turn, toolCalls |-> state.toolCalls, messages |-> state.messages,
                       pending |-> state.pending,
                       remaining |-> SubSeq(state.remaining, end + 1, Len(state.remaining)),
                       artifacts |-> state.artifacts]
          /\ batch' = SubSeq(state.remaining, 1, end)
          /\ branch' = [i \in 1..end |-> Ready]
          /\ UNCHANGED <<route, crashes, interrupts>>
<1>1. state.remaining \in Seq(Calls)
  BY StateParts DEF Typed
<1>2. ToolBatchEnd(state.remaining) \in 1..Len(state.remaining)
  BY <1>1, BatchEnds
<1> QED BY <1>2 DEF Typed, State, DispatchTools, Commit

\* and its observation.
LEMMA ObserveEffect ==
  ASSUME Typed, ObserveTools
  PROVE /\ at = "observe" /\ at' = "continue" /\ route' = (state.remaining # <<>>)
        /\ state' = [turn |-> state.turn, toolCalls |-> state.toolCalls, messages |-> state.messages,
                     pending |-> state.pending \o [i \in DOMAIN batch |-> Observation(i)],
                     remaining |-> state.remaining,
                     artifacts |-> state.artifacts \o FlattenSeq([i \in DOMAIN batch |-> Refs(i)])]
        /\ batch' = <<>> /\ branch' = <<>>
        /\ UNCHANGED <<crashes, interrupts>>
BY DEF Typed, State, ObserveTools, Commit

\* Every other step leaves the state and the batch as they are.
Move ==
  /\ state' = state /\ batch' = batch /\ route' = route
  /\ \/ at' = at
     \/ at \in Nodes /\ at' = "failed"
     \/ at = "continue" /\ at' = IF route THEN "dispatch" ELSE "prepare"
     \/ at = "finish" /\ route /\ at' = "done"
     \/ at = "tool" /\ at' = "suspended"
     \/ at = "tool" /\ at' = "observe" /\ \A i \in DOMAIN batch : branch[i].status = "settled"
     \/ at = "suspended" /\ at' = "tool"

\* The steps that do something to the state.
Change ==
  \/ Prepare
  \/ \E response \in Responses :
       ModelCallsTools(response) \/ ModelAsksRepair(response) \/ ModelAnswers(response)
  \/ DispatchTools /\ state.remaining # <<>>
  \/ ObserveTools

\* A step is a change or a move.
LEMMA StepKinds ==
  ASSUME Typed, [Next]_vars
  PROVE Change \/ Move
<1>1. DOMAIN branch = DOMAIN batch
  BY DEF Typed
<1>2. CASE UNCHANGED vars
  BY <1>2 DEF vars, Move
<1>3. CASE Resume
  BY <1>3 DEF Resume, Move
<1>4. CASE \E kept \in SUBSET With("settled") : Crash(kept)
  BY <1>4 DEF Crash, Move
<1>5. ASSUME NEW i \in DOMAIN batch, ToolStep(i) PROVE Move
  <2>1. CASE StartTool(i)
    BY <2>1 DEF StartTool, Move
  <2>2. CASE ToolInterrupts(i)
    BY <2>2 DEF ToolInterrupts, Move
  <2>3. ASSUME NEW outcome \in ToolReturns(batch[i]), ToolSettles(i, outcome) PROVE Move
    BY <2>3 DEF ToolSettles, Move
  <2> QED BY <1>5, <2>1, <2>2, <2>3 DEF ToolStep
<1>6. CASE NodeStep
  <2>1. CASE Fail /\ at \in Nodes
    BY <2>1 DEF Fail, Move
  <2>2. CASE DispatchTools /\ state.remaining = <<>>
    BY <2>1, <2>2 DEF DispatchTools, Nodes
  <2>3. CASE PrepareExhausted \/ ModelFails \/ FinishEmpty \/ ToolsFailed
    BY <2>1, <2>3 DEF PrepareExhausted, ModelFails, FinishEmpty, ToolsFailed, Nodes
  <2>4. CASE \E response \in Responses : ModelRejected(response)
    BY <2>1, <2>4 DEF ModelRejected, Nodes
  <2>5. CASE Continue
    BY <2>5 DEF Continue, Commit, Move
  <2>6. CASE Finish
    BY <2>6 DEF Finish, Commit, Move
  <2>7. CASE ToolsSettled
    BY <1>1, <2>7 DEF ToolsSettled, Commit, Move
  <2>8. CASE ToolsSuspend
    BY <2>8 DEF ToolsSuspend, Move
  <2> QED BY <1>6, <2>2, <2>3, <2>4, <2>5, <2>6, <2>7, <2>8 DEF NodeStep, ModelTurn, Change
<1> QED BY <1>2, <1>3, <1>4, <1>5, <1>6 DEF Next

-----------------------------------------------------------------------------
\* A response has calls, and what is heard of it is one message or none.
LEMMA HeardIs ==
  ASSUME Typed, NEW response \in Responses
  PROVE /\ response.calls \in Seq(Calls) /\ response.calls \in CallLists /\ response.parts \in BOOLEAN
        /\ \/ Heard(response) = state.messages /\ ~response.parts /\ response.role # "assistant"
           \/ \E m \in Messages : /\ m.kind = "assistant" /\ m.calls = response.calls
                                  /\ m.parts = response.parts
                                  /\ Heard(response) = Append(state.messages, m)
        /\ Heard(response) \in Seq(Messages)
<1>1. response \in [intent : Intents, role : {"assistant", ""}, parts : BOOLEAN, calls : Seq(Calls)]
  BY ReactAssumption
<1> DEFINE m == Message("assistant", NoId, response.calls, response.parts)
<1>2. m \in Messages /\ m.kind = "assistant" /\ m.calls = response.calls /\ m.parts = response.parts
  BY <1>1 DEF Messages, Message, NoId
<1>3. Heard(response) = IF response.parts \/ response.role # "" THEN Append(state.messages, m) ELSE state.messages
  BY DEF Heard
<1>4. state.messages \in Seq(Messages)
  BY StateParts DEF Typed
<1> HIDE DEF m
<1>5. Append(state.messages, m) \in Seq(Messages)
  BY <1>2, <1>4
<1>6. response.calls \in CallLists
  BY DEF CallLists
<1>7. response.parts \in BOOLEAN /\ response.calls \in Seq(Calls)
  BY <1>1
<1>8. Heard(response) \in Seq(Messages)
  BY <1>3, <1>4, <1>5
<1>9. \/ Heard(response) = state.messages /\ ~response.parts /\ response.role # "assistant"
      \/ \E x \in Messages : /\ x.kind = "assistant" /\ x.calls = response.calls
                             /\ x.parts = response.parts
                             /\ Heard(response) = Append(state.messages, x)
  BY <1>2, <1>3
<1> QED BY <1>6, <1>7, <1>8, <1>9

\* What is observed is what the calls were expected to lead to.
LEMMA ObservedBatch ==
  ASSUME Typed, Branches, at = "observe"
  PROVE [i \in DOMAIN batch |-> Observation(i)] = Expected(batch)
<1>1. ASSUME NEW i \in DOMAIN batch PROVE Observation(i) = Message("tool", batch[i].id, <<>>, TRUE)
  <2>1. branch[i].outcome.id = batch[i].id
    BY DEF Branches, OutcomeAccepted
  <2> QED BY <2>1 DEF Observation
<1> QED BY <1>1 DEF Expected

\* The references of a batch follow those of the calls before it.
LEMMA ReportedBatch ==
  ASSUME Typed, Counted, Reported
  PROVE LET a == state.artifacts \o FlattenSeq([i \in DOMAIN batch |-> Refs(i)])
        IN  a \in Seq(Nat) /\ Ascending(a, state.toolCalls - Len(state.remaining))
<1> DEFINE before == state.toolCalls - Len(state.remaining) - Len(batch)
           s == [i \in DOMAIN batch |-> Refs(i)]
<1>1. /\ batch \in Seq(Calls) /\ state.remaining \in Seq(Calls) /\ state.toolCalls \in Nat
      /\ state.artifacts \in Seq(Nat)
  BY StateParts DEF Typed
<1>2. /\ Len(Owed) = Len(batch) + Len(state.remaining) /\ Len(batch) \in Nat /\ Len(state.remaining) \in Nat
      /\ DOMAIN batch = 1..Len(batch)
  BY <1>1 DEF Owed
<1>3. before \in Nat /\ before = state.toolCalls - Len(Owed) /\ before + Len(batch) = state.toolCalls - Len(state.remaining)
  BY <1>1, <1>2 DEF Counted
<1>4. Ascending(state.artifacts, before)
  BY <1>3 DEF Reported, ArtifactsOnce, Ascending
<1>5. \A i \in DOMAIN batch : Refs(i) = <<>> \/ Refs(i) = <<before + i>>
  BY DEF Refs
<1> HIDE DEF before
<1>6. \A i \in DOMAIN batch : Refs(i) \in Seq(Nat)
  <2> SUFFICES ASSUME NEW i \in DOMAIN batch PROVE Refs(i) \in Seq(Nat)
    OBVIOUS
  <2>1. before + i \in Nat
    BY <1>2, <1>3
  <2>2. <<before + i>> \in Seq(Nat) /\ <<>> \in Seq(Nat)
    BY <2>1
  <2> QED BY <1>5, <2>2
<1>7. s \in Seq(Seq(Nat)) /\ Len(s) = Len(batch) /\ \A i \in 1..Len(s) : s[i] = Refs(i)
  <2>1. s \in [1..Len(batch) -> Seq(Nat)]
    BY <1>2, <1>6
  <2>2. \A i \in 1..Len(batch) : s[i] = Refs(i)
    BY <1>2
  <2> HIDE DEF s
  <2> QED BY <1>2, <2>1, <2>2
<1> HIDE DEF s
<1>8. \A i \in 1..Len(s) : s[i] = <<>> \/ s[i] = <<before + i>>
  BY <1>2, <1>5, <1>7
<1>9. state.artifacts \o FlattenSeq(s) \in Seq(Nat) /\ Ascending(state.artifacts \o FlattenSeq(s), before + Len(s))
  BY <1>1, <1>3, <1>4, <1>7, <1>8, ReferencesAscend
<1>10. before + Len(s) = state.toolCalls - Len(state.remaining)
  BY <1>3, <1>7
<1> QED BY <1>9, <1>10 DEF s

\* The state keeps its type.
LEMMA StateKeepsType ==
  ASSUME IInv, [Next]_vars
  PROVE state' \in State
<1>a. Typed /\ Branches /\ Counted /\ Reported /\ state \in State
  BY DEF IInv, Typed
<1>1. /\ state.turn \in Nat /\ state.toolCalls \in Nat /\ state.messages \in Seq(Messages)
      /\ state.pending \in Seq(Observations) /\ state.remaining \in Seq(Calls) /\ state.artifacts \in Seq(Nat)
  BY <1>a, StateParts
<1>2. CASE Prepare
  <2>1. state.pending \in Seq(Messages)
    BY <1>1, MessageTypes
  <2>2. state.turn + 1 \in Nat /\ state.messages \o state.pending \in Seq(Messages) /\ <<>> \in Seq(Observations)
    BY <1>1, <2>1
  <2>3. state' = [turn |-> state.turn + 1, toolCalls |-> state.toolCalls,
                  messages |-> state.messages \o state.pending, pending |-> <<>>,
                  remaining |-> state.remaining, artifacts |-> state.artifacts]
    BY <1>a, <1>2, PrepareEffect
  <2> QED BY <1>1, <2>2, <2>3, StateParts
<1>3. ASSUME NEW response \in Responses,
             ModelCallsTools(response) \/ ModelAsksRepair(response) \/ ModelAnswers(response)
      PROVE state' \in State
  <2>1. response.calls \in Seq(Calls) /\ Heard(response) \in Seq(Messages)
    BY <1>a, HeardIs
  <2>2. CASE ModelCallsTools(response)
    <3>1. state.toolCalls + Len(response.calls) \in Nat
      <4>1. Len(response.calls) \in Nat
        BY <2>1
      <4> QED BY <1>1, <4>1
    <3>2. state' = [turn |-> state.turn, toolCalls |-> state.toolCalls + Len(response.calls),
                    messages |-> Heard(response), pending |-> state.pending,
                    remaining |-> response.calls, artifacts |-> state.artifacts]
      BY <1>a, <2>2, CallsEffect
    <3> QED BY <1>1, <2>1, <3>1, <3>2, StateParts
  <2>3. CASE ModelAsksRepair(response)
    <3>1. Message("repair", state.turn, <<>>, TRUE) \in Observations
      BY <1>1 DEF Message, Observations
    <3>2. Append(state.pending, Message("repair", state.turn, <<>>, TRUE)) \in Seq(Observations)
      <4>1. \A m \in Observations : Append(state.pending, m) \in Seq(Observations)
        BY <1>1
      <4> QED BY <3>1, <4>1
    <3>3. state' = [turn |-> state.turn, toolCalls |-> state.toolCalls, messages |-> Heard(response),
                    pending |-> Append(state.pending, Message("repair", state.turn, <<>>, TRUE)),
                    remaining |-> state.remaining, artifacts |-> state.artifacts]
      BY <1>a, <2>3, RepairEffect
    <3> QED BY <1>1, <2>1, <3>2, <3>3, StateParts
  <2>4. CASE ModelAnswers(response)
    <3>1. state' = [turn |-> state.turn, toolCalls |-> state.toolCalls, messages |-> Heard(response),
                    pending |-> state.pending, remaining |-> state.remaining, artifacts |-> state.artifacts]
      BY <1>a, <2>4, AnswerEffect
    <3> QED BY <1>1, <2>1, <3>1, StateParts
  <2> QED BY <1>3, <2>2, <2>3, <2>4
<1>4. CASE DispatchTools /\ state.remaining # <<>>
  <2>1. PICK end \in 1..Len(state.remaining) :
          state' = [turn |-> state.turn, toolCalls |-> state.toolCalls, messages |-> state.messages,
                    pending |-> state.pending,
                    remaining |-> SubSeq(state.remaining, end + 1, Len(state.remaining)),
                    artifacts |-> state.artifacts]
    BY <1>a, <1>4, DispatchEffect
  <2>2. SubSeq(state.remaining, end + 1, Len(state.remaining)) \in Seq(Calls)
    BY <1>1
  <2> QED BY <1>1, <2>1, <2>2, StateParts
<1>5. CASE ObserveTools
  <2>1. at = "observe"
    BY <1>5 DEF ObserveTools
  <2>2. [i \in DOMAIN batch |-> Observation(i)] = Expected(batch) /\ batch \in Seq(Calls)
    BY <1>a, <2>1, ObservedBatch DEF Typed
  <2>3. Expected(batch) \in Seq(Observations)
    BY <2>2, ExpectedType
  <2>4. state.pending \o Expected(batch) \in Seq(Observations)
    BY <1>1, <2>3
  <2>5. state.artifacts \o FlattenSeq([i \in DOMAIN batch |-> Refs(i)]) \in Seq(Nat)
    BY <1>a, ReportedBatch
  <2>6. state' = [turn |-> state.turn, toolCalls |-> state.toolCalls, messages |-> state.messages,
                  pending |-> state.pending \o Expected(batch),
                  remaining |-> state.remaining,
                  artifacts |-> state.artifacts \o FlattenSeq([i \in DOMAIN batch |-> Refs(i)])]
    BY <1>a, <1>5, <2>2, ObserveEffect
  <2> QED BY <1>1, <2>4, <2>5, <2>6, StateParts
<1>6. CASE Move
  BY <1>a, <1>6 DEF Move
<1> QED BY <1>a, <1>2, <1>3, <1>4, <1>5, <1>6, StepKinds DEF Change

-----------------------------------------------------------------------------
\* A branch before it starts.
LEMMA ReadyIs ==
  /\ Ready \in [status : Statuses, outcome : Outcomes] /\ Unset \in Outcomes
  /\ Ready.status = "ready"
BY DEF Ready, Unset, NoId, Statuses, Outcomes, OutcomeKinds

\* The branches of a batch are finitely many, and no more run than allowed as
\* long as none starts.
LEMMA NoneStarts ==
  ASSUME Typed, Branches, Typed',
         \A i \in DOMAIN batch' : branch'[i].status = "running" =>
            i \in DOMAIN batch /\ branch[i].status = "running"
  PROVE Cardinality(With("running"))' <= MaxParallelTools
<1>1. IsFiniteSet(With("running"))
  <2>1. DOMAIN branch = 1..Len(batch) /\ Len(batch) \in Nat
    BY DEF Typed
  <2>2. IsFiniteSet(1..Len(batch))
    <3>1. \A n \in Nat : IsFiniteSet(1..n)
      BY FS_Interval
    <3> QED BY <2>1, <3>1
  <2>3. With("running") \subseteq 1..Len(batch)
    BY <2>1 DEF With
  <2> QED BY <2>2, <2>3, FS_Subset
<1>2. With("running")' \subseteq With("running")
  BY DEF Typed, With
<1>3. Cardinality(With("running")') <= Cardinality(With("running"))
  BY <1>1, <1>2, FS_Subset
<1>4. Cardinality(With("running")') \in Nat /\ Cardinality(With("running")) \in Nat
  BY <1>1, <1>2, FS_Subset, FS_CardinalityType
<1>5. Cardinality(With("running")) <= MaxParallelTools /\ MaxParallelTools \in Nat
  BY Limits DEF Branches
<1> QED BY <1>3, <1>4, <1>5

\* What a tool returns has the type of an outcome.
LEMMA ReturnsType ==
  ASSUME NEW call \in Calls
  PROVE ToolReturns(call) \subseteq Outcomes
<1>1. call.id \in Ids
  BY DEF Calls
<1>2. ASSUME NEW o \in ToolReturns(call) PROVE o \in Outcomes
  <2>1. CASE call.name \in Tools
    <3>1. PICK kind \in OutcomeKinds, id \in Ids, refs \in BOOLEAN : o = [kind |-> kind, id |-> id, refs |-> refs]
      BY <2>1 DEF ToolReturns, OutcomeKinds
    <3> QED BY <3>1 DEF Outcomes
  <2>2. CASE call.name \notin Tools
    <3>1. o = [kind |-> "rejected", id |-> call.id, refs |-> FALSE]
      BY <2>2 DEF ToolReturns
    <3> QED BY <1>1, <3>1 DEF Outcomes, OutcomeKinds
  <2> QED BY <2>1, <2>2
<1> QED BY <1>2

\* The branches keep their type, and what is settled is an outcome of its call.
LEMMA BranchesKeep ==
  ASSUME IInv, [Next]_vars
  PROVE Typed' /\ Branches'
<1> DEFINE B == [status : Statuses, outcome : Outcomes]
           Agree == \A i \in DOMAIN batch : branch[i].status = "settled" => OutcomeAccepted(batch[i], branch[i].outcome)
<1>a. Typed /\ Branches /\ state \in State
  BY DEF IInv, Typed
<1>b. state' \in State
  BY StateKeepsType
<1>c. /\ at \in Nodes \cup Ended \cup {"suspended"} /\ route \in BOOLEAN /\ batch \in Seq(Calls)
      /\ branch \in [DOMAIN batch -> B] /\ crashes \in 0..MaxCrashes /\ interrupts \in 0..MaxInterrupts
      /\ Agree /\ (at = "observe" => \A i \in DOMAIN batch : branch[i].status = "settled")
  BY <1>a DEF Typed, Branches
<1>d. {"settled", "running", "ready", "failed", "waiting"} \subseteq Statuses
  BY DEF Statuses
\* The parts of the goal that say how the branches change.
<1> DEFINE Goal1 == /\ at' \in Nodes \cup Ended \cup {"suspended"} /\ route' \in BOOLEAN /\ batch' \in Seq(Calls)
                    /\ branch' \in [DOMAIN batch' -> B] /\ crashes' \in 0..MaxCrashes /\ interrupts' \in 0..MaxInterrupts
           Goal2 == /\ Agree'
                    /\ at' = "observe" => \A i \in DOMAIN batch' : branch'[i].status = "settled"
           Goal3 == \A i \in DOMAIN batch' : branch'[i].status = "running" =>
                      i \in DOMAIN batch /\ branch[i].status = "running"
<1>e. ASSUME Goal1, Goal2, Goal3 PROVE Typed' /\ Branches'
  <2>1. Typed'
    BY <1>b, <1>e DEF Typed
  <2> HIDE DEF Agree
  <2>2. Cardinality(With("running"))' <= MaxParallelTools
    BY <1>a, <1>e, <2>1, NoneStarts
  <2> QED BY <1>e, <2>1, <2>2 DEF Branches, Agree
\* Steps that leave the branches alone,
<1>1. ASSUME UNCHANGED <<batch, branch, crashes, interrupts>>,
             at' \in Nodes \cup Ended \cup {"suspended"}, route' \in BOOLEAN,
             at' = "observe" => \A i \in DOMAIN batch : branch[i].status = "settled"
      PROVE Typed' /\ Branches'
  <2>1. Goal1 /\ Goal2 /\ Goal3
    BY <1>c, <1>1
  <2> QED BY <1>e, <2>1
<1>2. CASE UNCHANGED vars
  BY <1>1, <1>2, <1>c DEF vars
<1>3. CASE Prepare
  BY <1>a, <1>c, <1>1, <1>3, PrepareEffect DEF Nodes
<1>4. ASSUME NEW response \in Responses,
             ModelCallsTools(response) \/ ModelAsksRepair(response) \/ ModelAnswers(response)
      PROVE Typed' /\ Branches'
  <2>1. CASE ModelCallsTools(response)
    <3>1. route' = TRUE
      BY <2>1 DEF ModelCallsTools
    <3> QED BY <1>a, <1>c, <1>1, <2>1, <3>1, CallsEffect DEF Nodes
  <2>2. CASE ModelAsksRepair(response)
    BY <1>a, <1>c, <1>1, <2>2, RepairEffect DEF Nodes
  <2>3. CASE ModelAnswers(response)
    <3>1. response.parts \in BOOLEAN
      BY <1>a, HeardIs
    <3> QED BY <1>a, <1>c, <1>1, <2>3, <3>1, AnswerEffect DEF Nodes
  <2> QED BY <1>4, <2>1, <2>2, <2>3
<1>5. CASE Fail /\ at \in Nodes
  BY <1>c, <1>1, <1>5 DEF Fail, Ended
<1>6. CASE Continue \/ Finish \/ ToolsSettled \/ ToolsSuspend
  <2>1. UNCHANGED <<batch, branch, crashes, interrupts>> /\ route' = route
    BY <1>6 DEF Continue, Finish, ToolsSettled, ToolsSuspend, Commit
  <2>2. at' \in Nodes \cup Ended \cup {"suspended"}
    BY <1>6 DEF Continue, Finish, ToolsSettled, ToolsSuspend, Commit, Nodes, Ended
  <2>3. at' = "observe" => \A i \in DOMAIN batch : branch[i].status = "settled"
    BY <1>c, <1>6 DEF Continue, Finish, ToolsSettled, ToolsSuspend, Commit
  <2> QED BY <1>c, <1>1, <2>1, <2>2, <2>3
\* the fan-out of a batch and its end,
<1>7. CASE DispatchTools /\ state.remaining # <<>>
  <2>1. PICK end \in 1..Len(state.remaining) :
          /\ at' = "tool" /\ batch' = SubSeq(state.remaining, 1, end) /\ branch' = [i \in 1..end |-> Ready]
          /\ UNCHANGED <<route, crashes, interrupts>>
    BY <1>a, <1>7, DispatchEffect
  <2>2. state.remaining \in Seq(Calls)
    BY <1>a, StateParts
  <2>3. batch' \in Seq(Calls) /\ DOMAIN batch' = 1..end
    BY <2>1, <2>2
  <2>4. Goal1
    BY <1>c, <2>1, <2>3, ReadyIs DEF Nodes
  <2>5. \A i \in DOMAIN batch' : branch'[i].status = "ready"
    BY <2>1, <2>3, ReadyIs
  <2>6. Goal2 /\ Goal3
    BY <2>1, <2>5
  <2> QED BY <1>e, <2>4, <2>6
<1>8. CASE ObserveTools
  <2>1. at' = "continue" /\ route' \in BOOLEAN /\ batch' = <<>> /\ branch' = <<>> /\ UNCHANGED <<crashes, interrupts>>
    BY <1>8 DEF ObserveTools, Commit
  <2>2. DOMAIN batch' = {} /\ batch' \in Seq(Calls) /\ branch' \in [{} -> B]
    BY <2>1
  <2>3. Goal1 /\ Goal2 /\ Goal3
    BY <1>c, <2>1, <2>2 DEF Nodes
  <2> QED BY <1>e, <2>3
\* a crash and the return of the caller,
<1>9. ASSUME NEW kept \in SUBSET With("settled"), Crash(kept) PROVE Typed' /\ Branches'
  <2>1. /\ crashes' \in 0..MaxCrashes /\ UNCHANGED <<state, at, route, batch, interrupts>>
        /\ branch' = [i \in DOMAIN branch |->
             IF i \in kept \/ branch[i].status = "waiting" \/ at = "observe" THEN branch[i] ELSE Ready]
    <3>1. crashes' = crashes + 1 /\ crashes < MaxCrashes
      BY <1>9 DEF Crash
    <3>2. crashes \in 0..MaxCrashes /\ MaxCrashes \in Nat
      BY <1>a, ReactAssumption DEF Typed
    <3>3. crashes' \in 0..MaxCrashes
      BY <3>1, <3>2
    <3> QED BY <1>9, <3>3 DEF Crash
  <2>2. Goal1 /\ \A i \in DOMAIN batch : branch'[i] = branch[i] \/ branch'[i] = Ready
    BY <1>c, <2>1, ReadyIs
  <2>3. at = "observe" => \A i \in DOMAIN batch : branch'[i] = branch[i]
    BY <1>c, <2>1
  <2>4. Goal2
    BY <1>c, <2>1, <2>2, <2>3, ReadyIs
  <2>5. Goal3
    BY <2>1, <2>2, ReadyIs
  <2> QED BY <1>e, <2>2, <2>4, <2>5
<1>10. CASE Resume
  <2>1. /\ at' = "tool" /\ UNCHANGED <<state, route, batch, crashes, interrupts>>
        /\ branch' = [i \in DOMAIN branch |-> IF branch[i].status = "waiting" THEN Ready ELSE branch[i]]
    BY <1>10 DEF Resume
  <2>2. Goal1 /\ \A i \in DOMAIN batch : branch'[i] = branch[i] \/ branch'[i] = Ready
    BY <1>c, <2>1, ReadyIs DEF Nodes
  <2>3. Goal2
    BY <1>c, <2>1, <2>2, ReadyIs
  <2>4. Goal3
    BY <2>1, <2>2, ReadyIs
  <2> QED BY <1>e, <2>2, <2>3, <2>4
\* and the steps of one branch.
<1>11. ASSUME NEW i \in DOMAIN batch, ToolStep(i) PROVE Typed' /\ Branches'
  <2>1. CASE StartTool(i)
    <3>1. /\ branch' = [branch EXCEPT ![i].status = "running"] /\ UNCHANGED <<state, at, route, batch, crashes, interrupts>>
          /\ at = "tool" /\ Cardinality(With("running")) < MaxParallelTools
      BY <2>1 DEF StartTool
    <3>2. branch' \in [DOMAIN batch -> B]
      BY <1>c, <1>d, <3>1
    <3>3. /\ branch'[i].status = "running"
          /\ \A j \in DOMAIN batch : j # i => branch'[j] = branch[j]
      BY <1>c, <3>1
    <3>4. Typed'
      BY <1>b, <1>c, <3>1, <3>2 DEF Typed
    <3>5. Goal2
      BY <1>c, <3>1, <3>3
    <3>6. With("running")' \subseteq With("running") \cup {i}
      BY <1>c, <3>1, <3>2, <3>3 DEF With
    <3>7. IsFiniteSet(With("running")) /\ Cardinality(With("running")) \in Nat
      <4>1. DOMAIN branch = 1..Len(batch) /\ Len(batch) \in Nat
        BY <1>c
      <4>2. IsFiniteSet(1..Len(batch))
        BY <4>1, FS_Interval
      <4>3. With("running") \subseteq 1..Len(batch)
        BY <4>1 DEF With
      <4> QED BY <4>2, <4>3, FS_Subset, FS_CardinalityType
    <3>8. IsFiniteSet(With("running") \cup {i}) /\ Cardinality(With("running") \cup {i}) <= Cardinality(With("running")) + 1
      BY <3>7, FS_AddElement
    <3>9. Cardinality(With("running")') <= Cardinality(With("running") \cup {i})
      BY <3>6, <3>8, FS_Subset
    <3>10. Cardinality(With("running")') \in Nat /\ Cardinality(With("running") \cup {i}) \in Nat
      BY <3>6, <3>8, FS_Subset, FS_CardinalityType
    <3>11. Cardinality(With("running")') <= MaxParallelTools
      BY <3>1, <3>7, <3>8, <3>9, <3>10, Limits
    <3> QED BY <3>4, <3>5, <3>11 DEF Branches
  <2>2. CASE ToolInterrupts(i)
    <3>1. /\ branch' = [branch EXCEPT ![i].status = "waiting"] /\ UNCHANGED <<state, at, route, batch, crashes>>
          /\ at = "tool" /\ interrupts' \in 0..MaxInterrupts
      <4>1. interrupts' = interrupts + 1 /\ interrupts < MaxInterrupts
        BY <2>2 DEF ToolInterrupts
      <4>2. interrupts \in 0..MaxInterrupts /\ MaxInterrupts \in Nat
        BY <1>a, ReactAssumption DEF Typed
      <4>3. interrupts' \in 0..MaxInterrupts
        BY <4>1, <4>2
      <4> QED BY <2>2, <4>3 DEF ToolInterrupts
    <3>2. Goal1
      BY <1>c, <1>d, <3>1
    <3>3. /\ branch'[i].status = "waiting"
          /\ \A j \in DOMAIN batch : j # i => branch'[j] = branch[j]
      BY <1>c, <3>1
    <3>4. Goal2 /\ Goal3
      BY <1>c, <3>1, <3>3
    <3> QED BY <1>e, <3>2, <3>4
  <2>3. ASSUME NEW outcome \in ToolReturns(batch[i]), ToolSettles(i, outcome) PROVE Typed' /\ Branches'
    <3>1. /\ UNCHANGED <<state, at, route, batch, crashes, interrupts>> /\ at = "tool"
          /\ branch' = [branch EXCEPT ![i] =
               IF OutcomeAccepted(batch[i], outcome)
               THEN [status |-> "settled", outcome |-> outcome]
               ELSE [status |-> "failed", outcome |-> Unset]]
      BY <2>3 DEF ToolSettles
    <3>2. outcome \in Outcomes
      <4>1. batch[i] \in Calls
        BY <1>c
      <4> QED BY <4>1, ReturnsType
    <3>3. Goal1
      BY <1>c, <1>d, <3>1, <3>2, ReadyIs
    <3>4. /\ branch'[i].status = "settled" => OutcomeAccepted(batch[i], outcome) /\ branch'[i].outcome = outcome
          /\ branch'[i].status \in {"settled", "failed"}
          /\ \A j \in DOMAIN batch : j # i => branch'[j] = branch[j]
      BY <1>c, <3>1
    <3>5. Goal2 /\ Goal3
      BY <1>c, <3>1, <3>4
    <3> QED BY <1>e, <3>3, <3>5
  <2> QED BY <1>11, <2>1, <2>2, <2>3 DEF ToolStep
<1>12. CASE NodeStep
  <2>1. CASE \E response \in Responses : ModelTurn(response)
    BY <1>4, <1>5, <2>1 DEF ModelTurn, ModelRejected, Nodes
  <2>2. CASE DispatchTools
    BY <1>5, <1>7, <2>2 DEF DispatchTools, Nodes
  <2>3. CASE PrepareExhausted \/ ModelFails \/ FinishEmpty \/ ToolsFailed
    BY <1>5, <2>3 DEF PrepareExhausted, ModelFails, FinishEmpty, ToolsFailed, Nodes
  <2> HIDE DEF Agree
  <2> QED BY <1>3, <1>6, <1>8, <1>12, <2>1, <2>2, <2>3 DEF NodeStep
<1> QED BY <1>2, <1>9, <1>10, <1>11, <1>12 DEF Next

-----------------------------------------------------------------------------
\* What IInv says besides the types.
Work == Answered(Transcript) /\ Stages /\ Answering /\ Batches /\ Counted /\ Reported /\ Conversed

\* What the invariant says of the parts of the state.
LEMMA Parts ==
  ASSUME Typed
  PROVE /\ state.turn \in Nat /\ state.toolCalls \in Nat /\ state.messages \in Seq(Messages)
        /\ state.pending \in Seq(Observations) /\ state.pending \in Seq(Messages)
        /\ state.remaining \in Seq(Calls) /\ state.artifacts \in Seq(Nat)
        /\ batch \in Seq(Calls) /\ Owed \in Seq(Calls)
        /\ Len(Owed) = Len(batch) + Len(state.remaining)
        /\ Len(batch) \in Nat /\ Len(state.remaining) \in Nat
        /\ Expected(Owed) \in Seq(Messages)
        /\ WholeTurns = TurnsOf(state.messages)
<1>1. state \in State /\ batch \in Seq(Calls)
  BY DEF Typed
<1>2. /\ state.turn \in Nat /\ state.toolCalls \in Nat /\ state.messages \in Seq(Messages)
      /\ state.pending \in Seq(Observations) /\ state.remaining \in Seq(Calls) /\ state.artifacts \in Seq(Nat)
  BY <1>1, StateParts
<1>3. Owed \in Seq(Calls) /\ Len(Owed) = Len(batch) + Len(state.remaining)
      /\ Len(batch) \in Nat /\ Len(state.remaining) \in Nat
  BY <1>1, <1>2 DEF Owed
<1>4. Expected(Owed) \in Seq(Messages) /\ state.pending \in Seq(Messages)
  BY <1>2, <1>3, ExpectedType, MessageTypes
<1> QED BY <1>1, <1>2, <1>3, <1>4, WholeTurnsOf

\* Nothing adds nothing.
LEMMA Nothing ==
  /\ \A s \in Seq(Messages) : s \o <<>> = s /\ <<>> \o s = s
  /\ \A s \in Seq(Calls) : s \o <<>> = s /\ <<>> \o s = s
  /\ Expected(<<>>) = <<>>
  /\ \A s \in Seq(Messages), m \in Messages : s \o <<m>> = Append(s, m) /\ Append(s, m) \in Seq(Messages)
  /\ \A s \in Seq(Calls) : Len(s) = 0 <=> s = <<>>
  /\ \A s \in Seq(Messages) : Len(s) = 1 => s = <<s[1]>> /\ s[1] \in Messages
<1>1. \A s \in Seq(Messages) : s \o <<>> = s /\ <<>> \o s = s
  BY ConcatEmptySeq
<1>2. \A s \in Seq(Calls) : s \o <<>> = s /\ <<>> \o s = s
  BY ConcatEmptySeq
<1>3. Expected(<<>>) = <<>>
  BY DEF Expected
<1>4. \A s \in Seq(Messages), m \in Messages : s \o <<m>> = Append(s, m) /\ Append(s, m) \in Seq(Messages)
  OBVIOUS
<1>5. \A s \in Seq(Calls) : Len(s) = 0 <=> s = <<>>
  OBVIOUS
<1>6. \A s \in Seq(Messages) : Len(s) = 1 => s = <<s[1]>> /\ s[1] \in Messages
  OBVIOUS
<1> QED BY <1>1, <1>2, <1>3, <1>4, <1>5, <1>6

\* When nothing is owed, no call is in the batch or left.
LEMMA NothingOwed ==
  ASSUME Typed, Owed = <<>>
  PROVE batch = <<>> /\ state.remaining = <<>>
<1>1. /\ batch \in Seq(Calls) /\ state.remaining \in Seq(Calls)
      /\ Len(Owed) = Len(batch) + Len(state.remaining)
      /\ Len(batch) \in Nat /\ Len(state.remaining) \in Nat
  BY Parts
<1>2. Len(Owed) = 0
  OBVIOUS
<1>3. \A x, y \in Nat : 0 = x + y => x = 0 /\ y = 0
  OBVIOUS
<1>4. Len(batch) = 0 /\ Len(state.remaining) = 0
  BY <1>1, <1>2, <1>3
<1> QED BY <1>1, <1>4, Nothing

\* Only one thing is under way.
LEMMA OneUnderWay ==
  ASSUME NEW ms \in Seq(Messages), NEW p \in Seq(Observations), NEW owed \in Seq(Calls)
  PROVE /\ Quiet(ms, p, owed) => ~Repairing(ms, p, owed) /\ ~Calling(ms, p, owed)
        /\ Repairing(ms, p, owed) => ~Calling(ms, p, owed)
<1>1. ASSUME Quiet(ms, p, owed), Repairing(ms, p, owed) PROVE FALSE
  <2>1. p = <<>> /\ Len(p) = 1
    BY <1>1 DEF Quiet, Repairing
  <2> QED BY <2>1
<1>2. ASSUME Quiet(ms, p, owed), Calling(ms, p, owed) PROVE FALSE
  <2>1. Len(p) = 0 /\ Len(owed) = 0
    BY <1>2 DEF Quiet
  <2>2. Len(ms[Len(ms)].calls) = 0 /\ ms[Len(ms)].calls # <<>> /\ Len(ms) > 0
    BY <1>2, <2>1 DEF Calling
  <2>3. ms[Len(ms)].calls \in Seq(Calls)
    <3>1. Len(ms) \in 1..Len(ms)
      BY <2>2
    <3>2. ms[Len(ms)] \in Messages
      BY <3>1
    <3> QED BY <3>2, MessageTypes
  <2> QED BY <2>2, <2>3, Nothing
<1>3. ASSUME Repairing(ms, p, owed), Calling(ms, p, owed) PROVE FALSE
  <2>1. Len(p) = 1 /\ p[1].kind = "repair" /\ \A j \in 1..Len(p) : p[j].kind = "tool"
    BY <1>3 DEF Repairing, Calling
  <2> QED BY <2>1
<1> QED BY <1>1, <1>2, <1>3

\* The turns of a transcript are lists of calls.
LEMMA TurnsType ==
  ASSUME NEW ms \in Seq(Messages)
  PROVE TurnsOf(ms) \in Seq(Seq(Calls))
<1>1. \A m \in Messages : m.calls \in Seq(Calls)
  BY MessageTypes
<1>2. PICK T \in TurnLists(ms) : TurnsOf(ms) = T[Len(ms)]
  BY <1>1, TurnsAreCollected
<1>3. T \in [0..Len(ms) -> Seq(Seq(Calls))] /\ Len(ms) \in 0..Len(ms)
  BY <1>2 DEF TurnLists
<1> QED BY <1>2, <1>3

\* A turn is taken into the transcript whole.
LEMMA TurnTaken ==
  ASSUME IInv, Prepare
  PROVE /\ Settled(state'.messages)
        /\ CallsIn(state'.messages) = CallsIn(state.messages)
        /\ \/ /\ WholeTurns' = WholeTurns
              /\ Len(WholeTurns) = state.turn
              /\ C!TotalCalls(WholeTurns) = state.toolCalls
           \/ \E calls \in CallLists :
                /\ calls \in Seq(Calls)
                /\ WholeTurns' = Append(WholeTurns, calls)
                /\ Len(WholeTurns) = state.turn - 1
                /\ C!TotalCalls(WholeTurns) + Len(calls) = state.toolCalls
<1> DEFINE ms == state.messages
           p == state.pending
           last == ms[Len(ms)]
<1>a. Typed /\ Stages /\ Conversed
  BY DEF IInv
<1>b. /\ state.turn \in Nat /\ state.toolCalls \in Nat /\ ms \in Seq(Messages)
      /\ p \in Seq(Observations) /\ p \in Seq(Messages) /\ Owed \in Seq(Calls)
      /\ WholeTurns = TurnsOf(ms)
  BY <1>a, Parts
<1>c. /\ at = "prepare" /\ at' = "model"
      /\ state'.messages = ms \o p
  <2>1. /\ at = "prepare" /\ at' = "model"
        /\ state' = [turn |-> state.turn + 1, toolCalls |-> state.toolCalls,
                     messages |-> state.messages \o state.pending, pending |-> <<>>,
                     remaining |-> state.remaining, artifacts |-> state.artifacts]
    BY <1>a, PrepareEffect
  <2> QED BY <2>1
<1>d. WholeTurns' = TurnsOf(state'.messages)
  BY WholeTurnsNext
<1>e. \A m \in Messages : m.calls \in Seq(Calls) /\ Len(m.calls) \in Nat
  BY MessageTypes
<1>f. Owed = <<>> /\ (Quiet(ms, p, Owed) \/ Repairing(ms, p, Owed) \/ Calling(ms, p, Owed))
  BY <1>a, <1>c DEF Stages
<1>g. at \in Nodes
  BY <1>c DEF Nodes
<1> HIDE DEF ms, p
<1>h. CallsIn(state'.messages) = CallsIn(ms)
  <2>1. \A j \in 1..Len(p) : Len(p[j].calls) = 0
    <3> SUFFICES ASSUME NEW j \in 1..Len(p) PROVE Len(p[j].calls) = 0
      OBVIOUS
    <3>1. p[j] \in Observations
      BY <1>b
    <3>2. p[j].calls = <<>>
      BY <3>1, MessageTypes
    <3> QED BY <3>2
  <2> QED BY <1>b, <1>c, <1>e, <2>1, CallsOfConcat
<1>1. CASE Quiet(ms, p, Owed)
  <2>1. p = <<>> /\ Settled(ms)
    BY <1>1 DEF Quiet
  <2>2. state'.messages = ms
    BY <1>b, <1>c, <2>1, Nothing
  <2>3. Len(WholeTurns) = state.turn /\ C!TotalCalls(WholeTurns) = state.toolCalls
    BY <1>a, <1>c, <1>g, <1>1 DEF Conversed, ms, p
  <2> QED BY <1>b, <1>d, <1>h, <2>1, <2>2, <2>3 DEF ms
<1>2. CASE Repairing(ms, p, Owed)
  <2>1. Len(p) = 1 /\ p[1].kind = "repair" /\ p[1].calls = <<>> /\ Settled(ms) /\ <<>> \in CallLists
    BY <1>2 DEF Repairing
  <2>2. p = <<p[1]>> /\ p[1] \in Messages
    BY <1>b, <2>1, Nothing
  <2>3. state'.messages = Append(ms, p[1])
    <3>1. state'.messages = ms \o <<p[1]>>
      BY <1>c, <2>2
    <3> QED BY <1>b, <2>2, <3>1, Nothing
  <2>4. Settled(state'.messages)
    BY <1>b, <2>1, <2>2, <2>3, SettledAppend
  <2>5. TurnsOf(state'.messages) = Append(TurnsOf(ms), <<>>)
    <3>1. TurnsOf(Append(ms, p[1])) = Append(TurnsOf(ms), <<>>)
      BY <1>b, <1>e, <2>1, <2>2, TurnsOfRepair
    <3> QED BY <2>3, <3>1
  <2>6. Len(WholeTurns) = state.turn - 1 /\ C!TotalCalls(WholeTurns) = state.toolCalls
    BY <1>a, <1>c, <1>g, <1>2 DEF Conversed, ms, p
  <2>7. <<>> \in Seq(Calls) /\ Len(<<>>) = 0 /\ C!TotalCalls(WholeTurns) + 0 = state.toolCalls
    BY <1>b, <2>6
  <2> QED BY <1>b, <1>d, <1>h, <2>1, <2>4, <2>5, <2>6, <2>7 DEF ms
<1>3. CASE Calling(ms, p, Owed)
  <2>1. /\ Len(ms) > 0 /\ last.kind = "assistant" /\ last.calls # <<>> /\ last.calls \in CallLists
        /\ Len(last.calls) = Len(p) + Len(Owed)
        /\ \A i \in 1..(Len(ms) - 1) : i + Len(ms[i].calls) <= Len(ms) - 1
        /\ \A j \in 1..Len(p) : p[j].kind = "tool" /\ p[j].calls = <<>>
    BY <1>3 DEF Calling
  <2>2. Len(last.calls) = Len(p)
    <3>1. Len(Owed) = 0 /\ Len(p) \in Nat
      BY <1>b, <1>f
    <3> QED BY <2>1, <3>1
  <2>3. Settled(state'.messages)
    BY <1>b, <1>c, <1>f, <1>3, CallingEnds
  <2>4. last.kind # "repair" /\ last \in Messages
    <3>1. Len(ms) \in 1..Len(ms)
      BY <1>b, <2>1
    <3>2. last \in Messages
      BY <1>b, <3>1
    <3> QED BY <2>1, <3>2
  <2>5. TurnsOf(ms \o p) = Append(TurnsOf(ms), last.calls)
    BY <1>b, <1>e, <2>1, <2>2, <2>4, TurnsOfConcat
  <2>6. Len(WholeTurns) = state.turn - 1 /\ C!TotalCalls(WholeTurns) + Len(last.calls) = state.toolCalls
    BY <1>a, <1>c, <1>g, <1>3 DEF Conversed, ms, p
  <2>7. last.calls \in Seq(Calls)
    BY <1>e, <2>4
  <2> QED BY <1>b, <1>c, <1>d, <1>h, <2>1, <2>3, <2>5, <2>6, <2>7 DEF ms
<1> QED BY <1>f, <1>1, <1>2, <1>3


-----------------------------------------------------------------------------
\* Nothing is under way, and the turns are counted.
QuietTurns ==
  /\ Typed
  /\ Quiet(state.messages, state.pending, Owed)
  /\ Len(WholeTurns) = (IF at = "prepare" THEN state.turn ELSE state.turn - 1)
  /\ C!TotalCalls(WholeTurns) = state.toolCalls

\* That is what Conversed asks for then.
LEMMA QuietConversed == QuietTurns => Conversed
<1> SUFFICES ASSUME QuietTurns PROVE Conversed
  OBVIOUS
<1>a. Typed /\ Quiet(state.messages, state.pending, Owed)
  BY DEF QuietTurns
<1>1. state.messages \in Seq(Messages) /\ state.pending \in Seq(Observations) /\ Owed \in Seq(Calls)
  BY <1>a, Parts
<1>2. /\ ~Repairing(state.messages, state.pending, Owed)
      /\ ~Calling(state.messages, state.pending, Owed)
  BY <1>a, <1>1, OneUnderWay
<1> QED BY <1>2 DEF Conversed, QuietTurns

\* So it is in the next state.
LEMMA QuietConversedNext == QuietTurns' => Conversed'
<1>1. (QuietTurns => Conversed)'
  BY QuietConversed, PTL
<1> QED BY <1>1

\* prepare takes the turn into the transcript: nothing is under way then.
LEMMA PrepareKeeps == IInv /\ Prepare /\ Typed' => Work'
<1> SUFFICES ASSUME IInv, Prepare, Typed' PROVE Work'
  OBVIOUS
<1> DEFINE ms == state.messages
           p == state.pending
<1>a. Typed /\ Answered(Transcript) /\ Stages /\ Batches /\ Counted /\ Reported
  BY DEF IInv
<1>b. /\ state.turn \in Nat /\ state.toolCalls \in Nat /\ ms \in Seq(Messages) /\ p \in Seq(Messages)
      /\ state.remaining \in Seq(Calls) /\ batch \in Seq(Calls)
  BY <1>a, Parts
<1>c. /\ at = "prepare" /\ at' = "model" /\ state.turn < MaxTurns /\ batch' = batch
      /\ state'.turn = state.turn + 1 /\ state'.toolCalls = state.toolCalls
      /\ state'.messages = ms \o p /\ state'.pending = <<>>
      /\ state'.remaining = state.remaining /\ state'.artifacts = state.artifacts
  <2>1. /\ at = "prepare" /\ at' = "model" /\ state.turn < MaxTurns /\ batch' = batch
        /\ state' = [turn |-> state.turn + 1, toolCalls |-> state.toolCalls,
                     messages |-> state.messages \o state.pending, pending |-> <<>>,
                     remaining |-> state.remaining, artifacts |-> state.artifacts]
    BY <1>a, PrepareEffect
  <2> QED BY <2>1
<1>d. Owed = <<>> /\ Owed' = Owed
  BY <1>a, <1>c DEF Stages, Owed
<1>e. /\ Settled(state'.messages)
      /\ CallsIn(state'.messages) = CallsIn(state.messages)
      /\ \/ /\ WholeTurns' = WholeTurns
            /\ Len(WholeTurns) = state.turn
            /\ C!TotalCalls(WholeTurns) = state.toolCalls
         \/ \E calls \in CallLists :
              /\ calls \in Seq(Calls)
              /\ WholeTurns' = Append(WholeTurns, calls)
              /\ Len(WholeTurns) = state.turn - 1
              /\ C!TotalCalls(WholeTurns) + Len(calls) = state.toolCalls
  BY TurnTaken
<1>f. WholeTurns \in Seq(Seq(Calls))
  <2>1. WholeTurns = TurnsOf(ms)
    BY <1>a, Parts
  <2> QED BY <1>b, <2>1, TurnsType
<1> HIDE DEF ms, p
<1>1. Answered(Transcript')
  <2>1. ms \o p \in Seq(Messages)
    BY <1>b
  <2>2. (ms \o p) \o <<>> = ms \o p
    BY <2>1, Nothing
  <2>3. Transcript' = ((ms \o p) \o <<>>) \o Expected(Owed)
    BY <1>c, <1>d DEF Transcript, Expected
  <2>4. Transcript' = Transcript
    BY <2>2, <2>3 DEF Transcript, ms, p
  <2> QED BY <1>a, <2>4
<1>2. Quiet(state'.messages, state'.pending, Owed')
  BY <1>c, <1>d, <1>e DEF Quiet
<1>3. Stages'
  BY <1>2, <1>c DEF Stages
<1>4. Answering' /\ Batches'
  BY <1>a, <1>c DEF Answering, Batches
<1>5. Counted'
  <2>1. state.turn + 1 <= MaxTurns
    BY <1>b, <1>c, Limits
  <2> QED BY <1>a, <1>c, <1>d, <1>e, <2>1 DEF Counted
<1>6. Reported'
  BY <1>a, <1>c, <1>d DEF Reported, ArtifactsOnce
<1>7. Len(WholeTurns') = state'.turn - 1 /\ C!TotalCalls(WholeTurns') = state'.toolCalls
  <2>1. \A n \in Nat : n = (n + 1) - 1 /\ (n - 1) + 1 = n
    OBVIOUS
  <2>2. CASE /\ WholeTurns' = WholeTurns
             /\ Len(WholeTurns) = state.turn
             /\ C!TotalCalls(WholeTurns) = state.toolCalls
    BY <1>b, <1>c, <2>1, <2>2
  <2>3. CASE \E calls \in CallLists :
                /\ calls \in Seq(Calls)
                /\ WholeTurns' = Append(WholeTurns, calls)
                /\ Len(WholeTurns) = state.turn - 1
                /\ C!TotalCalls(WholeTurns) + Len(calls) = state.toolCalls
    <3>1. PICK calls \in Seq(Calls) :
                /\ WholeTurns' = Append(WholeTurns, calls)
                /\ Len(WholeTurns) = state.turn - 1
                /\ C!TotalCalls(WholeTurns) + Len(calls) = state.toolCalls
      BY <2>3
    <3>2. C!TotalCalls(Append(WholeTurns, calls)) = C!TotalCalls(WholeTurns) + Len(calls)
      BY <1>f, TotalOfAppend
    <3>3. Len(Append(WholeTurns, calls)) = Len(WholeTurns) + 1
      BY <1>f
    <3> QED BY <1>b, <1>c, <2>1, <3>1, <3>2, <3>3
  <2> QED BY <1>e, <2>2, <2>3
<1>8. Conversed'
  <2>1. QuietTurns'
    BY <1>2, <1>7, <1>c DEF QuietTurns
  <2> QED BY <2>1, QuietConversedNext
<1> QED BY <1>1, <1>3, <1>4, <1>5, <1>6, <1>8 DEF Work

-----------------------------------------------------------------------------
\* A repair or the calls of the last message are under way, and the turns are
\* counted.
RepairTurns ==
  /\ Typed /\ at \in {"prepare", "continue"}
  /\ Repairing(state.messages, state.pending, Owed)
  /\ Len(WholeTurns) = state.turn - 1
  /\ C!TotalCalls(WholeTurns) = state.toolCalls
CallTurns ==
  /\ Typed /\ at \notin {"model", "finish"}
  /\ Calling(state.messages, state.pending, Owed)
  /\ Len(WholeTurns) = state.turn - 1
  /\ C!TotalCalls(WholeTurns) + Len(state.messages[Len(state.messages)].calls) = state.toolCalls

\* That is what Conversed asks for then.
LEMMA TurnsConversed == RepairTurns \/ CallTurns => Conversed
<1>1. ASSUME Typed
      PROVE /\ state.messages \in Seq(Messages) /\ state.pending \in Seq(Observations)
            /\ Owed \in Seq(Calls)
  BY <1>1, Parts
<1>2. ASSUME RepairTurns PROVE Conversed
  <2>1. Typed /\ Repairing(state.messages, state.pending, Owed)
    BY <1>2 DEF RepairTurns
  <2>2. /\ ~Quiet(state.messages, state.pending, Owed)
        /\ ~Calling(state.messages, state.pending, Owed)
    BY <2>1, <1>1, OneUnderWay
  <2> QED BY <1>2, <2>2 DEF Conversed, RepairTurns
<1>3. ASSUME CallTurns PROVE Conversed
  <2>1. Typed /\ Calling(state.messages, state.pending, Owed)
    BY <1>3 DEF CallTurns
  <2>2. /\ ~Quiet(state.messages, state.pending, Owed)
        /\ ~Repairing(state.messages, state.pending, Owed)
    BY <2>1, <1>1, OneUnderWay
  <2> QED BY <1>3, <2>2 DEF Conversed, CallTurns
<1> QED BY <1>2, <1>3

\* So it is in the next state.
LEMMA TurnsConversedNext == RepairTurns' \/ CallTurns' => Conversed'
<1>1. (RepairTurns \/ CallTurns => Conversed)'
  BY TurnsConversed, PTL
<1> QED BY <1>1

\* The model is called when nothing is under way.
LEMMA ModelStarts ==
  ASSUME IInv, at = "model"
  PROVE /\ state.messages \in Seq(Messages) /\ state.turn \in Nat /\ state.toolCalls \in Nat
        /\ state.artifacts \in Seq(Nat)
        /\ batch = <<>> /\ state.remaining = <<>> /\ state.pending = <<>> /\ Owed = <<>>
        /\ Answered(state.messages) /\ Settled(state.messages)
        /\ WholeTurns = TurnsOf(state.messages)
        /\ Len(WholeTurns) = state.turn - 1 /\ C!TotalCalls(WholeTurns) = state.toolCalls
        /\ state.turn <= MaxTurns
        /\ state.toolCalls = CallsIn(state.messages) /\ state.toolCalls <= MaxToolCalls
        /\ ArtifactsOnce /\ \A i \in DOMAIN state.artifacts : state.artifacts[i] <= state.toolCalls
<1>a. Typed /\ Answered(Transcript) /\ Stages /\ Counted /\ Reported /\ Conversed
  BY DEF IInv
<1>b. /\ state.turn \in Nat /\ state.toolCalls \in Nat /\ state.messages \in Seq(Messages)
      /\ state.artifacts \in Seq(Nat) /\ state.remaining \in Seq(Calls) /\ batch \in Seq(Calls)
      /\ WholeTurns = TurnsOf(state.messages)
  BY <1>a, Parts
<1>c. Quiet(state.messages, state.pending, Owed)
  BY <1>a DEF Stages
<1>d. state.pending = <<>> /\ Owed = <<>> /\ Settled(state.messages)
  BY <1>c DEF Quiet
<1>e. batch = <<>> /\ state.remaining = <<>>
  BY <1>a, <1>d, NothingOwed
<1>f. Transcript = state.messages
  <2>1. Transcript = (state.messages \o <<>>) \o <<>>
    BY <1>d, Nothing DEF Transcript
  <2> QED BY <1>b, <2>1, Nothing
<1>g. Len(WholeTurns) = state.turn - 1 /\ C!TotalCalls(WholeTurns) = state.toolCalls
  BY <1>a DEF Conversed
<1>h. /\ state.turn <= MaxTurns
      /\ state.toolCalls = CallsIn(state.messages) /\ state.toolCalls <= MaxToolCalls
  BY <1>a DEF Counted
<1>i. ArtifactsOnce /\ \A i \in DOMAIN state.artifacts : state.artifacts[i] <= state.toolCalls
  <2>1. \A x \in Nat : x - Len(<<>>) = x
    OBVIOUS
  <2> QED BY <1>a, <1>b, <1>d, <2>1 DEF Reported
<1> QED BY <1>a, <1>b, <1>d, <1>e, <1>f, <1>g, <1>h, <1>i

\* A response that calls nothing leaves nothing to answer.
LEMMA ModelSays ==
  ASSUME IInv, at = "model", NEW response \in Responses, response.calls = <<>>
  PROVE /\ Heard(response) \in Seq(Messages)
        /\ Answered(Heard(response)) /\ Settled(Heard(response))
        /\ CallsIn(Heard(response)) = CallsIn(state.messages)
        /\ TurnsOf(Heard(response)) = TurnsOf(state.messages)
        /\ response.parts => /\ Len(Heard(response)) > 0
                             /\ Heard(response)[Len(Heard(response))].kind = "assistant"
                             /\ Heard(response)[Len(Heard(response))].parts
                             /\ Heard(response)[Len(Heard(response))].calls = <<>>
<1> DEFINE ms == state.messages
<1>a. Typed
  BY DEF IInv
<1>b. ms \in Seq(Messages) /\ Answered(ms) /\ Settled(ms)
  BY ModelStarts
<1>c. \A m \in Messages : m.calls \in Seq(Calls) /\ Len(m.calls) \in Nat
  BY MessageTypes
<1> HIDE DEF ms
<1>1. CASE Heard(response) = ms /\ ~response.parts
  BY <1>b, <1>1 DEF ms
<1>2. CASE \E m \in Messages : /\ m.kind = "assistant" /\ m.calls = response.calls
                               /\ m.parts = response.parts /\ Heard(response) = Append(ms, m)
  <2>1. PICK m \in Messages : /\ m.kind = "assistant" /\ m.calls = <<>>
                              /\ m.parts = response.parts /\ Heard(response) = Append(ms, m)
    BY <1>2
  <2>2. Append(ms, m) \in Seq(Messages) /\ Len(Append(ms, m)) = Len(ms) + 1
        /\ Append(ms, m)[Len(ms) + 1] = m /\ Len(ms) \in Nat
    BY <1>b
  <2>3. Settled(Append(ms, m))
    BY <1>b, <2>1, SettledAppend
  <2>4. m.kind # "tool" /\ m.kind # "repair"
    BY <2>1
  <2>5. Answered(Append(ms, m))
    BY <1>b, <2>1, <2>4, AnsweredAppend
  <2>6. TurnsOf(Append(ms, m)) = TurnsOf(ms)
    BY <1>b, <1>c, <2>4, TurnsOfAppend
  <2>7. CallsIn(Append(ms, m)) = CallsIn(ms)
    <3>1. CallsIn(ms) \in Nat /\ CallsIn(Append(ms, m)) = CallsIn(ms) + Len(m.calls)
      BY <1>b, <1>c, CallsOfAppend
    <3>2. Len(m.calls) = 0
      BY <2>1
    <3> QED BY <3>1, <3>2
  <2>8. Len(ms) + 1 > 0
    BY <2>2
  <2> QED BY <2>1, <2>2, <2>3, <2>5, <2>6, <2>7, <2>8 DEF ms
<1> QED BY <1>a, <1>1, <1>2, HeardIs DEF ms

-----------------------------------------------------------------------------
\* The calls of a tool turn are owed, all of them.
LEMMA CallsKeeps ==
  ASSUME NEW response \in Responses
  PROVE IInv /\ ModelCallsTools(response) /\ Typed' => Work'
<1> SUFFICES ASSUME IInv, ModelCallsTools(response), Typed' PROVE Work'
  OBVIOUS
<1> DEFINE ms == state.messages
           calls == response.calls
<1>a. Typed
  BY DEF IInv
<1>b. /\ at = "model" /\ at' = "continue" /\ route' /\ batch' = batch
      /\ ToolTurn(response)
      /\ state'.turn = state.turn /\ state'.toolCalls = state.toolCalls + Len(calls)
      /\ state'.messages = Heard(response) /\ state'.pending = state.pending
      /\ state'.remaining = calls /\ state'.artifacts = state.artifacts
  <2>1. /\ at = "model" /\ at' = "continue" /\ route' /\ batch' = batch
        /\ ToolTurn(response)
        /\ state' = [turn |-> state.turn, toolCalls |-> state.toolCalls + Len(response.calls),
                     messages |-> Heard(response), pending |-> state.pending,
                     remaining |-> response.calls, artifacts |-> state.artifacts]
    BY <1>a, CallsEffect
  <2> QED BY <2>1
<1>c. /\ ms \in Seq(Messages) /\ state.turn \in Nat /\ state.toolCalls \in Nat
      /\ state.artifacts \in Seq(Nat)
      /\ batch = <<>> /\ state.pending = <<>>
      /\ Answered(ms) /\ Settled(ms) /\ WholeTurns = TurnsOf(ms)
      /\ Len(WholeTurns) = state.turn - 1 /\ C!TotalCalls(WholeTurns) = state.toolCalls
      /\ state.turn <= MaxTurns
      /\ state.toolCalls = CallsIn(ms) /\ state.toolCalls <= MaxToolCalls
      /\ ArtifactsOnce /\ \A i \in DOMAIN state.artifacts : state.artifacts[i] <= state.toolCalls
  BY <1>b, ModelStarts
<1>d. calls # <<>> /\ response.role = "assistant" /\ Len(calls) <= MaxToolCalls - state.toolCalls
  BY <1>b DEF ToolTurn, ValidCalls
<1>e. \A m \in Messages : m.calls \in Seq(Calls) /\ Len(m.calls) \in Nat
  BY MessageTypes
<1>f. calls \in Seq(Calls) /\ calls \in CallLists /\ Len(calls) \in Nat
  BY <1>a, HeardIs
<1>g. PICK m \in Messages : /\ m.kind = "assistant" /\ m.calls = calls
                            /\ Heard(response) = Append(ms, m)
  BY <1>a, <1>d, HeardIs
<1> HIDE DEF ms, calls
<1>1. Owed' = <<>> \o calls /\ <<>> \o calls = calls
  BY <1>b, <1>c, <1>f, Nothing DEF Owed
<1>2. Calling(state'.messages, state'.pending, Owed')
  <2>1. Calling(Append(ms, m), <<>>, <<>> \o m.calls)
    BY <1>c, <1>d, <1>f, <1>g, CallingBegins
  <2> QED BY <1>b, <1>c, <1>g, <1>1, <2>1
<1>3. Answered(Transcript')
  <2>1. Append(ms, m) \in Seq(Messages)
    BY <1>c, <1>g
  <2>2. Append(ms, m) \o <<>> = Append(ms, m)
    BY <2>1, Nothing
  <2>3. Transcript' = (Append(ms, m) \o <<>>) \o Expected(m.calls)
    BY <1>b, <1>c, <1>g, <1>1 DEF Transcript, Expected
  <2>4. Answered(Append(ms, m) \o Expected(m.calls))
    BY <1>c, <1>g, AnsweredCalls
  <2> QED BY <2>2, <2>3, <2>4
<1>4. Stages'
  BY <1>b, <1>c, <1>d, <1>1, <1>2 DEF Stages
<1>5. Answering' /\ Batches'
  BY <1>b, <1>c DEF Answering, Batches
<1>6. \A x, l, top \in Nat : l <= top - x => x + l <= top /\ l <= x + l /\ (x + l) - l = x
  OBVIOUS
<1>7. Counted'
  <2>1. CallsIn(state'.messages) = state.toolCalls + Len(calls)
    BY <1>b, <1>c, <1>e, <1>g, CallsOfAppend
  <2>2. MaxToolCalls \in Nat
    BY Limits
  <2> QED BY <1>b, <1>c, <1>d, <1>f, <1>1, <1>6, <2>1, <2>2 DEF Counted
<1>8. Reported'
  <2>1. state'.toolCalls - Len(Owed') = state.toolCalls
    <3>1. MaxToolCalls \in Nat
      BY Limits
    <3> QED BY <1>b, <1>c, <1>d, <1>f, <1>1, <1>6, <3>1
  <2> QED BY <1>b, <1>c, <2>1 DEF Reported, ArtifactsOnce
<1>9. CallTurns'
  <2>1. WholeTurns' = TurnsOf(Append(ms, m))
    BY <1>b, <1>g, WholeTurnsNext
  <2>2. m.kind # "repair"
    BY <1>g
  <2>3. TurnsOf(Append(ms, m)) = TurnsOf(ms)
    BY <1>c, <1>e, <2>2, TurnsOfAppend
  <2>4. Len(Append(ms, m)) = Len(ms) + 1 /\ Append(ms, m)[Len(ms) + 1] = m
    BY <1>c
  <2>5. state'.messages[Len(state'.messages)].calls = calls
    BY <1>b, <1>g, <2>4
  <2> QED BY <1>b, <1>c, <1>2, <2>1, <2>3, <2>5 DEF CallTurns
<1> QED BY <1>3, <1>4, <1>5, <1>7, <1>8, <1>9, TurnsConversedNext DEF Work

\* A repair is asked for by a message of its own.
LEMMA RepairKeeps ==
  ASSUME NEW response \in Responses
  PROVE IInv /\ ModelAsksRepair(response) /\ Typed' => Work'
<1> SUFFICES ASSUME IInv, ModelAsksRepair(response), Typed' PROVE Work'
  OBVIOUS
<1> DEFINE ms == state.messages
           heard == Heard(response)
           ask == Message("repair", state.turn, <<>>, TRUE)
<1>a. Typed
  BY DEF IInv
<1>b. /\ at = "model" /\ at' = "continue" /\ route' = FALSE /\ batch' = batch
      /\ response.calls = <<>>
      /\ state'.turn = state.turn /\ state'.toolCalls = state.toolCalls
      /\ state'.messages = heard /\ state'.pending = Append(state.pending, ask)
      /\ state'.remaining = state.remaining /\ state'.artifacts = state.artifacts
  <2>1. /\ at = "model" /\ at' = "continue" /\ route' = FALSE /\ batch' = batch
        /\ response.calls = <<>>
        /\ state' = [turn |-> state.turn, toolCalls |-> state.toolCalls, messages |-> Heard(response),
                     pending |-> Append(state.pending, Message("repair", state.turn, <<>>, TRUE)),
                     remaining |-> state.remaining, artifacts |-> state.artifacts]
    BY <1>a, RepairEffect
  <2> QED BY <2>1
<1>c. /\ ms \in Seq(Messages) /\ state.turn \in Nat /\ state.toolCalls \in Nat
      /\ state.artifacts \in Seq(Nat)
      /\ batch = <<>> /\ state.remaining = <<>> /\ state.pending = <<>> /\ Owed = <<>>
      /\ WholeTurns = TurnsOf(ms)
      /\ Len(WholeTurns) = state.turn - 1 /\ C!TotalCalls(WholeTurns) = state.toolCalls
      /\ state.turn <= MaxTurns
      /\ state.toolCalls = CallsIn(ms) /\ state.toolCalls <= MaxToolCalls
      /\ ArtifactsOnce /\ \A i \in DOMAIN state.artifacts : state.artifacts[i] <= state.toolCalls
  BY <1>b, ModelStarts
<1>d. /\ heard \in Seq(Messages) /\ Answered(heard) /\ Settled(heard)
      /\ CallsIn(heard) = CallsIn(ms) /\ TurnsOf(heard) = TurnsOf(ms)
  BY <1>b, ModelSays
<1>e. /\ ask \in Messages /\ ask.kind = "repair" /\ ask.kind # "tool" /\ ask.calls = <<>>
      /\ <<>> \in CallLists
  <2>1. ask \in Messages /\ ask.kind = "repair" /\ ask.kind # "tool" /\ ask.calls = <<>>
    BY <1>c DEF Messages, Message
  <2> QED BY <2>1, <1>a, <1>b, HeardIs
<1> HIDE DEF ms, heard, ask
<1>1. Owed' = <<>> /\ state'.pending = <<ask>>
  BY <1>b, <1>c DEF Owed
<1>2. Repairing(state'.messages, state'.pending, Owed')
  <2>1. Len(<<ask>>) = 1 /\ <<ask>>[1] = ask
    OBVIOUS
  <2> QED BY <1>b, <1>d, <1>e, <1>1, <2>1 DEF Repairing
<1>3. Answered(Transcript')
  <2>1. heard \o <<ask>> = Append(heard, ask) /\ Append(heard, ask) \in Seq(Messages)
    BY <1>d, <1>e, Nothing
  <2>2. Append(heard, ask) \o <<>> = Append(heard, ask)
    BY <2>1, Nothing
  <2>3. Transcript' = (heard \o <<ask>>) \o <<>>
    BY <1>b, <1>1 DEF Transcript, Expected
  <2>4. Answered(Append(heard, ask))
    BY <1>d, <1>e, AnsweredAppend
  <2> QED BY <2>1, <2>2, <2>3, <2>4
<1>4. Stages'
  BY <1>b, <1>c, <1>1, <1>2 DEF Stages
<1>5. Answering' /\ Batches'
  BY <1>b, <1>c DEF Answering, Batches
<1>6. Counted' /\ Reported'
  <2>1. Len(<<>>) = 0 /\ (\A x \in Nat : 0 <= x /\ x - 0 = x)
    OBVIOUS
  <2> QED BY <1>b, <1>c, <1>d, <1>1, <2>1 DEF Counted, Reported, ArtifactsOnce
<1>7. RepairTurns'
  <2>1. WholeTurns' = WholeTurns
    BY <1>b, <1>c, <1>d, WholeTurnsNext
  <2> QED BY <1>b, <1>c, <1>2, <2>1 DEF RepairTurns
<1> QED BY <1>3, <1>4, <1>5, <1>6, <1>7, TurnsConversedNext DEF Work

\* The answer is the last word.
LEMMA AnswerKeeps ==
  ASSUME NEW response \in Responses
  PROVE IInv /\ ModelAnswers(response) /\ Typed' => Work'
<1> SUFFICES ASSUME IInv, ModelAnswers(response), Typed' PROVE Work'
  OBVIOUS
<1> DEFINE ms == state.messages
           heard == Heard(response)
<1>a. Typed
  BY DEF IInv
<1>b. /\ at = "model" /\ at' = "finish" /\ route' = response.parts /\ batch' = batch
      /\ response.calls = <<>>
      /\ state'.turn = state.turn /\ state'.toolCalls = state.toolCalls
      /\ state'.messages = heard /\ state'.pending = state.pending
      /\ state'.remaining = state.remaining /\ state'.artifacts = state.artifacts
  <2>1. /\ at = "model" /\ at' = "finish" /\ route' = response.parts /\ batch' = batch
        /\ response.calls = <<>>
        /\ state' = [turn |-> state.turn, toolCalls |-> state.toolCalls, messages |-> Heard(response),
                     pending |-> state.pending, remaining |-> state.remaining, artifacts |-> state.artifacts]
    BY <1>a, AnswerEffect
  <2> QED BY <2>1
<1>c. /\ ms \in Seq(Messages) /\ state.turn \in Nat /\ state.toolCalls \in Nat
      /\ state.artifacts \in Seq(Nat)
      /\ batch = <<>> /\ state.remaining = <<>> /\ state.pending = <<>> /\ Owed = <<>>
      /\ WholeTurns = TurnsOf(ms)
      /\ Len(WholeTurns) = state.turn - 1 /\ C!TotalCalls(WholeTurns) = state.toolCalls
      /\ state.turn <= MaxTurns
      /\ state.toolCalls = CallsIn(ms) /\ state.toolCalls <= MaxToolCalls
      /\ ArtifactsOnce /\ \A i \in DOMAIN state.artifacts : state.artifacts[i] <= state.toolCalls
  BY <1>b, ModelStarts
<1>d. /\ heard \in Seq(Messages) /\ Answered(heard) /\ Settled(heard)
      /\ CallsIn(heard) = CallsIn(ms) /\ TurnsOf(heard) = TurnsOf(ms)
      /\ response.parts => /\ Len(heard) > 0
                           /\ heard[Len(heard)].kind = "assistant"
                           /\ heard[Len(heard)].parts
                           /\ heard[Len(heard)].calls = <<>>
  BY <1>b, ModelSays
<1> HIDE DEF ms, heard
<1>1. Owed' = <<>>
  BY <1>b, <1>c DEF Owed
<1>2. Quiet(state'.messages, state'.pending, Owed')
  BY <1>b, <1>c, <1>d, <1>1 DEF Quiet
<1>3. Answered(Transcript')
  <2>1. heard \o <<>> = heard
    BY <1>d, Nothing
  <2>2. Transcript' = (heard \o <<>>) \o <<>>
    BY <1>b, <1>c, <1>1 DEF Transcript, Expected
  <2> QED BY <1>d, <2>1, <2>2
<1>4. Stages'
  BY <1>b, <1>2 DEF Stages
<1>5. Answering' /\ Batches'
  BY <1>b, <1>c, <1>d DEF Answering, Batches
<1>6. Counted' /\ Reported'
  <2>1. Len(<<>>) = 0 /\ (\A x \in Nat : 0 <= x /\ x - 0 = x)
    OBVIOUS
  <2> QED BY <1>b, <1>c, <1>d, <1>1, <2>1 DEF Counted, Reported, ArtifactsOnce
<1>7. QuietTurns'
  <2>1. WholeTurns' = WholeTurns
    BY <1>b, <1>c, <1>d, WholeTurnsNext
  <2> QED BY <1>b, <1>c, <1>2, <2>1 DEF QuietTurns
<1> QED BY <1>3, <1>4, <1>5, <1>6, <1>7, QuietConversedNext DEF Work

-----------------------------------------------------------------------------
\* A list of calls is its first ones and the rest.
LEMMA SplitCalls ==
  ASSUME NEW r \in Seq(Calls), NEW e \in 1..Len(r)
  PROVE /\ SubSeq(r, 1, e) \in Seq(Calls) /\ SubSeq(r, e + 1, Len(r)) \in Seq(Calls)
        /\ Len(SubSeq(r, 1, e)) = e /\ SubSeq(r, 1, e) # <<>>
        /\ \A i \in 1..e : SubSeq(r, 1, e)[i] = r[i]
        /\ SubSeq(r, 1, e) \o SubSeq(r, e + 1, Len(r)) = r
<1>1. Len(r) \in Nat /\ e \in Nat /\ 1 <= e /\ e <= Len(r)
  OBVIOUS
<1>2. SubSeq(r, 1, e) \in Seq(Calls) /\ SubSeq(r, e + 1, Len(r)) \in Seq(Calls)
  BY <1>1
<1>3. Len(SubSeq(r, 1, e)) = e /\ \A i \in 1..e : SubSeq(r, 1, e)[i] = r[i]
  BY <1>1
<1>4. SubSeq(r, 1, e) # <<>>
  BY <1>1, <1>2, <1>3
<1>5. SubSeq(r, 1, e) \o SubSeq(r, e + 1, Len(r)) = SubSeq(r, 1, Len(r))
  BY <1>1, ConcatAdjacentSubSeq
<1>6. SubSeq(r, 1, Len(r)) = r
  OBVIOUS
<1> QED BY <1>2, <1>3, <1>4, <1>5, <1>6

\* What is said of the transcript and of the calls owed stays.
Same ==
  /\ state'.turn = state.turn /\ state'.toolCalls = state.toolCalls
  /\ state'.messages = state.messages /\ state'.pending = state.pending
  /\ state'.artifacts = state.artifacts
  /\ Owed' = Owed

\* So what the invariant says of them stays.
LEMMA SameKeeps ==
  ASSUME IInv, Same
  PROVE /\ Answered(Transcript') /\ Counted' /\ Reported' /\ WholeTurns' = WholeTurns
<1>a. Answered(Transcript) /\ Counted /\ Reported
  BY DEF IInv
<1>1. Transcript' = Transcript
  BY DEF Transcript, Same
<1>2. Counted' /\ Reported'
  BY <1>a DEF Counted, Reported, ArtifactsOnce, Same
<1>3. WholeTurns' = WholeTurns
  BY WholeTurnsOf, WholeTurnsNext DEF Same
<1> QED BY <1>a, <1>1, <1>2, <1>3

\* While calls are owed, the turn they are of is not in the transcript.
LEMMA CallingTurns ==
  ASSUME IInv, Calling(state.messages, state.pending, Owed),
         at \in {"dispatch", "tool", "observe", "suspended", "continue"}
  PROVE /\ Len(WholeTurns) = state.turn - 1
        /\ C!TotalCalls(WholeTurns) + Len(state.messages[Len(state.messages)].calls) = state.toolCalls
BY DEF IInv, Conversed, Nodes

\* A batch is the first of the calls that are left.
LEMMA DispatchKeeps == IInv /\ DispatchTools /\ state.remaining # <<>> /\ Typed' => Work'
<1> SUFFICES ASSUME IInv, DispatchTools, state.remaining # <<>>, Typed' PROVE Work'
  OBVIOUS
<1> DEFINE r == state.remaining
<1>a. Typed /\ Stages
  BY DEF IInv
<1>b. PICK e \in 1..Len(r) :
        /\ e = ToolBatchEnd(r)
        /\ at = "dispatch" /\ at' = "tool"
        /\ state' = [turn |-> state.turn, toolCalls |-> state.toolCalls, messages |-> state.messages,
                     pending |-> state.pending,
                     remaining |-> SubSeq(state.remaining, e + 1, Len(state.remaining)),
                     artifacts |-> state.artifacts]
        /\ batch' = SubSeq(r, 1, e)
  BY <1>a, DispatchEffect
<1>c. r \in Seq(Calls) /\ r # <<>>
  BY <1>a, Parts
<1> HIDE DEF r
<1>d. /\ SubSeq(r, 1, e) \in Seq(Calls) /\ SubSeq(r, e + 1, Len(r)) \in Seq(Calls)
      /\ Len(SubSeq(r, 1, e)) = e /\ SubSeq(r, 1, e) # <<>>
      /\ \A i \in 1..e : SubSeq(r, 1, e)[i] = r[i]
      /\ SubSeq(r, 1, e) \o SubSeq(r, e + 1, Len(r)) = r
  BY <1>c, SplitCalls
<1>e. state'.remaining = SubSeq(r, e + 1, Len(r))
  BY <1>b DEF r
<1>f. Calling(state.messages, state.pending, Owed) /\ batch = <<>>
  BY <1>a, <1>b DEF Stages
<1>1. Owed' = Owed
  <2>1. Owed = r
    BY <1>c, <1>f, Nothing DEF Owed, r
  <2>2. Owed' = SubSeq(r, 1, e) \o SubSeq(r, e + 1, Len(r))
    BY <1>b, <1>e DEF Owed
  <2> QED BY <1>d, <2>1, <2>2
<1>2. Same
  BY <1>b, <1>1 DEF Same
<1>3. Answered(Transcript') /\ Counted' /\ Reported' /\ WholeTurns' = WholeTurns
  BY <1>2, SameKeeps
<1>4. Calling(state'.messages, state'.pending, Owed')
  BY <1>2, <1>f DEF Same
<1>5. Stages' /\ Answering'
  BY <1>b, <1>d, <1>4 DEF Stages, Answering
<1>6. Batches'
  <2>1. \A i \in 1..ToolBatchEnd(r) : IsInvokable(r[i]) => ToolBatchEnd(r) = 1
    BY <1>c, BatchEnds
  <2>2. DOMAIN batch' = 1..e /\ Len(batch') = e
    BY <1>b, <1>d
  <2> QED BY <1>b, <1>d, <2>1, <2>2 DEF Batches
<1>7. CallTurns'
  <2>1. /\ Len(WholeTurns) = state.turn - 1
        /\ C!TotalCalls(WholeTurns) + Len(state.messages[Len(state.messages)].calls) = state.toolCalls
    BY <1>b, <1>f, CallingTurns
  <2> QED BY <1>b, <1>2, <1>3, <1>4, <2>1 DEF CallTurns, Same
<1> QED BY <1>3, <1>5, <1>6, <1>7, TurnsConversedNext DEF Work

\* Messages may be taken together in any way.
LEMMA ConcatMessages ==
  \A a, b, c \in Seq(Messages) : a \o b \in Seq(Messages) /\ (a \o b) \o c = a \o (b \o c)
<1>1. \A a, b \in Seq(Messages) : a \o b \in Seq(Messages)
  OBVIOUS
<1>2. \A a, b, c \in Seq(Messages) : (a \o b) \o c = a \o (b \o c)
  BY ConcatThree
<1> QED BY <1>1, <1>2

\* Nor does it matter which of two neighbours a message is taken with.
Rearranged(a, b, c, d) == (a \o (b \o c)) \o d = (a \o b) \o (c \o d)

\* Four of them, taken in the two ways.
LEMMA ConcatFour ==
  ASSUME NEW a \in Seq(Messages), NEW b \in Seq(Messages), NEW c \in Seq(Messages), NEW d \in Seq(Messages)
  PROVE Rearranged(a, b, c, d)
<1>1. a \o b \in Seq(Messages) /\ (a \o b) \o c = a \o (b \o c)
  BY ConcatMessages
<1>2. ((a \o b) \o c) \o d = (a \o b) \o (c \o d)
  BY <1>1, ConcatMessages
<1> QED BY <1>1, <1>2 DEF Rearranged

\* A batch that is observed is not owed any more.
LEMMA ObserveKeeps == IInv /\ ObserveTools /\ Typed' => Work'
<1> SUFFICES ASSUME IInv, ObserveTools, Typed' PROVE Work'
  OBVIOUS
<1> DEFINE ms == state.messages
           p == state.pending
           r == state.remaining
<1>a. Typed /\ Branches /\ Answered(Transcript) /\ Stages /\ Counted /\ Reported
  BY DEF IInv
<1>b. /\ at = "observe" /\ at' = "continue" /\ route' = (r # <<>>) /\ batch' = <<>>
      /\ state'.turn = state.turn /\ state'.toolCalls = state.toolCalls
      /\ state'.messages = ms /\ state'.pending = p \o [i \in DOMAIN batch |-> Observation(i)]
      /\ state'.remaining = r
      /\ state'.artifacts = state.artifacts \o FlattenSeq([i \in DOMAIN batch |-> Refs(i)])
  <2>1. /\ at = "observe" /\ at' = "continue" /\ route' = (state.remaining # <<>>) /\ batch' = <<>>
        /\ state' = [turn |-> state.turn, toolCalls |-> state.toolCalls, messages |-> state.messages,
                     pending |-> state.pending \o [i \in DOMAIN batch |-> Observation(i)],
                     remaining |-> state.remaining,
                     artifacts |-> state.artifacts \o FlattenSeq([i \in DOMAIN batch |-> Refs(i)])]
    BY <1>a, ObserveEffect
  <2> QED BY <2>1
<1>c. /\ ms \in Seq(Messages) /\ p \in Seq(Observations) /\ p \in Seq(Messages)
      /\ r \in Seq(Calls) /\ batch \in Seq(Calls) /\ Len(Owed) = Len(batch) + Len(r)
      /\ Len(batch) \in Nat /\ Len(r) \in Nat /\ state.toolCalls \in Nat
  BY <1>a, Parts
<1>d. [i \in DOMAIN batch |-> Observation(i)] = Expected(batch)
  BY <1>a, <1>b, ObservedBatch
<1>e. /\ state'.artifacts \in Seq(Nat)
      /\ Ascending(state'.artifacts, state.toolCalls - Len(r))
  BY <1>a, <1>b, ReportedBatch
<1>f. Calling(ms, p, batch \o r)
  BY <1>a, <1>b DEF Stages, Owed
<1> HIDE DEF ms, p, r
<1>1. Owed' = r
  BY <1>b, <1>c, Nothing DEF Owed
<1>2. Calling(state'.messages, state'.pending, Owed')
  <2>1. Calling(ms, p \o Expected(batch), r)
    BY <1>c, <1>f, CallingGoesOn
  <2>2. state'.messages = ms /\ state'.pending = p \o Expected(batch)
    BY <1>b, <1>d
  <2> QED BY <1>1, <2>1, <2>2
<1>3. Answered(Transcript')
  <2>1. /\ Expected(batch) \in Seq(Messages) /\ Expected(r) \in Seq(Messages)
    <3>1. Expected(batch) \in Seq(Observations) /\ Expected(r) \in Seq(Observations)
      BY <1>c, ExpectedType
    <3> QED BY <3>1, MessageTypes
  <2>2. Expected(batch \o r) = Expected(batch) \o Expected(r)
    BY <1>c, ExpectedConcat
  <2>3. Transcript' = (ms \o (p \o Expected(batch))) \o Expected(r)
    BY <1>b, <1>d, <1>1 DEF Transcript, Expected
  <2>4. Transcript = (ms \o p) \o (Expected(batch) \o Expected(r))
    BY <2>2 DEF Transcript, Owed, ms, p, r
  <2>5. (ms \o (p \o Expected(batch))) \o Expected(r) = (ms \o p) \o (Expected(batch) \o Expected(r))
    <3>1. ms \in Seq(Messages) /\ p \in Seq(Messages)
      BY <1>c
    <3>2. Rearranged(ms, p, Expected(batch), Expected(r))
      BY <2>1, <3>1, ConcatFour
    <3> QED BY <3>2 DEF Rearranged
  <2>6. Transcript' = Transcript
    BY <2>3, <2>4, <2>5
  <2> QED BY <1>a, <2>6
<1>4. Stages' /\ Answering' /\ Batches'
  <2>1. Stages'
    BY <1>b, <1>1, <1>2 DEF Stages
  <2> QED BY <1>b, <2>1 DEF Answering, Batches
<1>5. Counted'
  <2>1. \A x, y, top \in Nat : x + y <= top => y <= top
    OBVIOUS
  <2>2. Len(batch) + Len(r) <= state.toolCalls
    BY <1>a, <1>c DEF Counted
  <2>3. Len(r) <= state.toolCalls
    BY <1>c, <2>1, <2>2
  <2> QED BY <1>a, <1>b, <1>1, <2>3 DEF Counted, ms
<1>6. Reported'
  BY <1>b, <1>e, <1>1 DEF Reported, ArtifactsOnce, Ascending
<1>7. CallTurns'
  <2>1. /\ Len(WholeTurns) = state.turn - 1
        /\ C!TotalCalls(WholeTurns) + Len(ms[Len(ms)].calls) = state.toolCalls
    BY <1>b, <1>f, CallingTurns DEF Owed, ms, p, r
  <2>2. WholeTurns' = WholeTurns
    BY <1>b, WholeTurnsOf, WholeTurnsNext DEF ms
  <2> QED BY <1>b, <1>2, <2>1, <2>2 DEF CallTurns
<1> QED BY <1>3, <1>4, <1>5, <1>6, <1>7, TurnsConversedNext DEF Work

\* Every other step moves on.
LEMMA MoveKeeps == IInv /\ Move /\ Typed' => Work'
<1> SUFFICES ASSUME IInv, Move, Typed' PROVE Work'
  OBVIOUS
<1>a. Typed /\ Stages /\ Answering /\ Batches /\ Conversed
  BY DEF IInv
<1>b. state' = state /\ batch' = batch /\ route' = route
  BY DEF Move
<1>c. Same
  BY <1>b DEF Same, Owed
<1>1. Answered(Transcript') /\ Counted' /\ Reported' /\ WholeTurns' = WholeTurns
  BY <1>c, SameKeeps
<1>2. Batches'
  BY <1>a, <1>b DEF Batches
<1>d. Owed' = Owed
  BY <1>c DEF Same
<1>3. ASSUME at \in {"tool", "suspended", "continue"}, Calling(state.messages, state.pending, Owed),
             at' \in {"tool", "suspended", "observe", "dispatch", "prepare"}
      PROVE Conversed'
  <2>1. /\ Len(WholeTurns) = state.turn - 1
        /\ C!TotalCalls(WholeTurns) + Len(state.messages[Len(state.messages)].calls) = state.toolCalls
    BY <1>3, CallingTurns
  <2>2. CallTurns'
    BY <1>3, <1>b, <1>d, <1>1, <2>1 DEF CallTurns
  <2> QED BY <2>2, TurnsConversedNext
<1>4. CASE at' = at
  <2>1. Stages'
    BY <1>a, <1>b, <1>d, <1>4 DEF Stages
  <2>2. Answering'
    BY <1>a, <1>b, <1>4 DEF Answering
  <2>3. Conversed'
    BY <1>a, <1>b, <1>d, <1>1, <1>4 DEF Conversed
  <2> QED BY <1>1, <1>2, <2>1, <2>2, <2>3 DEF Work
<1>5. CASE at' = "failed"
  <2>1. Stages' /\ Answering' /\ Conversed'
    BY <1>5 DEF Stages, Answering, Conversed, Nodes
  <2> QED BY <1>1, <1>2, <2>1 DEF Work
<1>6. CASE at = "continue" /\ at' = IF route THEN "dispatch" ELSE "prepare"
  <2>1. /\ batch = <<>>
        /\ route <=> Owed # <<>>
        /\ \/ Repairing(state.messages, state.pending, Owed)
           \/ Calling(state.messages, state.pending, Owed)
    BY <1>a, <1>6 DEF Stages
  <2>2. Answering'
    BY <1>6 DEF Answering
  <2>3. CASE route
    <3>1. Calling(state.messages, state.pending, Owed)
      BY <2>1, <2>3 DEF Repairing
    <3>2. state.remaining # <<>>
      BY <2>1, <2>3 DEF Owed
    <3>3. at' = "dispatch"
      BY <1>6, <2>3
    <3>4. Stages'
      BY <1>b, <1>d, <2>1, <3>1, <3>2, <3>3 DEF Stages
    <3> QED BY <1>1, <1>2, <1>3, <1>6, <2>2, <3>1, <3>3, <3>4 DEF Work
  <2>4. CASE ~route
    <3>1. at' = "prepare" /\ Owed = <<>>
      BY <1>6, <2>1, <2>4
    <3>2. Stages'
      BY <1>b, <1>d, <2>1, <3>1 DEF Stages
    <3>3. CASE Calling(state.messages, state.pending, Owed)
      BY <1>1, <1>2, <1>3, <1>6, <2>2, <3>1, <3>2, <3>3 DEF Work
    <3>4. CASE Repairing(state.messages, state.pending, Owed)
      <4>1. Len(WholeTurns) = state.turn - 1 /\ C!TotalCalls(WholeTurns) = state.toolCalls
        BY <1>a, <1>6, <3>4 DEF Conversed, Nodes
      <4>2. RepairTurns'
        BY <1>b, <1>d, <1>1, <3>1, <3>4, <4>1 DEF RepairTurns
      <4> QED BY <1>1, <1>2, <2>2, <3>2, <4>2, TurnsConversedNext DEF Work
    <3> QED BY <2>1, <3>3, <3>4
  <2> QED BY <2>3, <2>4
<1>7. CASE at = "finish" /\ route /\ at' = "done"
  <2>1. Stages'
    BY <1>a, <1>b, <1>d, <1>7 DEF Stages
  <2>2. Answering'
    BY <1>a, <1>b, <1>7 DEF Answering
  <2>3. Conversed'
    BY <1>7 DEF Conversed, Nodes
  <2> QED BY <1>1, <1>2, <2>1, <2>2, <2>3 DEF Work
<1>8. CASE /\ at \in {"tool", "suspended"}
           /\ at' \in {"tool", "suspended", "observe"}
  <2>1. Calling(state.messages, state.pending, Owed) /\ batch # <<>>
    BY <1>a, <1>8 DEF Stages
  <2>2. Stages' /\ Answering'
    BY <1>b, <1>d, <1>8, <2>1 DEF Stages, Answering
  <2> QED BY <1>1, <1>2, <1>3, <1>8, <2>1, <2>2 DEF Work
<1> QED BY <1>4, <1>5, <1>6, <1>7, <1>8 DEF Move

-----------------------------------------------------------------------------
\* A run starts with the input: no turn and no call is taken yet.
LEMMA NoTurns ==
  /\ Input \in Messages /\ Input.kind = "input" /\ Input.calls = <<>>
  /\ <<Input>> \in Seq(Messages)
  /\ Answered(<<Input>>) /\ Settled(<<Input>>)
  /\ CallsIn(<<Input>>) = 0
  /\ TurnsOf(<<Input>>) = <<>>
  /\ C!TotalCalls(<<>>) = 0
<1>1. Input \in Messages /\ Input.kind = "input" /\ Input.calls = <<>>
  BY DEF Input, Message, NoId, Messages
<1>2. \A m \in Messages : m.calls \in Seq(Calls) /\ Len(m.calls) \in Nat
  BY MessageTypes
<1>3. <<>> \in Seq(Messages) /\ Len(<<>>) = 0 /\ <<Input>> = Append(<<>>, Input) /\ <<Input>> \in Seq(Messages)
  BY <1>1
<1>4. Settled(<<>>) /\ Answered(<<>>)
  BY DEF Settled, Answered
<1>5. Settled(<<Input>>)
  BY <1>1, <1>3, <1>4, SettledAppend
<1>6. Answered(<<Input>>)
  BY <1>1, <1>3, <1>4, AnsweredAppend
<1>7. CallsIn(<<Input>>) = 0
  <2>1. CallsIn(<<>>) = 0
    <3>1. PICK T \in Sums(<<>>) : CallsIn(<<>>) = T[Len(<<>>)]
      BY <1>2, <1>3, CallsAreSummed
    <3> QED BY <1>3, <3>1 DEF Sums
  <2>2. CallsIn(Append(<<>>, Input)) = CallsIn(<<>>) + Len(Input.calls)
    BY <1>1, <1>2, <1>3, CallsOfAppend
  <2> QED BY <1>1, <1>3, <2>1, <2>2
<1>8. TurnsOf(<<Input>>) = <<>>
  <2>1. TurnsOf(<<>>) = <<>>
    <3>1. PICK T \in TurnLists(<<>>) : TurnsOf(<<>>) = T[Len(<<>>)]
      BY <1>2, <1>3, TurnsAreCollected
    <3> QED BY <1>3, <3>1 DEF TurnLists
  <2>2. TurnsOf(Append(<<>>, Input)) = TurnsOf(<<>>)
    BY <1>1, <1>2, <1>3, <1>4, TurnsOfAppend
  <2> QED BY <1>3, <2>1, <2>2
<1>9. C!TotalCalls(<<>>) = 0
  <2>1. <<>> \in Seq(Seq(Calls))
    OBVIOUS
  <2>2. PICK T \in TurnSums(<<>>) : TotalOf(<<>>) = T[Len(<<>>)]
    BY <2>1, TurnsAreSummed
  <2>3. TotalOf(<<>>) = 0
    BY <1>3, <2>2 DEF TurnSums
  <2> QED BY <2>3, TotalCallsIs
<1> QED BY <1>1, <1>3, <1>5, <1>6, <1>7, <1>8, <1>9

\* IInv holds when a run starts.
LEMMA Starts == Init => IInv
<1> SUFFICES ASSUME Init PROVE IInv
  OBVIOUS
<1>a. /\ state = [turn |-> 0, toolCalls |-> 0, messages |-> <<Input>>, pending |-> <<>>,
                  remaining |-> <<>>, artifacts |-> <<>>]
      /\ at = "prepare" /\ route = FALSE /\ batch = <<>> /\ branch = <<>>
      /\ crashes = 0 /\ interrupts = 0
  BY DEF Init
<1>b. /\ state.turn = 0 /\ state.toolCalls = 0 /\ state.messages = <<Input>> /\ state.pending = <<>>
      /\ state.remaining = <<>> /\ state.artifacts = <<>>
  BY <1>a
<1>c. Owed = <<>>
  BY <1>a, <1>b DEF Owed
<1>1. Typed
  <2>1. state \in State
    <3>1. /\ <<>> \in Seq(Observations) /\ <<>> \in Seq(Calls) /\ <<>> \in Seq(Nat)
          /\ <<Input>> \in Seq(Messages) /\ 0 \in Nat
      BY NoTurns
    <3> QED BY <1>a, <3>1, StateParts
  <2>2. MaxCrashes \in Nat /\ MaxInterrupts \in Nat
    BY ReactAssumption
  <2>3. batch \in Seq(Calls) /\ branch \in [DOMAIN batch -> [status : Statuses, outcome : Outcomes]]
    BY <1>a
  <2>4. crashes \in 0..MaxCrashes /\ interrupts \in 0..MaxInterrupts
    BY <1>a, <2>2
  <2>5. at \in Nodes \cup Ended \cup {"suspended"} /\ route \in BOOLEAN
    BY <1>a DEF Nodes
  <2> QED BY <2>1, <2>3, <2>4, <2>5 DEF Typed
<1>2. Branches
  <2>1. With("running") = {}
    BY <1>a DEF With
  <2>2. Cardinality({}) = 0 /\ MaxParallelTools \in Nat
    BY FS_EmptySet, Limits
  <2>3. Cardinality(With("running")) <= MaxParallelTools
    BY <2>1, <2>2
  <2> QED BY <1>a, <2>3 DEF Branches
<1>3. Answered(Transcript)
  <2>1. Transcript = (<<Input>> \o <<>>) \o <<>>
    BY <1>b, <1>c, Nothing DEF Transcript
  <2>2. <<Input>> \in Seq(Messages) /\ Answered(<<Input>>)
    BY NoTurns
  <2> QED BY <2>1, <2>2, Nothing
<1>4. Quiet(state.messages, state.pending, Owed)
  BY <1>b, <1>c, NoTurns DEF Quiet
<1>5. Stages /\ Answering /\ Batches
  BY <1>a, <1>c, <1>4 DEF Stages, Answering, Batches
<1>6. Counted /\ Reported
  <2>1. Len(<<>>) = 0 /\ CallsIn(<<Input>>) = 0 /\ 0 <= MaxTurns /\ 0 <= MaxToolCalls
    BY NoTurns, Limits
  <2> QED BY <1>b, <1>c, <2>1 DEF Counted, Reported, ArtifactsOnce
<1>7. Conversed
  <2>1. WholeTurns = <<>>
    BY <1>b, WholeTurnsOf, NoTurns
  <2>2. Len(<<>>) = 0
    OBVIOUS
  <2>3. QuietTurns
    BY <1>a, <1>b, <1>1, <1>4, <2>1, <2>2, NoTurns DEF QuietTurns
  <2> QED BY <2>3, QuietConversed
<1> QED BY <1>1, <1>2, <1>3, <1>5, <1>6, <1>7 DEF IInv

\* IInv is inductive.
LEMMA Keeps == IInv /\ [Next]_vars => IInv'
<1> SUFFICES ASSUME IInv, [Next]_vars PROVE IInv'
  OBVIOUS
<1>1. Typed' /\ Branches'
  BY BranchesKeep
<1>2. Change \/ Move
  <2>1. Typed
    BY DEF IInv
  <2> QED BY <2>1, StepKinds
<1>3. Work'
  BY <1>1, <1>2, PrepareKeeps, CallsKeeps, RepairKeeps, AnswerKeeps, DispatchKeeps, ObserveKeeps, MoveKeeps
     DEF Change
<1> QED BY <1>1, <1>3 DEF IInv, Work

\* So it holds in every run.
LEMMA Invariant == Spec => []IInv
BY Starts, Keeps, PTL DEF Spec

-----------------------------------------------------------------------------
\* What the state of a run is: every State keeps its parts, a branch stands
\* for a call of the batch, and there is a batch only while it is worked on
\* (TypeOK of React).
THEOREM TypeCorrect == Spec => []TypeOK
<1>1. IInv => TypeOK
  <2> SUFFICES ASSUME IInv PROVE TypeOK
    OBVIOUS
  <2>1. Typed /\ Branches /\ Stages
    BY DEF IInv
  <2>2. DOMAIN branch = DOMAIN batch /\ batch \in Seq(Calls)
    BY <2>1 DEF Typed
  <2>3. \A i \in DOMAIN branch : branch[i].status \in Statuses
    <3> TAKE i \in DOMAIN branch
    <3>1. branch[i] \in [status : Statuses, outcome : Outcomes]
      BY <2>1 DEF Typed
    <3> QED BY <3>1
  <2>4. \A i \in DOMAIN branch : branch[i].status = "settled" => OutcomeAccepted(batch[i], branch[i].outcome)
    BY <2>1, <2>2 DEF Branches
  <2>5. batch # <<>> => at \in {"tool", "observe", "suspended", "failed"}
    <3>1. ASSUME at \in {"model", "finish", "done"} PROVE batch = <<>>
      <4>1. Owed = <<>>
        BY <2>1, <3>1 DEF Stages, Quiet
      <4> QED BY <2>1, <4>1, NothingOwed
    <3>2. at = "prepare" => Owed = <<>>
      BY <2>1 DEF Stages
    <3>3. at \in {"continue", "dispatch"} => batch = <<>>
      BY <2>1 DEF Stages
    <3> QED BY <2>1, <3>1, <3>2, <3>3, NothingOwed DEF Typed, Nodes, Ended
  <2> QED BY <2>1, <2>2, <2>3, <2>4, <2>5 DEF TypeOK, Typed, Statuses
<1> QED BY <1>1, Invariant, PTL

\* Whatever the model answers, and however the calls settle, crash and
\* interrupt, a run takes no more turns, asks for no more calls and runs no
\* more tools at once than its Limits allow, and the calls it has counted are
\* those its transcript holds (react.go:162, 135).
THEOREM LimitsHold == Spec => []WithinLimits
<1>1. IInv => state.turn <= MaxTurns /\ state.toolCalls = CallsIn(state.messages)
              /\ state.toolCalls <= MaxToolCalls /\ Cardinality(With("running")) <= MaxParallelTools
  BY DEF IInv, Counted, Branches
<1> QED BY <1>1, Invariant, TypeCorrect, PTL DEF WithinLimits

\* The transcript is whole when the model is called and when the run is done:
\* every call is answered, once, at once and in order, no tool message answers
\* nothing, no artifact is reported twice, and the answer is the last word
\* (react.go:166, 234, 566).
THEOREM TranscriptsAreWhole == Spec => []TranscriptIsWhole
<1>1. IInv => TranscriptIsWhole
  <2> SUFFICES ASSUME IInv PROVE TranscriptIsWhole
    OBVIOUS
  <2> DEFINE ms == state.messages
  <2>a. Typed /\ Answered(Transcript) /\ Stages /\ Answering /\ Reported
    BY DEF IInv
  <2>b. ms \in Seq(Messages) /\ state.remaining \in Seq(Calls)
    BY <2>a, Parts
  <2>1. ASSUME at \in {"model", "done"}
        PROVE Answered(ms) /\ state.pending = <<>> /\ Owed = <<>>
    <3>1. state.pending = <<>> /\ Owed = <<>>
      BY <2>a, <2>1 DEF Stages, Quiet
    <3>2. Transcript = (ms \o <<>>) \o <<>>
      BY <3>1, Nothing DEF Transcript
    <3>3. Transcript = ms
      BY <2>b, <3>2, Nothing
    <3> QED BY <2>a, <3>1, <3>3
  <2>2. OneAnswerPerCall
    <3> SUFFICES ASSUME at \in {"model", "done"}
                 PROVE LET Answers(k) == {i \in 1..(k - 1) : k - i <= Len(ms[i].calls)}
                       IN  /\ \A i \in DOMAIN ms : \A j \in DOMAIN ms[i].calls :
                                /\ i + j \in DOMAIN ms
                                /\ ms[i + j].kind = "tool"
                                /\ ms[i + j].id = ms[i].calls[j].id
                           /\ \A k \in DOMAIN ms : ms[k].kind = "tool" => Answers(k) # {}
      BY DEF OneAnswerPerCall
    <3>1. Answered(ms)
      BY <2>1
    <3> HIDE DEF ms
    <3> QED BY <3>1 DEF Answered
  <2>3. ArtifactsOnce
    BY <2>a DEF Reported
  <2>4. DoneIsAnswered
    <3> SUFFICES ASSUME at = "done"
                 PROVE /\ Last(ms).kind = "assistant"
                       /\ Last(ms).parts
                       /\ Last(ms).calls = <<>>
                       /\ state.pending = <<>>
                       /\ state.remaining = <<>>
      BY DEF DoneIsAnswered
    <3>1. ms[Len(ms)].kind = "assistant" /\ ms[Len(ms)].parts /\ ms[Len(ms)].calls = <<>>
      BY <2>a DEF Answering
    <3>2. state.pending = <<>> /\ state.remaining = <<>>
      BY <2>a, <2>1, NothingOwed
    <3> QED BY <3>1, <3>2 DEF Last
  <2> QED BY <2>2, <2>3, <2>4 DEF TranscriptIsWhole
<1> QED BY <1>1, Invariant, PTL

\* A branch starts in the tool node only.
LEMMA ToolsStartThere ==
  ASSUME IInv, [Next]_vars, NEW i \in DOMAIN branch, i \in DOMAIN branch',
         branch[i].status = "ready", branch'[i].status = "running"
  PROVE at = "tool"
<1> SUFFICES ASSUME at # "tool" PROVE FALSE
  OBVIOUS
<1>a. Typed
  BY DEF IInv
<1>1. CASE UNCHANGED branch
  BY <1>1
<1>2. CASE \E kept \in SUBSET With("settled") : Crash(kept)
  <2>1. branch'[i] = branch[i] \/ branch'[i] = Ready
    BY <1>2 DEF Crash
  <2> QED BY <2>1, ReadyIs
<1>3. CASE Resume
  <2>1. branch'[i] = branch[i] \/ branch'[i] = Ready
    BY <1>3 DEF Resume
  <2> QED BY <2>1, ReadyIs
<1>4. CASE DispatchTools /\ state.remaining # <<>>
  <2>1. \E end \in 1..Len(state.remaining) : branch' = [k \in 1..end |-> Ready]
    BY <1>a, <1>4, DispatchEffect
  <2>2. branch'[i] = Ready
    BY <2>1
  <2> QED BY <2>2, ReadyIs
<1>5. CASE ObserveTools
  BY <1>5 DEF ObserveTools
<1>6. ASSUME NEW k \in DOMAIN batch, ToolStep(k) PROVE FALSE
  BY <1>6 DEF ToolStep, StartTool, ToolSettles, ToolInterrupts
<1>7. CASE \E response \in Responses : ModelTurn(response)
  <2>1. UNCHANGED branch
    BY <1>7 DEF ModelTurn, ModelCallsTools, ModelAsksRepair, ModelAnswers, ModelRejected, Fail
  <2> QED BY <1>1, <2>1
<1>8. CASE Prepare \/ PrepareExhausted \/ ModelFails \/ Continue \/ Finish \/ FinishEmpty
  <2>1. UNCHANGED branch
    BY <1>8 DEF Prepare, PrepareExhausted, ModelFails, Continue, Finish, FinishEmpty, Fail
  <2> QED BY <1>1, <2>1
<1>9. CASE DispatchTools /\ state.remaining = <<>>
  <2>1. UNCHANGED branch
    BY <1>9 DEF DispatchTools, Fail
  <2> QED BY <1>1, <2>1
<1>10. CASE ToolsSettled \/ ToolsFailed \/ ToolsSuspend
  BY <1>10 DEF ToolsSettled, ToolsFailed, ToolsSuspend
<1>11. UNCHANGED vars => UNCHANGED branch
  BY DEF vars
<1> QED BY <1>1, <1>2, <1>3, <1>4, <1>5, <1>6, <1>7, <1>8, <1>9, <1>10, <1>11 DEF Next, NodeStep

\* A call of an invokable tool starts when every call before it is observed,
\* and none after it starts before it is (react.go:404).
THEOREM BarrierHolds == Spec => InvokableIsBarrier
<1> DEFINE Waits ==
      \A i \in DOMAIN branch :
        (branch[i].status = "ready" /\ i \in DOMAIN branch' /\ branch'[i].status = "running") =>
          LET calls == Last(state.messages).calls
              observed == Len(state.pending)
              k == observed + i
          IN  /\ calls[k] = batch[i]
              /\ IsInvokable(calls[k]) => k = observed + 1
              /\ \A j \in 1..(k - 1) : IsInvokable(calls[j]) => j <= observed
<1>1. IInv /\ [Next]_vars => Waits
  <2> SUFFICES ASSUME IInv, [Next]_vars,
                      NEW i \in DOMAIN branch, branch[i].status = "ready",
                      i \in DOMAIN branch', branch'[i].status = "running"
               PROVE LET calls == Last(state.messages).calls
                         observed == Len(state.pending)
                         k == observed + i
                     IN  /\ calls[k] = batch[i]
                         /\ IsInvokable(calls[k]) => k = observed + 1
                         /\ \A j \in 1..(k - 1) : IsInvokable(calls[j]) => j <= observed
    OBVIOUS
  <2> DEFINE calls == state.messages[Len(state.messages)].calls
             observed == Len(state.pending)
             n == Len(batch)
  <2>a. Typed /\ Stages /\ Batches
    BY DEF IInv
  <2>b. /\ batch \in Seq(Calls) /\ state.remaining \in Seq(Calls)
        /\ state.pending \in Seq(Observations) /\ DOMAIN branch = DOMAIN batch
    BY <2>a, Parts DEF Typed
  <2>c. at = "tool"
    BY ToolsStartThere
  <2>d. Calling(state.messages, state.pending, Owed)
    BY <2>a, <2>c DEF Stages
  <2>e. i \in 1..n /\ i \in Nat /\ n \in Nat /\ observed \in Nat
    BY <2>b
  <2>f. \A j \in 1..n : j \in 1..Len(Owed) /\ Owed[j] = batch[j]
    BY <2>b DEF Owed
  <2>1. \A j \in 1..n : calls[observed + j] = batch[j]
    BY <2>d, <2>f DEF Calling
  <2>2. \A j \in 1..n : IsInvokable(batch[j]) => n = 1
    BY <2>a, <2>b DEF Batches
  <2> HIDE DEF calls, observed, n
  <2>3. IsInvokable(calls[observed + i]) => observed + i = observed + 1
    <3>1. IsInvokable(batch[i]) => i = 1
      BY <2>2, <2>e
    <3> QED BY <2>1, <2>e, <3>1
  <2>4. ASSUME NEW j \in 1..((observed + i) - 1), IsInvokable(calls[j]), ~(j <= observed) PROVE FALSE
    <3>1. \A o, x, y, z \in Nat : x \in 1..((o + y) - 1) /\ ~(x <= o) /\ y \in 1..z =>
            x - o \in 1..z /\ o + (x - o) = x /\ z # 1
      OBVIOUS
    <3>2. j \in Nat
      BY <2>e
    <3>3. j - observed \in 1..n /\ observed + (j - observed) = j /\ n # 1
      BY <2>e, <2>4, <3>1, <3>2
    <3>4. IsInvokable(batch[j - observed])
      BY <2>1, <2>4, <3>3
    <3> QED BY <2>2, <3>3, <3>4
  <2> QED BY <2>1, <2>3, <2>4, <2>e DEF Last, calls, observed
<1> QED BY <1>1, Invariant, PTL DEF Spec, InvokableIsBarrier

-----------------------------------------------------------------------------
\* What the model says takes no turn yet: its calls are not answered.
LEMMA HeardTurns ==
  ASSUME IInv, at = "model", NEW response \in Responses
  PROVE TurnsOf(Heard(response)) = TurnsOf(state.messages)
<1>1. Typed
  BY DEF IInv
<1>2. state.messages \in Seq(Messages) /\ Settled(state.messages)
  BY ModelStarts
<1>3. \A m \in Messages : m.calls \in Seq(Calls)
  BY MessageTypes
<1>4. \A m \in Messages : m.kind = "assistant" => TurnsOf(Append(state.messages, m)) = TurnsOf(state.messages)
  <2> TAKE m \in Messages
  <2>1. m.kind = "assistant" => m.kind # "repair"
    OBVIOUS
  <2> QED BY <1>2, <1>3, <2>1, TurnsOfAppend
<1>5. \/ Heard(response) = state.messages
      \/ \E m \in Messages : m.kind = "assistant" /\ Heard(response) = Append(state.messages, m)
  BY <1>1, HeardIs
<1>6. CASE \E m \in Messages : m.kind = "assistant" /\ Heard(response) = Append(state.messages, m)
  <2>1. PICK m \in Messages : m.kind = "assistant" /\ Heard(response) = Append(state.messages, m)
    BY <1>6
  <2>2. TurnsOf(Append(state.messages, m)) = TurnsOf(state.messages)
    BY <1>4, <2>1
  <2> QED BY <2>1, <2>2
<1> QED BY <1>5, <1>6

\* The abstract status of a run.
Status == IF at \in Ended THEN at ELSE "running"

\* A run does what Conversation says: its transcript grows by whole turns, of
\* calls that a response made and within the limits, and it ends once
\* (react.go:162).  prepare is the step that takes a turn.
THEOREM RunIsConversation == Spec => ImplementsConversation
<1>1. Init => C!Init
  <2> SUFFICES ASSUME Init PROVE C!Init
    OBVIOUS
  <2>1. WholeTurns = <<>>
    <3>1. state.messages = <<Input>>
      BY DEF Init
    <3> QED BY <3>1, WholeTurnsOf, NoTurns
  <2> QED BY <2>1 DEF Init, C!Init, Ended
<1>2. IInv /\ [Next]_vars => [C!Next]_<<WholeTurns, Status>>
  <2> SUFFICES ASSUME IInv, [Next]_vars PROVE [C!Next]_<<WholeTurns, Status>>
    OBVIOUS
  <2>a. Typed /\ Counted /\ Conversed
    BY DEF IInv
  <2>b. state.turn \in Nat /\ state.turn <= MaxTurns /\ state.toolCalls <= MaxToolCalls
    BY <2>a, Parts DEF Counted
  <2>c. MaxTurns \in Nat /\ (\A x, y \in Nat : x <= y => x - 1 < y)
    BY Limits
  <2>1. CASE Prepare
    <3>1. at = "prepare" /\ at' = "model"
      BY <2>1 DEF Prepare, Commit
    <3>2. Status = "running" /\ Status' = "running"
      BY <3>1 DEF Status, Ended
    <3>3. \/ WholeTurns' = WholeTurns
          \/ \E calls \in CallLists :
               /\ WholeTurns' = Append(WholeTurns, calls)
               /\ Len(WholeTurns) = state.turn - 1
               /\ C!TotalCalls(WholeTurns) + Len(calls) = state.toolCalls
      BY <2>1, TurnTaken
    <3>4. CASE \E calls \in CallLists :
                 /\ WholeTurns' = Append(WholeTurns, calls)
                 /\ Len(WholeTurns) = state.turn - 1
                 /\ C!TotalCalls(WholeTurns) + Len(calls) = state.toolCalls
      <4>1. Len(WholeTurns) < MaxTurns
        BY <2>b, <2>c, <3>4
      <4>2. \E calls \in {response.calls : response \in Responses} :
              /\ C!TotalCalls(WholeTurns) + Len(calls) <= MaxToolCalls
              /\ WholeTurns' = Append(WholeTurns, calls)
        BY <2>b, <3>4 DEF CallLists
      <4>3. C!Turn
        BY <3>2, <4>1, <4>2 DEF C!Turn, Status
      <4> QED BY <4>3 DEF C!Next
    <3> QED BY <3>2, <3>3, <3>4
  <2>2. ASSUME NEW response \in Responses,
               ModelCallsTools(response) \/ ModelAsksRepair(response) \/ ModelAnswers(response)
        PROVE [C!Next]_<<WholeTurns, Status>>
    <3>1. at = "model" /\ at' \in {"continue", "finish"} /\ state'.messages = Heard(response)
      <4>1. CASE ModelCallsTools(response)
        <5>1. /\ at = "model" /\ at' = "continue"
              /\ state' = [turn |-> state.turn, toolCalls |-> state.toolCalls + Len(response.calls),
                           messages |-> Heard(response), pending |-> state.pending,
                           remaining |-> response.calls, artifacts |-> state.artifacts]
          BY <2>a, <4>1, CallsEffect
        <5> QED BY <5>1
      <4>2. CASE ModelAsksRepair(response)
        <5>1. /\ at = "model" /\ at' = "continue"
              /\ state' = [turn |-> state.turn, toolCalls |-> state.toolCalls, messages |-> Heard(response),
                           pending |-> Append(state.pending, Message("repair", state.turn, <<>>, TRUE)),
                           remaining |-> state.remaining, artifacts |-> state.artifacts]
          BY <2>a, <4>2, RepairEffect
        <5> QED BY <5>1
      <4>3. CASE ModelAnswers(response)
        BY <2>a, <4>3, AnswerEffect
      <4> QED BY <2>2, <4>1, <4>2, <4>3
    <3>2. WholeTurns' = WholeTurns
      BY <3>1, HeardTurns, WholeTurnsOf, WholeTurnsNext
    <3> QED BY <3>1, <3>2 DEF Status, Ended
  <2>3. CASE (DispatchTools /\ state.remaining # <<>>) \/ ObserveTools
    <3>1. at \in {"dispatch", "observe"} /\ at' \in {"tool", "continue"} /\ state'.messages = state.messages
      <4>1. CASE DispatchTools /\ state.remaining # <<>>
        BY <2>a, <4>1, DispatchEffect
      <4>2. CASE ObserveTools
        BY <2>a, <4>2, ObserveEffect
      <4> QED BY <2>3, <4>1, <4>2
    <3>2. WholeTurns' = WholeTurns
      BY <3>1, WholeTurnsOf, WholeTurnsNext
    <3> QED BY <3>1, <3>2 DEF Status, Ended
  <2>4. CASE Move
    <3>1. WholeTurns' = WholeTurns
      BY <2>4, WholeTurnsOf, WholeTurnsNext DEF Move
    <3>2. CASE at \in Nodes /\ at' = "failed"
      <4>1. Status = "running" /\ Status' = "failed"
        BY <3>2 DEF Status, Ended, Nodes
      <4>2. C!Fail
        BY <3>1, <4>1 DEF C!Fail, Status
      <4> QED BY <4>2 DEF C!Next
    <3>3. CASE at = "finish" /\ at' = "done"
      <4>1. Status = "running" /\ Status' = "done"
        BY <3>3 DEF Status, Ended
      <4>2. Len(WholeTurns) < MaxTurns
        BY <2>a, <2>b, <2>c, <3>3 DEF Conversed
      <4>3. C!Answer
        BY <3>1, <4>1, <4>2 DEF C!Answer, Status
      <4> QED BY <4>3 DEF C!Next
    <3>4. CASE at' = at
      BY <3>1, <3>4 DEF Status
    <3>5. CASE at \in {"continue", "tool", "suspended"} /\ at' \in {"dispatch", "prepare", "tool", "suspended", "observe"}
      BY <3>1, <3>5 DEF Status, Ended
    <3> QED BY <2>4, <3>2, <3>3, <3>4, <3>5 DEF Move
  <2> QED BY <2>a, <2>1, <2>2, <2>3, <2>4, StepKinds DEF Change
<1> QED BY <1>1, <1>2, Invariant, PTL DEF Spec, ImplementsConversation, C!Spec, Status
=============================================================================
