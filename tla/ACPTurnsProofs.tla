-------------------------- MODULE ACPTurnsProofs --------------------------
(***************************************************************************)
(* Turns of concurrent Invokes over one connection: each answers with what *)
(* the remote sent for it, and none leaves its session behind.             *)
(***************************************************************************)
EXTENDS ACPTurns, Recursion, SequenceTheorems, TLAPS

Working == {"prompting", "answered", "succeeding", "failing"}
Waiting == {"prompting", "failing", "failed"}
Settled == {"done", "failed"}

At(c) == invoke[c].at
SessionOf(c) == invoke[c].session
Chunks(c) == sent[c].chunks
PartsOf(c) == turn[c].parts

ChunkSet == [content : Contents, for : Callers]
MessageSet ==
  [kind : {"session"}, for : Callers, session : Sessions]
  \cup [kind : {"update"}, for : Callers, session : Sessions, content : Contents, n : Nat]
  \cup [kind : {"response"}, for : Callers, session : Sessions, stop : StopReasons]

Indices == 1..Len(pipe)
IsSession(i) == pipe[i].kind = "session"
\* An update or the response of a prompt.
IsTurn(i) == pipe[i].kind # "session"
IsResponse(i) == pipe[i].kind = "response"
IsChunk(i) == pipe[i].kind = "update" /\ pipe[i].content \notin NoChunks

Prompts == {PromptContent(r) : r \in Requests} \cup {<<>>}

InvokeRecord == [at : {"idle", "opening", "opened", "prompting", "answered",
                       "succeeding", "failing", "done", "failed"},
                 session : Sessions \cup {None}, request : Requests \cup {NoRequest},
                 prompt : Prompts, stop : StopReasons \cup {None}, answer : Seq(ChunkSet)]

\* Types that TypeOK leaves open.
Typed ==
  /\ invoke \in [Callers -> InvokeRecord]
  /\ turns \in [Sessions -> Callers \cup {None}]
  /\ turn \in [Callers -> [parts : Seq(ChunkSet), err : BOOLEAN]]
  /\ reader \in [turn : Callers \cup {None}, content : Contents \cup {None}, for : Callers \cup {None}]
  /\ reader # NoUpdate => reader.turn \in Callers /\ reader.content \in Contents /\ reader.for \in Callers
  /\ pipe \in Seq(MessageSet)
  /\ remote \in [Sessions -> Callers \cup {None}]
  /\ free \in SUBSET Sessions
  /\ sent \in [Callers -> [updates : Nat, chunks : Seq(ChunkSet)]]
  /\ \A c \in Callers : \A k \in 1..Len(PartsOf(c)) : PartsOf(c)[k].content \in {"text", "link"}

\* An Invoke has a session from "opened" on, and nothing was sent for it before
\* its prompt.
Stages ==
  \A c \in Callers :
    /\ At(c) \in {"idle", "opening"} => SessionOf(c) = None
    /\ At(c) \in Working \cup {"opened", "done"} => SessionOf(c) \in Sessions
    /\ At(c) \in {"idle", "opening", "opened"} => turn[c] = NewTurn /\ Chunks(c) = <<>>

\* turns holds the working Invokes.
Held == \A s \in Sessions, c \in Callers : turns[s] = c <=> SessionOf(c) = s /\ At(c) \in Working

\* While a prompt is worked on, or messages of it are under way, its session is
\* nobody else's.
Prompted ==
  \A s \in Sessions, c \in Callers : remote[s] = c =>
    /\ SessionOf(c) = s
    /\ At(c) \in Waiting
    /\ s \notin free
    /\ \A d \in Callers : d # c /\ SessionOf(d) = s => At(d) \in Settled
    /\ \A i \in Indices : IsSession(i) => pipe[i].session # s
    /\ \A i \in Indices : IsResponse(i) => pipe[i].for # c

\* Messages that belong to a prompt.
TurnMessages ==
  \A i \in Indices : IsTurn(i) =>
    /\ SessionOf(pipe[i].for) = pipe[i].session
    /\ At(pipe[i].for) \in Waiting
    /\ \A d \in Callers : d # pipe[i].for /\ SessionOf(d) = pipe[i].session => At(d) \in Settled
    /\ IsResponse(i) => \A j \in Indices : j > i => pipe[j].for # pipe[i].for

\* A session that is handed out comes after all that was sent on it before,
\* and to one Invoke only.
Handed ==
  \A i \in Indices : IsSession(i) =>
    /\ pipe[i].session \notin free
    /\ remote[pipe[i].session] = None
    /\ SessionOf(pipe[i].for) = None
    /\ \A d \in Callers : At(d) = "opened" => SessionOf(d) # pipe[i].session
    /\ \A j \in Indices : j > i => pipe[j].session # pipe[i].session
    /\ \A j \in Indices : j > i => ~(IsSession(j) /\ pipe[j].for = pipe[i].for)

\* So does a session that is opened.
Opened ==
  \A c \in Callers : At(c) = "opened" =>
    /\ SessionOf(c) \notin free
    /\ remote[SessionOf(c)] = None
    /\ \A i \in Indices : pipe[i].session # SessionOf(c)
    /\ \A d \in Callers : d # c /\ At(d) = "opened" => SessionOf(d) # SessionOf(c)

\* The update that is being handled is one for the turn it was looked up for.
Reading ==
  reader # NoUpdate => /\ reader.for = reader.turn
                       /\ At(reader.turn) \in Waiting

Pending(c) == reader # NoUpdate /\ reader.turn = c /\ reader.content \notin NoChunks

\* How many chunks of c were added, or are being added.
Reached(c) == Len(PartsOf(c)) + (IF Pending(c) THEN 1 ELSE 0)

\* Chunks in the pipe follow in order; together with the parts of a turn without
\* an error they are what was sent.
InOrder(c) ==
  /\ \A i \in Indices : IsChunk(i) /\ pipe[i].for = c =>
       /\ pipe[i].n \in (Reached(c) + 1)..Len(Chunks(c))
       /\ Chunks(c)[pipe[i].n] = Chunk(pipe[i].content, c)
       /\ \A j \in Indices : j > i /\ IsChunk(j) /\ pipe[j].for = c => pipe[i].n < pipe[j].n
  /\ \A n \in (Reached(c) + 1)..Len(Chunks(c)) :
       \E i \in Indices : IsChunk(i) /\ pipe[i].for = c /\ pipe[i].n = n

Sound(c) ==
  /\ Reached(c) <= Len(Chunks(c))
  /\ \A k \in 1..Len(PartsOf(c)) : PartsOf(c)[k] = Chunks(c)[k]
  /\ Pending(c) => Chunks(c)[Reached(c)] = Chunk(reader.content, c)
  /\ InOrder(c)

\* A turn that still waits has the first of its chunks, one that was answered
\* all of them.
Followed ==
  \A c \in Callers :
    /\ At(c) = "prompting" /\ ~turn[c].err => Sound(c)
    /\ At(c) = "answered" /\ ~turn[c].err => PartsOf(c) = Chunks(c)
    /\ At(c) \in {"succeeding", "done"} => invoke[c].answer = Chunks(c)

IInv == /\ Typed /\ Stages /\ Held /\ Prompted /\ TurnMessages /\ Handed /\ Opened
        /\ Reading /\ Followed

-----------------------------------------------------------------------------
(* Updates of an Invoke, and of the pipe *)

\* A step that moves one Invoke on.
LEMMA Moved ==
  ASSUME Typed, NEW c \in Callers, NEW x \in InvokeRecord, invoke' = [invoke EXCEPT ![c] = x]
  PROVE /\ invoke' \in [Callers -> InvokeRecord]
        /\ invoke'[c] = x
        /\ \A d \in Callers : d # c => invoke'[d] = invoke[d]
BY DEF Typed

\* The Invoke goes on and nothing else about it changes.
LEMMA AtMoved ==
  ASSUME Typed, NEW c \in Callers,
         NEW at \in {"idle", "opening", "opened", "prompting", "answered",
                     "succeeding", "failing", "done", "failed"},
         Move(c, at)
  PROVE /\ invoke' \in [Callers -> InvokeRecord]
        /\ At(c)' = at /\ SessionOf(c)' = SessionOf(c) /\ invoke'[c].answer = invoke[c].answer
        /\ \A d \in Callers : d # c => invoke'[d] = invoke[d]
<1> DEFINE x == [invoke[c] EXCEPT !.at = at]
<1>1. invoke[c] \in InvokeRecord
  BY DEF Typed
<1>2. x \in InvokeRecord /\ x.at = at /\ x.session = invoke[c].session /\ x.answer = invoke[c].answer
  BY <1>1 DEF InvokeRecord
<1>3. invoke' = [invoke EXCEPT ![c] = x]
  BY DEF Move
<1> HIDE DEF x
<1> QED BY <1>2, <1>3, Moved DEF At, SessionOf

\* A message is sent.
LEMMA PipeGrows ==
  ASSUME Typed, NEW m \in MessageSet, pipe' = Append(pipe, m)
  PROVE /\ pipe' \in Seq(MessageSet)
        /\ Len(pipe) \in Nat /\ Len(pipe') = Len(pipe) + 1
        /\ \A i \in Indices : i \in Indices' /\ pipe'[i] = pipe[i]
        /\ Len(pipe) + 1 \in Indices' /\ pipe'[Len(pipe) + 1] = m
        /\ \A i \in Indices' : i \in Indices \/ i = Len(pipe) + 1
        /\ \A i \in Indices : i < Len(pipe) + 1
BY DEF Typed, Indices

\* The first message is taken.
LEMMA PipeShrinks ==
  ASSUME Typed, pipe # <<>>, pipe' = Tail(pipe)
  PROVE /\ pipe' \in Seq(MessageSet)
        /\ Len(pipe) \in Nat
        /\ 1 \in Indices /\ Head(pipe) = pipe[1] /\ pipe[1] \in MessageSet
        /\ \A i \in Indices' : i \in Nat /\ i + 1 \in Indices /\ i + 1 > 1 /\ pipe'[i] = pipe[i + 1]
        /\ \A i \in Indices : i # 1 => i - 1 \in Indices' /\ pipe'[i - 1] = pipe[i] /\ i > 1
BY DEF Typed, Indices

\* Fields of a message.
LEMMA Messages ==
  ASSUME NEW m \in MessageSet
  PROVE /\ m.kind \in {"session", "update", "response"}
        /\ m.for \in Callers /\ m.session \in Sessions
        /\ m.kind = "update" => m.content \in Contents /\ m.n \in Nat
        /\ m.kind = "response" => m.stop \in StopReasons
BY DEF MessageSet

-----------------------------------------------------------------------------
(* The invariant holds initially, and each action keeps it *)

\* Nothing was invoked.
LEMMA InitIInv == Init => IInv
<1> SUFFICES ASSUME Init PROVE IInv
  OBVIOUS
<1>1. /\ \A c \in Callers : /\ At(c) = "idle" /\ SessionOf(c) = None /\ invoke[c] \in InvokeRecord
                            /\ turn[c] = NewTurn /\ PartsOf(c) = <<>> /\ Chunks(c) = <<>>
      /\ invoke \in [Callers -> InvokeRecord]
  BY DEF Init, At, SessionOf, PartsOf, Chunks, InvokeRecord, Prompts, Idle, NewTurn, NothingSent
<1>2. /\ turns = [s \in Sessions |-> None] /\ remote = [s \in Sessions |-> None] /\ pipe = <<>>
      /\ reader = NoUpdate /\ free = Sessions
  BY DEF Init
<1>3. Indices = {}
  BY <1>2 DEF Indices
<1>4. Typed
  <2>1. turn \in [Callers -> [parts : Seq(ChunkSet), err : BOOLEAN]]
    BY DEF Init, NewTurn
  <2>2. sent \in [Callers -> [updates : Nat, chunks : Seq(ChunkSet)]]
    BY DEF Init, NothingSent
  <2>3. reader \in [turn : Callers \cup {None}, content : Contents \cup {None}, for : Callers \cup {None}]
    BY <1>2 DEF NoUpdate
  <2> QED BY <1>1, <1>2, <2>1, <2>2, <2>3 DEF Typed
<1>5. Stages /\ Held /\ Prompted
  BY <1>1, <1>2, ACPAssumption DEF Stages, Held, Prompted, Working
<1>6. TurnMessages /\ Handed /\ Opened
  BY <1>1, <1>3 DEF TurnMessages, Handed, Opened
<1>7. Reading /\ Followed
  BY <1>1, <1>2 DEF Reading, Followed
<1> QED BY <1>4, <1>5, <1>6, <1>7 DEF IInv

\* Nothing is lost where nothing is sent or read.
LEMMA SoundStays ==
  ASSUME UNCHANGED <<turn, sent, pipe, reader>>, NEW d \in Callers, Sound(d)
  PROVE  Sound(d)'
<1>1. PartsOf(d)' = PartsOf(d) /\ Chunks(d)' = Chunks(d) /\ (Pending(d)' <=> Pending(d))
  BY DEF PartsOf, Chunks, Pending
<1>2. Reached(d)' = Reached(d)
  BY <1>1 DEF Reached
<1>3. Indices' = Indices /\ \A i : IsChunk(i)' <=> IsChunk(i)
  BY DEF Indices, IsChunk
<1>4. InOrder(d)'
  BY <1>1, <1>2, <1>3 DEF Sound, InOrder
<1> QED BY <1>1, <1>2, <1>4 DEF Sound

\* A step of one Invoke that sends and reads nothing.
LEMMA CallerKeeps ==
  ASSUME IInv, NEW c \in Callers, UNCHANGED <<turn, reader, pipe, remote, free, sent>>,
         invoke' \in [Callers -> InvokeRecord], turns' \in [Sessions -> Callers \cup {None}],
         \A d \in Callers : d # c => invoke'[d] = invoke[d],
         SessionOf(c)' = SessionOf(c),
         At(c) \in Waiting => At(c)' \in Waiting,
         At(c) \in Settled => At(c)' \in Settled,
         At(c)' = "opened" => At(c) = "opened",
         Stages', Held',
         At(c)' = "prompting" => At(c) = "prompting",
         At(c)' = "answered" => At(c) = "answered",
         At(c)' \in {"succeeding", "done"} => invoke'[c].answer = Chunks(c)
  PROVE IInv'
<1>a. Typed /\ Prompted /\ TurnMessages /\ Handed /\ Opened /\ Reading /\ Followed
  BY DEF IInv
<1>1. \A d \in Callers : /\ SessionOf(d)' = SessionOf(d)
                         /\ At(d) \in Waiting => At(d)' \in Waiting
                         /\ At(d) \in Settled => At(d)' \in Settled
                         /\ At(d)' = "opened" => At(d) = "opened"
                         /\ At(d)' = "prompting" => At(d) = "prompting"
                         /\ At(d)' = "answered" => At(d) = "answered"
                         /\ At(d)' \in {"succeeding", "done"} => invoke'[d].answer = Chunks(d)
  BY <1>a DEF At, SessionOf, Followed
<1>2. Typed'
  BY <1>a DEF Typed, PartsOf
<1>3. Indices' = Indices /\ \A i : (IsSession(i)' <=> IsSession(i)) /\ (IsTurn(i)' <=> IsTurn(i)) /\ (IsResponse(i)' <=> IsResponse(i))
  BY DEF Indices, IsSession, IsTurn, IsResponse
<1>4. Prompted'
  BY <1>a, <1>1, <1>3 DEF Prompted
<1>5. TurnMessages'
  <2>1. \A i \in Indices : pipe[i].for \in Callers
    BY <1>a, Messages DEF Typed, Indices
  <2> QED BY <1>a, <1>1, <1>3, <2>1 DEF TurnMessages
<1>6. Handed'
  <2>1. \A i \in Indices : pipe[i].for \in Callers
    BY <1>a, Messages DEF Typed, Indices
  <2> QED BY <1>a, <1>1, <1>3, <2>1 DEF Handed
<1>7. Opened'
  BY <1>a, <1>1, <1>3 DEF Opened
<1>8. Reading'
  BY <1>a, <1>1 DEF Reading, Typed
<1>9. Followed'
  <2>1. \A d \in Callers : Sound(d) => Sound(d)'
    BY SoundStays
  <2>2. \A d \in Callers : PartsOf(d)' = PartsOf(d) /\ Chunks(d)' = Chunks(d)
    BY DEF PartsOf, Chunks
  <2> QED BY <1>a, <1>1, <2>1, <2>2 DEF Followed
<1> QED BY <1>2, <1>4, <1>5, <1>6, <1>7, <1>8, <1>9 DEF IInv

\* A request is taken, or refused.
LEMMA InvokeKeeps == ASSUME IInv, NEW c \in Callers, NEW request \in Requests, Invoke(c, request) PROVE IInv'
<1>a. Typed /\ Stages /\ Held /\ At(c) = "idle" /\ UNCHANGED <<turns, turn, reader, pipe, remote, free, sent>>
  BY DEF IInv, Invoke, At
<1>1. /\ invoke' \in [Callers -> InvokeRecord]
      /\ At(c)' \in {"opening", "failed"} /\ SessionOf(c)' = SessionOf(c)
      /\ \A d \in Callers : d # c => invoke'[d] = invoke[d]
  <2>1. CASE Acceptable(request)
    <3> DEFINE x == [invoke[c] EXCEPT !.at = "opening", !.request = request, !.prompt = PromptContent(request)]
    <3>1. invoke[c] \in InvokeRecord /\ PromptContent(request) \in Prompts
      BY <1>a DEF Typed, Prompts
    <3>2. x \in InvokeRecord /\ x.at = "opening" /\ x.session = invoke[c].session
      BY <3>1 DEF InvokeRecord
    <3>3. invoke' = [invoke EXCEPT ![c] = x]
      BY <2>1 DEF Invoke
    <3> HIDE DEF x
    <3> QED BY <1>a, <3>2, <3>3, Moved DEF At, SessionOf
  <2>2. CASE ~Acceptable(request)
    BY <1>a, <2>2, AtMoved DEF Invoke
  <2> QED BY <2>1, <2>2
<1>2. Stages'
  <2>1. \A d \in Callers : turn'[d] = turn[d] /\ Chunks(d)' = Chunks(d)
    BY <1>a DEF Chunks
  <2> QED BY <1>a, <1>1, <2>1 DEF Stages, At, SessionOf, Working
<1>3. Held'
  BY <1>a, <1>1 DEF Held, At, SessionOf, Working
<1> QED BY <1>a, <1>1, <1>2, <1>3, CallerKeeps DEF Waiting, Settled, Typed

\* The context ends.
LEMMA CancelKeeps == ASSUME IInv, NEW c \in Callers, Cancel(c) PROVE IInv'
<1> DEFINE at == IF invoke[c].at = "prompting" THEN "failing" ELSE "failed"
<1>a. /\ Typed /\ Stages /\ Held /\ UNCHANGED <<turns, turn, reader, pipe, remote, free, sent>>
      /\ At(c) \in {"opening", "opened", "prompting"} /\ Move(c, at)
  BY DEF IInv, Cancel, At
<1>0. at \in {"failing", "failed"} /\ (at = "failing" <=> At(c) = "prompting")
  BY DEF At
<1> HIDE DEF at
<1>1. /\ invoke' \in [Callers -> InvokeRecord]
      /\ At(c)' = at /\ SessionOf(c)' = SessionOf(c)
      /\ \A d \in Callers : d # c => invoke'[d] = invoke[d]
  BY <1>a, <1>0, AtMoved
<1>2. Stages'
  <2>1. \A d \in Callers : turn'[d] = turn[d] /\ Chunks(d)' = Chunks(d)
    BY <1>a DEF Chunks
  <2> QED BY <1>a, <1>0, <1>1, <2>1 DEF Stages, At, SessionOf, Working
<1>3. Held'
  BY <1>a, <1>0, <1>1 DEF Held, At, SessionOf, Working
<1> QED BY <1>a, <1>0, <1>1, <1>2, <1>3, CallerKeeps DEF Waiting, Settled, Typed

\* The answer is what the turn has.
LEMMA CollectKeeps == ASSUME IInv, NEW c \in Callers, Collect(c) PROVE IInv'
<1> DEFINE at == IF invoke[c].stop = "canceled" \/ turn[c].err \/ turn[c].parts = <<>> THEN "failing" ELSE "succeeding"
           x == [invoke[c] EXCEPT !.at = at, !.answer = turn[c].parts]
<1>a. /\ Typed /\ Stages /\ Held /\ Followed
      /\ UNCHANGED <<turns, turn, reader, pipe, remote, free, sent>>
      /\ At(c) = "answered" /\ invoke' = [invoke EXCEPT ![c] = x]
  BY DEF IInv, Collect, At
<1>0. at \in {"failing", "succeeding"} /\ (at = "succeeding" => ~turn[c].err)
  OBVIOUS
<1> HIDE DEF at
<1>b. /\ x \in InvokeRecord /\ x.at = at /\ x.session = invoke[c].session /\ x.answer = PartsOf(c)
  <2>1. invoke[c] \in InvokeRecord /\ turn[c].parts \in Seq(ChunkSet)
    BY <1>a DEF Typed
  <2> QED BY <1>0, <2>1 DEF InvokeRecord, PartsOf
<1> HIDE DEF x
<1>1. /\ invoke' \in [Callers -> InvokeRecord]
      /\ At(c)' = at /\ SessionOf(c)' = SessionOf(c) /\ invoke'[c].answer = PartsOf(c)
      /\ \A d \in Callers : d # c => invoke'[d] = invoke[d]
  BY <1>a, <1>b, Moved DEF At, SessionOf
<1>2. Stages'
  <2>1. \A d \in Callers : turn'[d] = turn[d] /\ Chunks(d)' = Chunks(d)
    BY <1>a DEF Chunks
  <2> QED BY <1>a, <1>0, <1>1, <2>1 DEF Stages, At, SessionOf, Working
<1>3. Held'
  BY <1>a, <1>0, <1>1 DEF Held, At, SessionOf, Working
<1>4. at = "succeeding" => PartsOf(c) = Chunks(c)
  BY <1>a, <1>0 DEF Followed
<1> QED BY <1>a, <1>0, <1>1, <1>2, <1>3, <1>4, CallerKeeps DEF Waiting, Settled, Typed

\* The session is given up by the one that has it.
LEMMA FinishTurnKeeps == ASSUME IInv, NEW c \in Callers, FinishTurn(c) PROVE IInv'
<1> DEFINE at == IF invoke[c].at = "succeeding" THEN "done" ELSE "failed"
<1>a. /\ Typed /\ Stages /\ Held /\ Followed /\ UNCHANGED <<turn, reader, pipe, remote, free, sent>>
      /\ At(c) \in {"succeeding", "failing"} /\ Move(c, at)
      /\ turns' = [turns EXCEPT ![SessionOf(c)] = IF turns[SessionOf(c)] = c THEN None ELSE turns[SessionOf(c)]]
  BY DEF IInv, FinishTurn, At, SessionOf
<1>0. at \in {"done", "failed"} /\ (at = "done" <=> At(c) = "succeeding")
  BY DEF At
<1> HIDE DEF at
<1>1. /\ invoke' \in [Callers -> InvokeRecord]
      /\ At(c)' = at /\ SessionOf(c)' = SessionOf(c) /\ invoke'[c].answer = invoke[c].answer
      /\ \A d \in Callers : d # c => invoke'[d] = invoke[d]
  BY <1>a, <1>0, AtMoved
<1>b. /\ SessionOf(c) \in Sessions /\ turns[SessionOf(c)] = c
      /\ turns' \in [Sessions -> Callers \cup {None}]
      /\ turns'[SessionOf(c)] = None /\ \A s \in Sessions : s # SessionOf(c) => turns'[s] = turns[s]
  <2>1. SessionOf(c) \in Sessions /\ turns[SessionOf(c)] = c
    BY <1>a DEF Stages, Held, Working
  <2> QED BY <1>a, <2>1 DEF Typed
<1>2. Stages'
  <2>1. \A d \in Callers : turn'[d] = turn[d] /\ Chunks(d)' = Chunks(d)
    BY <1>a DEF Chunks
  <2> QED BY <1>a, <1>0, <1>1, <1>b, <2>1 DEF Stages, At, SessionOf, Working
<1>3. Held'
  <2> SUFFICES ASSUME NEW s \in Sessions, NEW d \in Callers
               PROVE turns'[s] = d <=> SessionOf(d)' = s /\ At(d)' \in Working
    BY DEF Held
  <2>1. CASE d = c
    BY <2>1, <1>a, <1>0, <1>1, <1>b, ACPAssumption DEF Held, Working
  <2>2. CASE d # c
    <3>1. At(d)' = At(d) /\ SessionOf(d)' = SessionOf(d)
      BY <2>2, <1>1 DEF At, SessionOf
    <3> QED BY <2>2, <3>1, <1>a, <1>b, ACPAssumption DEF Held
  <2> QED BY <2>1, <2>2
<1>4. at = "done" => invoke[c].answer = Chunks(c)
  BY <1>a, <1>0 DEF Followed
<1> QED BY <1>a, <1>0, <1>1, <1>b, <1>2, <1>3, <1>4, CallerKeeps DEF Waiting, Settled


\* The prompt goes out on a session nobody else works on, or the turn is refused.
LEMMA StartTurnKeeps == ASSUME IInv, NEW c \in Callers, StartTurn(c) PROVE IInv'
<1> DEFINE s == SessionOf(c)
<1>a. /\ Typed /\ Stages /\ Held /\ Prompted /\ TurnMessages /\ Handed /\ Opened /\ Reading /\ Followed
      /\ UNCHANGED <<turn, reader, pipe, free, sent>>
      /\ At(c) = "opened"
  BY DEF IInv, StartTurn, At
<1>b. CASE turns[s] # None
  <2>1. Move(c, "failed") /\ UNCHANGED <<turns, remote>>
    BY <1>b DEF StartTurn, SessionOf
  <2>2. /\ invoke' \in [Callers -> InvokeRecord]
        /\ At(c)' = "failed" /\ SessionOf(c)' = SessionOf(c)
        /\ \A d \in Callers : d # c => invoke'[d] = invoke[d]
    BY <1>a, <2>1, AtMoved
  <2>3. Stages'
    <3>1. \A d \in Callers : turn'[d] = turn[d] /\ Chunks(d)' = Chunks(d)
      BY <1>a DEF Chunks
    <3> QED BY <1>a, <2>2, <3>1 DEF Stages, At, SessionOf, Working
  <2>4. Held'
    BY <1>a, <2>1, <2>2 DEF Held, At, SessionOf, Working
  <2> QED BY <1>a, <2>1, <2>2, <2>3, <2>4, CallerKeeps DEF Waiting, Settled, Typed
<1>c. CASE turns[s] = None
  <2>0. /\ Move(c, "prompting") /\ turns' = [turns EXCEPT ![s] = c] /\ remote' = [remote EXCEPT ![s] = c]
        /\ s \in Sessions
    BY <1>a, <1>c DEF StartTurn, SessionOf, At, Stages
  <2>1. /\ invoke' \in [Callers -> InvokeRecord]
        /\ At(c)' = "prompting" /\ SessionOf(c)' = s
        /\ \A d \in Callers : d # c => At(d)' = At(d)
        /\ \A d \in Callers : SessionOf(d)' = SessionOf(d)
        /\ \A d \in Callers : d # c => invoke'[d] = invoke[d]
    BY <1>a, <2>0, AtMoved DEF At, SessionOf
  <2>2. /\ turns' \in [Sessions -> Callers \cup {None}] /\ remote' \in [Sessions -> Callers \cup {None}]
        /\ turns'[s] = c /\ remote'[s] = c
        /\ \A t \in Sessions : t # s => turns'[t] = turns[t] /\ remote'[t] = remote[t]
    BY <1>a, <2>0 DEF Typed
  <2>3. Indices' = Indices /\ \A i : (IsSession(i)' <=> IsSession(i)) /\ (IsTurn(i)' <=> IsTurn(i)) /\ (IsResponse(i)' <=> IsResponse(i))
    BY <1>a DEF Indices, IsSession, IsTurn, IsResponse
  <2>4. \A i \in Indices : pipe[i].for \in Callers /\ pipe[i].session \in Sessions
    BY <1>a, Messages DEF Typed, Indices
  \* Who else had the session is through with it, and nothing is under way on it.
  <2>5. /\ s \notin free
        /\ \A i \in Indices : pipe[i].session # s
        /\ \A d \in Callers : d # c /\ At(d) = "opened" => SessionOf(d) # s
    BY <1>a DEF Opened
  <2>6. \A d \in Callers : d # c /\ SessionOf(d) = s => At(d) \in Settled
    <3> SUFFICES ASSUME NEW d \in Callers, d # c, SessionOf(d) = s PROVE At(d) \in Settled
      OBVIOUS
    <3>1. At(d) \notin Working
      BY <1>a, <1>c, <2>0, ACPAssumption DEF Held
    <3>2. At(d) \notin {"idle", "opening", "opened"}
      BY <1>a, <2>0, <2>5, ACPAssumption DEF Stages
    <3>3. At(d) \in {"idle", "opening", "opened", "prompting", "answered", "succeeding", "failing", "done", "failed"}
      BY <1>a DEF Typed, InvokeRecord, At
    <3> QED BY <3>1, <3>2, <3>3 DEF Working, Settled
  <2>7. \A i \in Indices : IsTurn(i) => pipe[i].for # c
    BY <1>a DEF TurnMessages, Waiting
  <2> HIDE DEF s
  <2>8. Typed'
    BY <1>a, <2>1, <2>2 DEF Typed, PartsOf
  <2>9. Stages'
    <3>1. \A d \in Callers : turn'[d] = turn[d] /\ Chunks(d)' = Chunks(d)
      BY <1>a DEF Chunks
    <3> QED BY <1>a, <2>0, <2>1, <3>1 DEF Stages, Working
  <2>10. Held'
    <3> SUFFICES ASSUME NEW t \in Sessions, NEW d \in Callers
                 PROVE turns'[t] = d <=> SessionOf(d)' = t /\ At(d)' \in Working
      BY DEF Held
    <3>1. At(c) \notin Working /\ "prompting" \in Working /\ SessionOf(c) = s
      BY <1>a DEF Working, s
    <3>2. CASE d = c
      BY <3>1, <3>2, <1>a, <2>1, <2>2 DEF Held
    <3>3. CASE d # c
      <4>1. At(d) \in Working => SessionOf(d) # s
        BY <3>3, <2>6 DEF Working, Settled
      <4> QED BY <3>3, <4>1, <1>a, <2>1, <2>2 DEF Held
    <3> QED BY <3>2, <3>3
  <2>11. Prompted'
    <3> SUFFICES ASSUME NEW t \in Sessions, NEW d \in Callers, remote'[t] = d
                 PROVE /\ SessionOf(d)' = t
                       /\ At(d)' \in Waiting
                       /\ t \notin free'
                       /\ \A e \in Callers : e # d /\ SessionOf(e)' = t => At(e)' \in Settled
                       /\ \A i \in Indices' : IsSession(i)' => pipe'[i].session # t
                       /\ \A i \in Indices' : IsResponse(i)' => pipe'[i].for # d
      BY DEF Prompted
    <3>1. CASE t = s
      <4>1. d = c
        BY <3>1, <2>2
      <4>2. \A i \in Indices : IsResponse(i) => pipe[i].for # c
        BY <2>7 DEF IsTurn, IsResponse
      <4> QED BY <3>1, <4>1, <4>2, <1>a, <2>1, <2>3, <2>5, <2>6 DEF Waiting
    <3>2. CASE t # s
      <4>1. remote[t] = d
        BY <3>2, <2>2
      <4>2. d # c /\ SessionOf(c) # t
        BY <3>2, <4>1, <1>a DEF Prompted, Waiting, s
      <4> QED BY <4>1, <4>2, <1>a, <2>1, <2>3 DEF Prompted
    <3> QED BY <3>1, <3>2
  <2>12. TurnMessages'
    <3> SUFFICES ASSUME NEW i \in Indices, IsTurn(i)
                 PROVE /\ SessionOf(pipe[i].for)' = pipe[i].session
                       /\ At(pipe[i].for)' \in Waiting
                       /\ \A d \in Callers : d # pipe[i].for /\ SessionOf(d)' = pipe[i].session => At(d)' \in Settled
                       /\ IsResponse(i) => \A j \in Indices : j > i => pipe[j].for # pipe[i].for
      BY <1>a, <2>3 DEF TurnMessages, IsTurn, IsResponse
    <3>1. pipe[i].for # c /\ SessionOf(c)' # pipe[i].session
      BY <2>1, <2>5, <2>7
    <3> QED BY <3>1, <1>a, <2>1, <2>4 DEF TurnMessages
  <2>13. Handed'
    <3>1. \A i \in Indices : remote'[pipe[i].session] = remote[pipe[i].session]
      BY <2>2, <2>4, <2>5
    <3>2. \A d \in Callers : At(d)' = "opened" => At(d) = "opened"
      BY <2>1
    <3> QED BY <3>1, <3>2, <1>a, <2>1, <2>3, <2>4 DEF Handed
  <2>14. Opened'
    <3> SUFFICES ASSUME NEW d \in Callers, At(d)' = "opened"
                 PROVE /\ SessionOf(d)' \notin free'
                       /\ remote'[SessionOf(d)'] = None
                       /\ \A i \in Indices' : pipe'[i].session # SessionOf(d)'
                       /\ \A e \in Callers : e # d /\ At(e)' = "opened" => SessionOf(e)' # SessionOf(d)'
      BY DEF Opened
    <3>1. d # c /\ At(d) = "opened" /\ SessionOf(d)' = SessionOf(d) /\ SessionOf(d) # s
      BY <2>1, <2>5
    <3>2. remote'[SessionOf(d)] = None
      BY <3>1, <1>a, <2>2 DEF Opened, Stages
    <3>3. \A e \in Callers : At(e)' = "opened" => At(e) = "opened" /\ SessionOf(e)' = SessionOf(e)
      BY <2>1
    <3> QED BY <3>1, <3>2, <3>3, <1>a, <2>3 DEF Opened
  <2>15. Reading'
    BY <1>a, <2>1 DEF Reading, Typed, Waiting
  <2>16. Followed'
    <3>1. \A d \in Callers : Sound(d) => Sound(d)'
      BY <1>a, SoundStays
    <3>2. \A d \in Callers : PartsOf(d)' = PartsOf(d) /\ Chunks(d)' = Chunks(d) /\ turn'[d] = turn[d]
      BY <1>a DEF PartsOf, Chunks
    <3>3. Sound(c)
      <4>1. PartsOf(c) = <<>> /\ Chunks(c) = <<>> /\ ~Pending(c)
        BY <1>a DEF Stages, Reading, Pending, NewTurn, PartsOf, Waiting
      <4>2. Reached(c) = 0
        BY <4>1 DEF Reached
      <4>3. \A i \in Indices : ~(IsChunk(i) /\ pipe[i].for = c)
        BY <2>7 DEF IsChunk, IsTurn
      <4> QED BY <4>1, <4>2, <4>3 DEF Sound, InOrder
    <3>4. \A d \in Callers : d # c => /\ At(d)' = At(d) /\ invoke'[d] = invoke[d]
      BY <2>1
    <3> QED BY <1>a, <2>1, <3>1, <3>2, <3>3, <3>4 DEF Followed
  <2> QED BY <2>8, <2>9, <2>10, <2>11, <2>12, <2>13, <2>14, <2>15, <2>16 DEF IInv
<1> QED BY <1>b, <1>c

-----------------------------------------------------------------------------
(* Messages that are read *)

\* The message at the head is one of its kind, and the rest moves up.
LEMMA Taken ==
  ASSUME Typed, NEW kind \in {"session", "update", "response"}, Take(kind)
  PROVE /\ pipe' \in Seq(MessageSet) /\ reader = NoUpdate
        /\ 1 \in Indices /\ Head(pipe) = pipe[1] /\ pipe[1].kind = kind
        /\ pipe[1].for \in Callers /\ pipe[1].session \in Sessions
        /\ \A i \in Indices' : /\ i \in Nat /\ i + 1 \in Indices /\ i + 1 > 1 /\ pipe'[i] = pipe[i + 1]
                               /\ IsSession(i)' <=> IsSession(i + 1)
                               /\ IsTurn(i)' <=> IsTurn(i + 1)
                               /\ IsResponse(i)' <=> IsResponse(i + 1)
                               /\ IsChunk(i)' <=> IsChunk(i + 1)
                               /\ pipe[i + 1].for \in Callers /\ pipe[i + 1].session \in Sessions
        /\ \A i \in Indices : i # 1 => i - 1 \in Indices' /\ pipe'[i - 1] = pipe[i] /\ i > 1 /\ (IsChunk(i - 1)' <=> IsChunk(i))
<1>1. pipe # <<>> /\ pipe' = Tail(pipe) /\ reader = NoUpdate /\ Head(pipe).kind = kind
  BY DEF Take
<1>2. \A i \in Indices : pipe[i] \in MessageSet
  BY DEF Typed, Indices
<1>3. \A i \in Indices : pipe[i].for \in Callers /\ pipe[i].session \in Sessions
  BY <1>2, Messages
<1> QED BY <1>1, <1>3, PipeShrinks DEF IsSession, IsTurn, IsResponse, IsChunk

\* A step that takes a message and gives no session away.
LEMMA TakeKeeps ==
  ASSUME IInv, NEW kind \in {"session", "update", "response"}, Take(kind),
         UNCHANGED <<turns, turn, remote, free, sent>>,
         reader' \in [turn : Callers \cup {None}, content : Contents \cup {None}, for : Callers \cup {None}],
         reader' # NoUpdate => reader'.turn \in Callers /\ reader'.content \in Contents /\ reader'.for \in Callers,
         invoke' \in [Callers -> InvokeRecord],
         \A d \in Callers : /\ SessionOf(d)' = SessionOf(d)
                            /\ At(d)' = At(d) \/ (At(d) = "prompting" /\ At(d)' = "answered"),
         \A d \in Callers : At(d)' # At(d) => /\ \A s \in Sessions : remote[s] # d
                                              /\ \A i \in Indices : i > 1 => pipe[i].for # d,
         Reading', Followed'
  PROVE IInv'
<1>a. Typed /\ Stages /\ Held /\ Prompted /\ TurnMessages /\ Handed /\ Opened
  BY DEF IInv
<1>0. /\ pipe' \in Seq(MessageSet)
      /\ \A i \in Indices' : /\ i \in Nat /\ i + 1 \in Indices /\ i + 1 > 1 /\ pipe'[i] = pipe[i + 1]
                             /\ IsSession(i)' <=> IsSession(i + 1)
                             /\ IsTurn(i)' <=> IsTurn(i + 1)
                             /\ IsResponse(i)' <=> IsResponse(i + 1)
                             /\ pipe[i + 1].for \in Callers /\ pipe[i + 1].session \in Sessions
  BY <1>a, Taken
<1>1. \A d \in Callers : /\ At(d) \in Settled => At(d)' \in Settled
                         /\ At(d) \in Working <=> At(d)' \in Working
                         /\ At(d)' = "opened" => At(d) = "opened"
                         /\ At(d) \in Waiting /\ At(d)' = At(d) => At(d)' \in Waiting
  BY DEF Settled, Working
<1>2. Typed'
  BY <1>a, <1>0 DEF Typed, PartsOf
<1>3. Stages'
  <2>1. \A d \in Callers : turn'[d] = turn[d] /\ Chunks(d)' = Chunks(d)
    BY DEF Chunks
  <2> QED BY <1>a, <2>1 DEF Stages, Working
<1>4. Held'
  BY <1>a, <1>1 DEF Held
<1>5. Prompted'
  <2> SUFFICES ASSUME NEW t \in Sessions, NEW d \in Callers, remote[t] = d
               PROVE /\ SessionOf(d)' = t
                     /\ At(d)' \in Waiting
                     /\ t \notin free'
                     /\ \A e \in Callers : e # d /\ SessionOf(e)' = t => At(e)' \in Settled
                     /\ \A i \in Indices' : IsSession(i)' => pipe'[i].session # t
                     /\ \A i \in Indices' : IsResponse(i)' => pipe'[i].for # d
    BY DEF Prompted
  <2>1. At(d)' = At(d)
    OBVIOUS
  <2> QED BY <1>a, <1>0, <1>1, <2>1 DEF Prompted
<1>6. TurnMessages'
  <2> SUFFICES ASSUME NEW i \in Indices', IsTurn(i)', NEW c \in Callers, c = pipe[i + 1].for,
                      NEW s \in Sessions, s = pipe[i + 1].session
               PROVE /\ SessionOf(c)' = s
                     /\ At(c)' \in Waiting
                     /\ \A d \in Callers : d # c /\ SessionOf(d)' = s => At(d)' \in Settled
                     /\ IsResponse(i)' => \A j \in Indices' : j > i => pipe'[j].for # c
    BY <1>0 DEF TurnMessages
  <2>1. At(c)' = At(c)
    BY <1>0
  <2>2. \A j \in Indices' : j > i => j + 1 > i + 1
    BY <1>0
  <2> QED BY <1>a, <1>0, <1>1, <2>1, <2>2 DEF TurnMessages
<1>7. Handed'
  <2> SUFFICES ASSUME NEW i \in Indices', IsSession(i)', NEW c \in Callers, c = pipe[i + 1].for,
                      NEW s \in Sessions, s = pipe[i + 1].session
               PROVE /\ s \notin free
                     /\ remote[s] = None
                     /\ SessionOf(c)' = None
                     /\ \A d \in Callers : At(d)' = "opened" => SessionOf(d)' # s
                     /\ \A j \in Indices' : j > i => pipe'[j].session # s
                     /\ \A j \in Indices' : j > i => ~(IsSession(j)' /\ pipe'[j].for = c)
    BY <1>0 DEF Handed
  <2>1. \A j \in Indices' : j > i => j + 1 > i + 1
    BY <1>0
  <2>2. i + 1 \in Indices /\ IsSession(i + 1)
    BY <1>0
  <2>3. /\ s \notin free /\ remote[s] = None /\ SessionOf(c) = None
        /\ \A d \in Callers : At(d) = "opened" => SessionOf(d) # s
        /\ \A j \in Indices : j > i + 1 => pipe[j].session # s
        /\ \A j \in Indices : j > i + 1 => ~(IsSession(j) /\ pipe[j].for = c)
    BY <1>a, <2>2 DEF Handed
  <2>4. \A d \in Callers : At(d)' = "opened" => SessionOf(d)' # s
    BY <1>1, <2>3
  <2>5. \A j \in Indices' : j > i => pipe'[j].session # s /\ ~(IsSession(j)' /\ pipe'[j].for = c)
    BY <1>0, <2>1, <2>3
  <2> QED BY <2>3, <2>4, <2>5
<1>8. Opened'
  BY <1>a, <1>0, <1>1 DEF Opened
<1> QED BY <1>2, <1>3, <1>4, <1>5, <1>6, <1>7, <1>8 DEF IInv

\* What was added to a turn stays sound when a message that is no chunk of it is
\* taken.
LEMMA TakeKeepsSound ==
  ASSUME Typed, NEW kind \in {"session", "update", "response"}, Take(kind), UNCHANGED <<turn, sent>>,
         NEW c \in Callers, Sound(c), ~(IsChunk(1) /\ pipe[1].for = c), Pending(c)' <=> Pending(c),
         Pending(c) => reader' = reader
  PROVE Sound(c)'
<1>1. PartsOf(c)' = PartsOf(c) /\ Chunks(c)' = Chunks(c) /\ Reached(c)' = Reached(c)
  BY DEF PartsOf, Chunks, Reached
<1>2. /\ \A i \in Indices' : /\ i \in Nat /\ i + 1 \in Indices /\ pipe'[i] = pipe[i + 1]
                             /\ IsChunk(i)' <=> IsChunk(i + 1)
      /\ \A i \in Indices : i # 1 => i - 1 \in Indices' /\ pipe'[i - 1] = pipe[i] /\ (IsChunk(i - 1)' <=> IsChunk(i))
  BY Taken
<1>3. InOrder(c)'
  <2>1. ASSUME NEW i \in Indices', IsChunk(i)', pipe'[i].for = c
        PROVE /\ pipe'[i].n \in (Reached(c) + 1)..Len(Chunks(c))
              /\ Chunks(c)[pipe'[i].n] = Chunk(pipe'[i].content, c)
              /\ \A j \in Indices' : j > i /\ IsChunk(j)' /\ pipe'[j].for = c => pipe'[i].n < pipe'[j].n
    <3>1. \A j \in Indices' : j > i => j + 1 > i + 1
      BY <1>2
    <3>2. i + 1 \in Indices /\ IsChunk(i + 1) /\ pipe[i + 1].for = c /\ pipe'[i] = pipe[i + 1]
      BY <1>2, <2>1
    <3>3. /\ pipe[i + 1].n \in (Reached(c) + 1)..Len(Chunks(c))
          /\ Chunks(c)[pipe[i + 1].n] = Chunk(pipe[i + 1].content, c)
          /\ \A j \in Indices : j > i + 1 /\ IsChunk(j) /\ pipe[j].for = c => pipe[i + 1].n < pipe[j].n
      BY <3>2 DEF Sound, InOrder
    <3> QED BY <1>2, <3>1, <3>2, <3>3
  <2>2. ASSUME NEW n \in (Reached(c) + 1)..Len(Chunks(c))
        PROVE \E i \in Indices' : IsChunk(i)' /\ pipe'[i].for = c /\ pipe'[i].n = n
    <3>1. PICK i \in Indices : IsChunk(i) /\ pipe[i].for = c /\ pipe[i].n = n
      BY DEF Sound, InOrder
    <3> QED BY <1>2, <3>1
  <2> QED BY <1>1, <2>1, <2>2 DEF InOrder
<1> QED BY <1>1, <1>3 DEF Sound

\* A session is handed to the Invoke that asked for it, if that still waits.
LEMMA ReadSessionKeeps == ASSUME IInv, ReadSession PROVE IInv'
<1>0. pipe[1].for \in Callers /\ pipe[1].session \in Sessions
  BY Taken DEF IInv, ReadSession
<1> SUFFICES ASSUME NEW c \in Callers, c = pipe[1].for, NEW s \in Sessions, s = pipe[1].session
             PROVE IInv'
  BY <1>0
<1>a. /\ Typed /\ Stages /\ Held /\ Prompted /\ TurnMessages /\ Handed /\ Opened /\ Reading /\ Followed
      /\ Take("session") /\ UNCHANGED <<turns, turn, reader, remote, free, sent>>
  BY DEF IInv, ReadSession
<1>b. /\ pipe' \in Seq(MessageSet) /\ reader = NoUpdate /\ 1 \in Indices /\ IsSession(1)
      /\ Head(pipe) = pipe[1]
      /\ \A i \in Indices' : /\ i \in Nat /\ i + 1 \in Indices /\ i + 1 > 1 /\ pipe'[i] = pipe[i + 1]
                             /\ IsSession(i)' <=> IsSession(i + 1)
                             /\ IsTurn(i)' <=> IsTurn(i + 1)
                             /\ IsResponse(i)' <=> IsResponse(i + 1)
                             /\ pipe[i + 1].for \in Callers /\ pipe[i + 1].session \in Sessions
  BY <1>a, Taken DEF IsSession
<1>c. invoke' = IF At(c) = "opening" THEN [invoke EXCEPT ![c].at = "opened", ![c].session = s] ELSE invoke
  BY <1>b DEF ReadSession, At
<1>d. \A d \in Callers : Sound(d) => Sound(d)'
  <2>1. ~IsChunk(1)
    BY <1>b DEF IsChunk, IsSession
  <2>2. \A d \in Callers : Pending(d)' <=> Pending(d)
    BY <1>a DEF Pending
  <2> QED BY <1>a, <2>1, <2>2, TakeKeepsSound
<1>e. \A d \in Callers : PartsOf(d)' = PartsOf(d) /\ Chunks(d)' = Chunks(d) /\ turn'[d] = turn[d]
  BY <1>a DEF PartsOf, Chunks
<1>1. CASE At(c) # "opening"
  <2>1. invoke' = invoke
    BY <1>1, <1>c
  <2>2. \A d \in Callers : At(d)' = At(d) /\ SessionOf(d)' = SessionOf(d)
    BY <2>1 DEF At, SessionOf
  <2>3. Reading'
    BY <1>a, <1>b DEF Reading
  <2>4. Followed'
    BY <1>a, <1>d, <1>e, <2>1, <2>2 DEF Followed
  <2> QED BY <1>a, <2>1, <2>2, <2>3, <2>4, TakeKeeps DEF Typed
<1>2. CASE At(c) = "opening"
  <2>1. /\ invoke' \in [Callers -> InvokeRecord]
        /\ At(c)' = "opened" /\ SessionOf(c)' = s
        /\ \A d \in Callers : d # c => invoke'[d] = invoke[d] /\ At(d)' = At(d) /\ SessionOf(d)' = SessionOf(d)
    <3> DEFINE x == [invoke[c] EXCEPT !.at = "opened", !.session = s]
    <3>1. invoke[c] \in InvokeRecord
      BY <1>a, <1>b DEF Typed
    <3>2. x \in InvokeRecord /\ x.at = "opened" /\ x.session = s
      BY <1>b, <3>1 DEF InvokeRecord
    <3>3. invoke' = [invoke EXCEPT ![c] = x]
      BY <1>2, <1>c
    <3> HIDE DEF x
    <3> QED BY <1>a, <1>b, <3>2, <3>3, Moved DEF At, SessionOf
  \* The session is nobody else's, and nothing follows on it.
  <2>2. /\ s \notin free /\ remote[s] = None /\ SessionOf(c) = None
        /\ \A d \in Callers : At(d) = "opened" => SessionOf(d) # s
        /\ \A j \in Indices : j > 1 => pipe[j].session # s
        /\ \A j \in Indices : j > 1 => ~(IsSession(j) /\ pipe[j].for = c)
    BY <1>a, <1>b DEF Handed
  <2>3. \A j \in Indices : IsTurn(j) => pipe[j].for # c
    BY <1>a, <1>2 DEF TurnMessages, Waiting
  <2>4. Typed'
    BY <1>a, <1>b, <2>1 DEF Typed, PartsOf
  <2>5. Stages'
    BY <1>a, <1>b, <1>e, <1>2, <2>1 DEF Stages, Working
  <2>6. Held'
    <3> SUFFICES ASSUME NEW t \in Sessions, NEW d \in Callers
                 PROVE turns[t] = d <=> SessionOf(d)' = t /\ At(d)' \in Working
      BY <1>a DEF Held
    <3>1. At(c) \notin Working /\ "opened" \notin Working
      BY <1>2 DEF Working
    <3> QED BY <1>a, <2>1, <3>1 DEF Held
  <2>7. Prompted'
    <3> SUFFICES ASSUME NEW t \in Sessions, NEW d \in Callers, remote[t] = d
                 PROVE /\ SessionOf(d)' = t
                       /\ At(d)' \in Waiting
                       /\ t \notin free
                       /\ \A e \in Callers : e # d /\ SessionOf(e)' = t => At(e)' \in Settled
                       /\ \A i \in Indices' : IsSession(i)' => pipe'[i].session # t
                       /\ \A i \in Indices' : IsResponse(i)' => pipe'[i].for # d
      BY <1>a DEF Prompted
    <3>1. d # c
      BY <1>a, <1>2 DEF Prompted, Waiting
    <3>2. t # s
      BY <2>2, ACPAssumption
    <3> QED BY <1>a, <1>b, <2>1, <3>1, <3>2 DEF Prompted
  <2>8. TurnMessages'
    <3> SUFFICES ASSUME NEW i \in Indices', IsTurn(i)', NEW d \in Callers, d = pipe[i + 1].for,
                        NEW t \in Sessions, t = pipe[i + 1].session
                 PROVE /\ SessionOf(d)' = t
                       /\ At(d)' \in Waiting
                       /\ \A e \in Callers : e # d /\ SessionOf(e)' = t => At(e)' \in Settled
                       /\ IsResponse(i)' => \A j \in Indices' : j > i => pipe'[j].for # d
      BY <1>b DEF TurnMessages
    <3>1. d # c /\ t # s
      BY <1>b, <2>2, <2>3
    <3>2. \A j \in Indices' : j > i => j + 1 > i + 1
      BY <1>b
    <3> QED BY <1>a, <1>b, <2>1, <3>1, <3>2 DEF TurnMessages
  <2>9. Handed'
    <3> SUFFICES ASSUME NEW i \in Indices', IsSession(i)', NEW d \in Callers, d = pipe[i + 1].for,
                        NEW t \in Sessions, t = pipe[i + 1].session
                 PROVE /\ t \notin free
                       /\ remote[t] = None
                       /\ SessionOf(d)' = None
                       /\ \A e \in Callers : At(e)' = "opened" => SessionOf(e)' # t
                       /\ \A j \in Indices' : j > i => pipe'[j].session # t
                       /\ \A j \in Indices' : j > i => ~(IsSession(j)' /\ pipe'[j].for = d)
      BY <1>a, <1>b DEF Handed
    <3>1. d # c /\ t # s
      BY <1>b, <2>2
    <3>2. \A j \in Indices' : j > i => j + 1 > i + 1
      BY <1>b
    <3> QED BY <1>a, <1>b, <2>1, <3>1, <3>2 DEF Handed
  <2>10. Opened'
    <3> SUFFICES ASSUME NEW d \in Callers, At(d)' = "opened", NEW t, t = SessionOf(d)'
                 PROVE /\ t \notin free
                       /\ remote[t] = None
                       /\ \A i \in Indices' : pipe'[i].session # t
                       /\ \A e \in Callers : e # d /\ At(e)' = "opened" => SessionOf(e)' # t
      BY <1>a DEF Opened
    <3>1. CASE d = c
      BY <3>1, <1>b, <2>1, <2>2
    <3>2. CASE d # c
      BY <3>2, <1>a, <1>b, <2>1, <2>2 DEF Opened
    <3> QED BY <3>1, <3>2
  <2>11. Reading'
    BY <1>a, <1>b DEF Reading
  <2>12. Followed'
    BY <1>a, <1>d, <1>e, <2>1 DEF Followed
  <2> QED BY <2>4, <2>5, <2>6, <2>7, <2>8, <2>9, <2>10, <2>11, <2>12 DEF IInv
<1> QED BY <1>1, <1>2

\* An update is for the turn its session has, as nobody else has that session.
LEMMA ReadUpdateKeeps == ASSUME IInv, ReadUpdate PROVE IInv'
<1>0. pipe[1].for \in Callers /\ pipe[1].session \in Sessions
  BY Taken DEF IInv, ReadUpdate
<1> SUFFICES ASSUME NEW c \in Callers, c = pipe[1].for, NEW s \in Sessions, s = pipe[1].session,
                    NEW x, x = pipe[1].content
             PROVE IInv'
  BY <1>0
<1>a. /\ Typed /\ Held /\ TurnMessages /\ Reading /\ Followed
      /\ Take("update") /\ UNCHANGED <<invoke, turns, turn, remote, free, sent>>
  BY DEF IInv, ReadUpdate
<1>b. /\ reader = NoUpdate /\ 1 \in Indices /\ pipe[1].kind = "update" /\ IsTurn(1)
      /\ Head(pipe) = pipe[1]
      /\ \A i \in Indices' : /\ i \in Nat /\ i + 1 \in Indices /\ i + 1 > 1 /\ pipe'[i] = pipe[i + 1]
                             /\ IsChunk(i)' <=> IsChunk(i + 1)
      /\ \A i \in Indices : i # 1 => i - 1 \in Indices' /\ pipe'[i - 1] = pipe[i] /\ i > 1 /\ (IsChunk(i - 1)' <=> IsChunk(i))
  BY <1>a, Taken DEF IsTurn
<1>c. x \in Contents
  <2>1. pipe[1] \in MessageSet
    BY <1>a, <1>b DEF Typed, Indices
  <2> QED BY <1>b, <2>1, Messages
<1>1. /\ At(c) \in Waiting /\ SessionOf(c) = s
      /\ turns[s] \in {None, c}
      /\ At(c) = "prompting" => turns[s] = c
  <2>1. At(c) \in Waiting /\ SessionOf(c) = s /\ \A d \in Callers : d # c /\ SessionOf(d) = s => At(d) \in Settled
    BY <1>a, <1>b DEF TurnMessages
  <2>2. \A d \in Callers : turns[s] = d => SessionOf(d) = s /\ At(d) \notin Settled
    BY <1>a, <1>b DEF Held, Working, Settled
  <2>3. turns[s] \in Callers \cup {None}
    BY <1>a, <1>b DEF Typed
  <2>4. At(c) = "prompting" => turns[s] = c
    BY <1>a, <1>b, <2>1 DEF Held, Working
  <2> QED BY <2>1, <2>2, <2>3, <2>4
<1>2. reader' = IF turns[s] = None THEN NoUpdate ELSE [turn |-> c, content |-> x, for |-> c]
  BY <1>b, <1>1 DEF ReadUpdate
<1>3. \A d \in Callers : /\ At(d)' = At(d) /\ SessionOf(d)' = SessionOf(d) /\ invoke'[d] = invoke[d]
                         /\ PartsOf(d)' = PartsOf(d) /\ Chunks(d)' = Chunks(d) /\ turn'[d] = turn[d]
  BY <1>a DEF At, SessionOf, PartsOf, Chunks
<1>4. /\ reader' \in [turn : Callers \cup {None}, content : Contents \cup {None}, for : Callers \cup {None}]
      /\ reader' # NoUpdate => reader'.turn \in Callers /\ reader'.content \in Contents /\ reader'.for \in Callers
      /\ Reading'
  <2>1. CASE turns[s] = None
    BY <1>2, <2>1 DEF NoUpdate, Reading
  <2>2. CASE turns[s] # None
    BY <1>b, <1>c, <1>1, <1>2, <1>3, <2>2 DEF Reading
  <2> QED BY <2>1, <2>2
<1>5. \A d \in Callers : ~Pending(d)
  BY <1>b DEF Pending
<1>6. \A d \in Callers : Pending(d)' <=> d = c /\ turns[s] # None /\ x \notin NoChunks
  <2>1. [turn |-> c, content |-> x, for |-> c] # NoUpdate
    BY <1>b, ACPAssumption DEF NoUpdate
  <2>2. CASE turns[s] = None
    BY <1>2, <2>2 DEF Pending
  <2>3. CASE turns[s] # None
    BY <1>2, <2>1, <2>3 DEF Pending
  <2> QED BY <2>2, <2>3
<1>7. ASSUME NEW d \in Callers, Sound(d), d # c \/ x \in NoChunks
      PROVE Sound(d)'
  <2>1. ~(IsChunk(1) /\ pipe[1].for = d)
    BY <1>7 DEF IsChunk
  <2>2. Pending(d)' <=> Pending(d)
    BY <1>5, <1>6, <1>7
  <2> QED BY <1>a, <1>5, <1>7, <2>1, <2>2, TakeKeepsSound
\* The chunk that is read is the next one.
<1>8. ASSUME Sound(c), x \notin NoChunks, turns[s] = c
      PROVE Sound(c)'
  <2> SUFFICES ASSUME NEW n, n = pipe[1].n PROVE Sound(c)'
    OBVIOUS
  <2>1. Len(PartsOf(c)) \in Nat /\ Len(Chunks(c)) \in Nat
    <3>1. PartsOf(c) \in Seq(ChunkSet) /\ Chunks(c) \in Seq(ChunkSet)
      BY <1>a DEF Typed, PartsOf, Chunks
    <3> QED BY <3>1
  <2>2. Reached(c) = Len(PartsOf(c)) /\ Reached(c)' = Len(PartsOf(c)) + 1 /\ Pending(c)'
    BY <1>b, <1>3, <1>5, <1>6, <1>8, ACPAssumption DEF Reached
  <2>3. /\ IsChunk(1) /\ pipe[1].for = c
        /\ n \in (Reached(c) + 1)..Len(Chunks(c))
        /\ Chunks(c)[n] = Chunk(x, c)
        /\ \A j \in Indices : j > 1 /\ IsChunk(j) /\ pipe[j].for = c => n < pipe[j].n
    <3>1. IsChunk(1) /\ pipe[1].for = c
      BY <1>b, <1>8 DEF IsChunk
    <3> QED BY <1>b, <1>8, <3>1 DEF Sound, InOrder
  <2>4. n = Reached(c) + 1
    <3> SUFFICES ASSUME n # Reached(c) + 1 PROVE FALSE
      OBVIOUS
    <3>1. Reached(c) + 1 \in (Reached(c) + 1)..Len(Chunks(c)) /\ Reached(c) + 1 < n
      BY <2>1, <2>2, <2>3
    <3>2. PICK i \in Indices : IsChunk(i) /\ pipe[i].for = c /\ pipe[i].n = Reached(c) + 1
      BY <1>8, <3>1 DEF Sound, InOrder
    <3>3. i > 1
      BY <1>b, <3>1, <3>2
    <3>4. n < Reached(c) + 1
      BY <2>3, <3>2, <3>3
    <3> QED BY <2>1, <2>2, <2>3, <3>1, <3>4
  <2>5. /\ Reached(c)' = n /\ n \in Nat /\ n <= Len(Chunks(c))
        /\ Chunks(c)[n] = Chunk(x, c)
    BY <2>1, <2>2, <2>3, <2>4
  <2>6. reader'.content = x
    BY <1>b, <1>2, <1>8, ACPAssumption
  <2>7. ASSUME NEW i \in Indices', IsChunk(i)', pipe'[i].for = c
        PROVE /\ pipe'[i].n \in (n + 1)..Len(Chunks(c))
              /\ Chunks(c)[pipe'[i].n] = Chunk(pipe'[i].content, c)
              /\ \A j \in Indices' : j > i /\ IsChunk(j)' /\ pipe'[j].for = c => pipe'[i].n < pipe'[j].n
    <3>1. \A j \in Indices' : j > i => j + 1 > i + 1
      BY <1>b
    <3>2. i + 1 \in Indices /\ i + 1 > 1 /\ IsChunk(i + 1) /\ pipe[i + 1].for = c /\ pipe'[i] = pipe[i + 1]
      BY <1>b, <2>7
    <3>3. /\ pipe[i + 1].n \in (Reached(c) + 1)..Len(Chunks(c))
          /\ Chunks(c)[pipe[i + 1].n] = Chunk(pipe[i + 1].content, c)
          /\ \A j \in Indices : j > i + 1 /\ IsChunk(j) /\ pipe[j].for = c => pipe[i + 1].n < pipe[j].n
      BY <1>8, <3>2 DEF Sound, InOrder
    <3>4. n < pipe[i + 1].n
      BY <2>3, <3>2
    <3>5. pipe[i + 1].n \in (n + 1)..Len(Chunks(c))
      BY <2>1, <2>2, <2>5, <3>3, <3>4
    <3> QED BY <1>b, <3>1, <3>2, <3>3, <3>5
  <2>8. ASSUME NEW k \in (n + 1)..Len(Chunks(c))
        PROVE \E i \in Indices' : IsChunk(i)' /\ pipe'[i].for = c /\ pipe'[i].n = k
    <3>1. k \in (Reached(c) + 1)..Len(Chunks(c)) /\ k # n
      BY <2>1, <2>2, <2>4, <2>5
    <3>2. PICK i \in Indices : IsChunk(i) /\ pipe[i].for = c /\ pipe[i].n = k
      BY <1>8, <3>1 DEF Sound, InOrder
    <3>3. i # 1
      BY <3>1, <3>2
    <3> QED BY <1>b, <3>2, <3>3
  <2>9. InOrder(c)'
    BY <1>3, <1>b, <2>5, <2>7, <2>8 DEF InOrder
  <2>10. \A k \in 1..Len(PartsOf(c)) : PartsOf(c)[k] = Chunks(c)[k]
    BY <1>8 DEF Sound
  <2> QED BY <1>b, <1>3, <2>2, <2>5, <2>6, <2>9, <2>10 DEF Sound
<1>9. Followed'
  <2> SUFFICES ASSUME NEW d \in Callers, At(d) = "prompting", ~turn[d].err PROVE Sound(d)'
    BY <1>a, <1>3 DEF Followed
  <2>1. Sound(d)
    BY <1>a DEF Followed
  <2> QED BY <1>1, <1>7, <1>8, <2>1
<1> QED BY <1>a, <1>3, <1>4, <1>9, TakeKeeps DEF Typed

\* What is added is the next chunk, or the error that ends the turn.
LEMMA AddKeeps == ASSUME IInv, Add PROVE IInv'
<1>0. reader.turn \in Callers
  BY DEF IInv, Typed, Add
<1> SUFFICES ASSUME NEW a \in Callers, a = reader.turn PROVE IInv'
  BY <1>0
<1> DEFINE x == reader.content
           t == CASE turn[a].err \/ x \in NoChunks -> turn[a]
                  [] ~turn[a].err /\ x \in {"text", "link"} ->
                       [parts |-> Append(turn[a].parts, Chunk(x, a)), err |-> FALSE]
                  [] OTHER -> [turn[a] EXCEPT !.err = TRUE]
<1>a. /\ Typed /\ Stages /\ Held /\ Prompted /\ TurnMessages /\ Handed /\ Opened /\ Reading /\ Followed
      /\ UNCHANGED <<invoke, turns, pipe, remote, free, sent>>
      /\ reader # NoUpdate /\ reader' = NoUpdate
  BY DEF IInv, Add
<1>b. reader.for = a /\ At(a) \in Waiting /\ x \in Contents /\ Chunk(x, a) \in ChunkSet
  BY <1>a DEF Reading, Typed, Chunk, ChunkSet
<1>c. turn' = [turn EXCEPT ![a] = t]
  BY <1>b DEF Add
<1>d. turn[a] \in [parts : Seq(ChunkSet), err : BOOLEAN] /\ PartsOf(a) = turn[a].parts
  BY <1>a DEF Typed, PartsOf
\* The three outcomes.
<1>1. \/ t = turn[a] /\ (turn[a].err \/ x \in NoChunks)
      \/ /\ t = [parts |-> Append(PartsOf(a), Chunk(x, a)), err |-> FALSE]
         /\ ~turn[a].err /\ x \in {"text", "link"} /\ x \notin NoChunks
      \/ t = [turn[a] EXCEPT !.err = TRUE]
  BY DEF NoChunks, PartsOf
<1> HIDE DEF t, x
<1>2. /\ t \in [parts : Seq(ChunkSet), err : BOOLEAN]
      /\ \A k \in 1..Len(t.parts) : t.parts[k].content \in {"text", "link"}
  <2>1. \A k \in 1..Len(PartsOf(a)) : PartsOf(a)[k].content \in {"text", "link"}
    BY <1>a DEF Typed
  <2>2. CASE /\ t = [parts |-> Append(PartsOf(a), Chunk(x, a)), err |-> FALSE]
             /\ x \in {"text", "link"}
    BY <1>b, <1>d, <2>1, <2>2 DEF Chunk
  <2>3. CASE t = turn[a] \/ t = [turn[a] EXCEPT !.err = TRUE]
    BY <1>d, <2>1, <2>3
  <2> QED BY <1>1, <2>2, <2>3
<1>3. /\ turn' \in [Callers -> [parts : Seq(ChunkSet), err : BOOLEAN]]
      /\ turn'[a] = t /\ PartsOf(a)' = t.parts
      /\ \A d \in Callers : d # a => turn'[d] = turn[d] /\ PartsOf(d)' = PartsOf(d)
  BY <1>a, <1>c, <1>2 DEF Typed, PartsOf
<1>4. /\ Indices' = Indices
      /\ \A i : (IsSession(i)' <=> IsSession(i)) /\ (IsTurn(i)' <=> IsTurn(i))
                /\ (IsResponse(i)' <=> IsResponse(i)) /\ (IsChunk(i)' <=> IsChunk(i))
      /\ \A d : At(d)' = At(d) /\ SessionOf(d)' = SessionOf(d) /\ Chunks(d)' = Chunks(d)
  BY <1>a DEF Indices, IsSession, IsTurn, IsResponse, IsChunk, At, SessionOf, Chunks
<1>5. Typed'
  BY <1>a, <1>2, <1>3 DEF Typed, NoUpdate
<1>6. Stages' /\ Held'
  BY <1>a, <1>b, <1>3, <1>4 DEF Stages, Held, Waiting
<1>7. Prompted' /\ Opened'
  BY <1>a, <1>4 DEF Prompted, Opened
<1>8. TurnMessages' /\ Handed'
  BY <1>a, <1>4 DEF TurnMessages, Handed, At, SessionOf
<1>9. Reading'
  BY <1>a DEF Reading
<1>10. \A d \in Callers : ~Pending(d)' /\ (Pending(d) <=> d = a /\ x \notin NoChunks)
  BY <1>a DEF Pending, x
<1>11. ASSUME NEW d \in Callers, Sound(d), PartsOf(d)' = PartsOf(d), ~Pending(d)
       PROVE Sound(d)'
  BY <1>a, <1>4, <1>10, <1>11 DEF Sound, InOrder, Reached
<1>12. ASSUME Sound(a), t = [parts |-> Append(PartsOf(a), Chunk(x, a)), err |-> FALSE], x \notin NoChunks
       PROVE Sound(a)'
  <2>1. Len(PartsOf(a)) \in Nat /\ Len(Chunks(a)) \in Nat
    BY <1>a DEF Typed, PartsOf, Chunks
  <2>2. PartsOf(a)' = Append(PartsOf(a), Chunk(x, a)) /\ Len(PartsOf(a)') = Len(PartsOf(a)) + 1
    BY <1>d, <1>b, <1>3, <1>12
  <2>3. Reached(a) = Len(PartsOf(a)) + 1 /\ Reached(a)' = Reached(a)
    BY <1>10, <1>12, <2>1, <2>2 DEF Reached
  <2>4. \A k \in 1..Len(PartsOf(a)') : PartsOf(a)'[k] = Chunks(a)[k]
    <3>1. Chunks(a)[Reached(a)] = Chunk(x, a) /\ \A k \in 1..Len(PartsOf(a)) : PartsOf(a)[k] = Chunks(a)[k]
      BY <1>10, <1>12 DEF Sound, x
    <3> QED BY <1>b, <1>d, <2>1, <2>2, <2>3, <3>1
  <2> QED BY <1>4, <1>10, <1>12, <2>3, <2>4, <1>a DEF Sound, InOrder
<1>13. Followed'
  <2>1. ASSUME NEW d \in Callers, At(d) = "prompting", ~turn'[d].err PROVE Sound(d)'
    <3>1. CASE d # a
      BY <1>a, <1>3, <1>10, <1>11, <2>1, <3>1 DEF Followed
    <3>2. CASE d = a
      <4>1. ~t.err
        BY <1>3, <2>1, <3>2
      <4>2. CASE t = turn[a] /\ (turn[a].err \/ x \in NoChunks)
        BY <1>a, <1>3, <1>10, <1>11, <1>d, <2>1, <3>2, <4>1, <4>2 DEF Followed
      <4>3. CASE /\ t = [parts |-> Append(PartsOf(a), Chunk(x, a)), err |-> FALSE]
                 /\ ~turn[a].err /\ x \in {"text", "link"} /\ x \notin NoChunks
        BY <1>a, <1>12, <2>1, <3>2, <4>3 DEF Followed
      <4>4. CASE t = [turn[a] EXCEPT !.err = TRUE]
        BY <1>d, <4>1, <4>4
      <4> QED BY <1>1, <4>2, <4>3, <4>4
    <3> QED BY <3>1, <3>2
  <2>2. ASSUME NEW d \in Callers, At(d) = "answered", ~turn'[d].err PROVE PartsOf(d)' = Chunks(d)
    BY <1>a, <1>b, <1>3, <2>2 DEF Followed, Waiting
  <2> QED BY <1>a, <1>4, <2>1, <2>2 DEF Followed
<1> QED BY <1>5, <1>6, <1>7, <1>8, <1>9, <1>13 DEF IInv

\* A response comes after all the chunks of its prompt, and was the last message
\* of it.
LEMMA ReadResponseKeeps == ASSUME IInv, ReadResponse PROVE IInv'
<1>0. pipe[1].for \in Callers
  BY Taken DEF IInv, ReadResponse
<1> SUFFICES ASSUME NEW c \in Callers, c = pipe[1].for PROVE IInv'
  BY <1>0
<1>a. /\ Typed /\ Prompted /\ TurnMessages /\ Reading /\ Followed
      /\ Take("response") /\ UNCHANGED <<turns, turn, reader, remote, free, sent>>
  BY DEF IInv, ReadResponse
<1>b. /\ reader = NoUpdate /\ 1 \in Indices /\ IsResponse(1) /\ IsTurn(1) /\ ~IsChunk(1) /\ Head(pipe) = pipe[1]
      /\ \A i \in Indices : i # 1 => i > 1
  BY <1>a, Taken DEF IsTurn, IsResponse, IsChunk
<1>c. pipe[1].stop \in StopReasons
  <2>1. pipe[1] \in MessageSet
    BY <1>a, <1>b DEF Typed, Indices
  <2> QED BY <1>b, <2>1, Messages DEF IsResponse
<1>1. invoke' = IF At(c) = "prompting"
                THEN [invoke EXCEPT ![c].at = "answered", ![c].stop = pipe[1].stop] ELSE invoke
  BY <1>b DEF ReadResponse, At
<1>2. /\ invoke' \in [Callers -> InvokeRecord]
      /\ \A d \in Callers : /\ SessionOf(d)' = SessionOf(d) /\ invoke'[d].answer = invoke[d].answer
                            /\ \/ At(d)' = At(d)
                               \/ d = c /\ At(d) = "prompting" /\ At(d)' = "answered"
  <2>1. CASE At(c) = "prompting"
    <3> DEFINE x == [invoke[c] EXCEPT !.at = "answered", !.stop = pipe[1].stop]
    <3>1. invoke[c] \in InvokeRecord
      BY <1>a DEF Typed
    <3>2. x \in InvokeRecord /\ x.at = "answered" /\ x.session = invoke[c].session /\ x.answer = invoke[c].answer
      BY <1>c, <3>1 DEF InvokeRecord
    <3>3. invoke' = [invoke EXCEPT ![c] = x]
      BY <1>1, <2>1
    <3> HIDE DEF x
    <3> QED BY <1>a, <2>1, <3>2, <3>3, Moved DEF At, SessionOf
  <2>2. CASE At(c) # "prompting"
    BY <1>1, <1>a, <2>2 DEF At, SessionOf, Typed
  <2> QED BY <2>1, <2>2
\* The prompt is over: no session works on it and no message of it follows.
<1>3. /\ \A s \in Sessions : remote[s] # c
      /\ \A i \in Indices : i > 1 => pipe[i].for # c
  BY <1>a, <1>b DEF Prompted, TurnMessages
<1>4. Reading'
  BY <1>a, <1>b DEF Reading
<1>5. \A d \in Callers : turn'[d] = turn[d] /\ PartsOf(d)' = PartsOf(d) /\ Chunks(d)' = Chunks(d) /\ ~Pending(d)
  BY <1>a, <1>b DEF PartsOf, Chunks, Pending
<1>6. \A d \in Callers : Sound(d) => Sound(d)'
  <2>1. \A d \in Callers : Pending(d)' <=> Pending(d)
    BY <1>a DEF Pending
  <2> QED BY <1>a, <1>b, <2>1, TakeKeepsSound
<1>7. ASSUME Sound(c) PROVE PartsOf(c) = Chunks(c)
  <2>1. PartsOf(c) \in Seq(ChunkSet) /\ Chunks(c) \in Seq(ChunkSet)
    BY <1>a DEF Typed, PartsOf, Chunks
  <2>2. Reached(c) = Len(PartsOf(c))
    BY <1>5, <2>1 DEF Reached
  <2>3. \A i \in Indices : ~(IsChunk(i) /\ pipe[i].for = c)
    BY <1>b, <1>3
  <2>4. ~(Len(PartsOf(c)) < Len(Chunks(c)))
    <3> SUFFICES ASSUME Len(PartsOf(c)) < Len(Chunks(c)) PROVE FALSE
      OBVIOUS
    <3>1. Len(Chunks(c)) \in (Reached(c) + 1)..Len(Chunks(c))
      BY <2>1, <2>2
    <3> QED BY <1>7, <2>3, <3>1 DEF Sound, InOrder
  <2>5. Len(PartsOf(c)) = Len(Chunks(c))
    BY <1>7, <2>1, <2>2, <2>4 DEF Sound
  <2>6. \A k \in 1..Len(PartsOf(c)) : PartsOf(c)[k] = Chunks(c)[k]
    BY <1>7 DEF Sound
  <2> QED BY <2>1, <2>5, <2>6, SeqEqual
<1>8. Followed'
  BY <1>a, <1>2, <1>5, <1>6, <1>7 DEF Followed
<1>9. \A d \in Callers : /\ SessionOf(d)' = SessionOf(d)
                         /\ At(d)' = At(d) \/ (At(d) = "prompting" /\ At(d)' = "answered")
                         /\ At(d)' # At(d) => /\ \A s \in Sessions : remote[s] # d
                                              /\ \A i \in Indices : i > 1 => pipe[i].for # d
  BY <1>2, <1>3
<1> QED BY <1>a, <1>2, <1>4, <1>8, <1>9, TakeKeeps DEF Typed

-----------------------------------------------------------------------------
(* Messages that are sent *)

\* A message comes last, and the others stay where they are.
LEMMA Sent ==
  ASSUME Typed, NEW m \in MessageSet, pipe' = Append(pipe, m), NEW l, l = Len(pipe) + 1
  PROVE /\ pipe' \in Seq(MessageSet)
        /\ \A i \in Indices : /\ i \in Indices' /\ pipe'[i] = pipe[i] /\ i < l
                              /\ IsSession(i)' <=> IsSession(i)
                              /\ IsTurn(i)' <=> IsTurn(i)
                              /\ IsResponse(i)' <=> IsResponse(i)
                              /\ IsChunk(i)' <=> IsChunk(i)
                              /\ pipe[i].for \in Callers /\ pipe[i].session \in Sessions
        /\ l \in Indices' /\ pipe'[l] = m
        /\ \A i \in Indices' : (i \in Indices \/ i = l) /\ ~(i > l)
        /\ IsSession(l)' <=> m.kind = "session"
        /\ IsTurn(l)' <=> m.kind # "session"
        /\ IsResponse(l)' <=> m.kind = "response"
        /\ IsChunk(l)' <=> m.kind = "update" /\ m.content \notin NoChunks
<1>1. \A i \in Indices : pipe[i].for \in Callers /\ pipe[i].session \in Sessions
  BY Messages DEF Typed, Indices
<1>2. /\ Len(pipe) \in Nat /\ Len(pipe') = l
      /\ \A i \in Indices : i \in Indices' /\ pipe'[i] = pipe[i] /\ i < l
      /\ l \in Indices' /\ pipe'[l] = m
      /\ \A i \in Indices' : i \in Indices \/ i = l
      /\ pipe' \in Seq(MessageSet)
  BY PipeGrows
<1>3. \A i \in Indices' : ~(i > l)
  BY <1>2 DEF Indices
<1>4. /\ IsSession(l)' <=> m.kind = "session"
      /\ IsTurn(l)' <=> m.kind # "session"
      /\ IsResponse(l)' <=> m.kind = "response"
      /\ IsChunk(l)' <=> m.kind = "update" /\ m.content \notin NoChunks
  BY <1>2 DEF IsSession, IsTurn, IsResponse, IsChunk
<1>5. \A i \in Indices : /\ IsSession(i)' <=> IsSession(i)
                         /\ IsTurn(i)' <=> IsTurn(i)
                         /\ IsResponse(i)' <=> IsResponse(i)
                         /\ IsChunk(i)' <=> IsChunk(i)
  BY <1>2 DEF IsSession, IsTurn, IsResponse, IsChunk
<1> QED BY <1>1, <1>2, <1>3, <1>4, <1>5

\* What is no chunk of it leaves a turn sound.
LEMMA SentKeepsSound ==
  ASSUME Typed, NEW m \in MessageSet, pipe' = Append(pipe, m), UNCHANGED <<turn, reader>>,
         NEW c \in Callers, Sound(c), Chunks(c)' = Chunks(c),
         m.kind # "update" \/ m.for # c \/ m.content \in NoChunks
  PROVE Sound(c)'
<1>1. PartsOf(c)' = PartsOf(c) /\ Reached(c)' = Reached(c) /\ (Pending(c)' <=> Pending(c))
  BY DEF PartsOf, Reached, Pending
<1>2. /\ \A i \in Indices : i \in Indices' /\ pipe'[i] = pipe[i] /\ (IsChunk(i)' <=> IsChunk(i))
      /\ \A i \in Indices' : IsChunk(i)' /\ pipe'[i].for = c => i \in Indices
  <2> SUFFICES ASSUME NEW l, l = Len(pipe) + 1
               PROVE /\ \A i \in Indices : i \in Indices' /\ pipe'[i] = pipe[i] /\ (IsChunk(i)' <=> IsChunk(i))
                     /\ \A i \in Indices' : IsChunk(i)' /\ pipe'[i].for = c => i \in Indices
    OBVIOUS
  <2>1. /\ \A i \in Indices' : i \in Indices \/ i = l
        /\ pipe'[l] = m
        /\ IsChunk(l)' <=> m.kind = "update" /\ m.content \notin NoChunks
    BY Sent
  <2>2. \A i \in Indices : i \in Indices' /\ pipe'[i] = pipe[i] /\ (IsChunk(i)' <=> IsChunk(i))
    BY Sent
  <2> QED BY <2>1, <2>2
<1>3. InOrder(c)'
  <2>1. ASSUME NEW i \in Indices', IsChunk(i)', pipe'[i].for = c
        PROVE /\ pipe'[i].n \in (Reached(c) + 1)..Len(Chunks(c))
              /\ Chunks(c)[pipe'[i].n] = Chunk(pipe'[i].content, c)
              /\ \A j \in Indices' : j > i /\ IsChunk(j)' /\ pipe'[j].for = c => pipe'[i].n < pipe'[j].n
    <3>1. i \in Indices /\ pipe'[i] = pipe[i] /\ IsChunk(i) /\ pipe[i].for = c
      BY <1>2, <2>1
    <3>2. /\ pipe[i].n \in (Reached(c) + 1)..Len(Chunks(c))
          /\ Chunks(c)[pipe[i].n] = Chunk(pipe[i].content, c)
          /\ \A j \in Indices : j > i /\ IsChunk(j) /\ pipe[j].for = c => pipe[i].n < pipe[j].n
      BY <3>1 DEF Sound, InOrder
    <3> QED BY <1>2, <3>1, <3>2
  <2>2. ASSUME NEW n \in (Reached(c) + 1)..Len(Chunks(c))
        PROVE \E i \in Indices' : IsChunk(i)' /\ pipe'[i].for = c /\ pipe'[i].n = n
    <3>1. PICK i \in Indices : IsChunk(i) /\ pipe[i].for = c /\ pipe[i].n = n
      BY DEF Sound, InOrder
    <3> QED BY <1>2, <3>1
  <2> QED BY <1>1, <2>1, <2>2 DEF InOrder
<1> QED BY <1>1, <1>3 DEF Sound

\* What the remote sends on a session it works on, or answers on it, belongs to
\* the Invoke that has it.
LEMMA PromptSends ==
  ASSUME IInv, NEW s \in Sessions, NEW c \in Callers, remote[s] = c,
         NEW m \in MessageSet, m.kind # "session", m.for = c, m.session = s, pipe' = Append(pipe, m),
         UNCHANGED <<invoke, turns, turn, reader>>
  PROVE TurnMessages'
<1>a. Typed /\ Prompted /\ TurnMessages
  BY DEF IInv
<1> DEFINE l == Len(pipe) + 1
<1>0. l = Len(pipe) + 1
  OBVIOUS
<1>1. /\ \A i \in Indices : /\ i \in Indices' /\ pipe'[i] = pipe[i] /\ i < l
                            /\ IsTurn(i)' <=> IsTurn(i)
                            /\ IsResponse(i)' <=> IsResponse(i)
                            /\ pipe[i].for \in Callers
      /\ l \in Indices' /\ pipe'[l] = m
      /\ \A i \in Indices' : i \in Indices \/ i = l
      /\ \A i \in Indices' : ~(i > l)
  <2> HIDE DEF l
  <2> QED BY <1>a, <1>0, Sent
<1>2. \A d \in Callers : At(d)' = At(d) /\ SessionOf(d)' = SessionOf(d)
  BY DEF At, SessionOf
<1>3. /\ SessionOf(c) = s
      /\ At(c) \in Waiting
      /\ \A d \in Callers : d # c /\ SessionOf(d) = s => At(d) \in Settled
      /\ \A i \in Indices : IsResponse(i) => pipe[i].for # c
  BY <1>a DEF Prompted
<1> HIDE DEF l
<1> SUFFICES ASSUME NEW i \in Indices', IsTurn(i)', NEW d, d = pipe'[i].for, NEW t, t = pipe'[i].session
             PROVE /\ SessionOf(d)' = t
                   /\ At(d)' \in Waiting
                   /\ \A e \in Callers : e # d /\ SessionOf(e)' = t => At(e)' \in Settled
                   /\ IsResponse(i)' => \A j \in Indices' : j > i => pipe'[j].for # d
  BY DEF TurnMessages
<1>4. CASE i = l
  BY <1>1, <1>2, <1>3, <1>4
<1>5. CASE i \in Indices
  <2>1. /\ SessionOf(d) = t /\ At(d) \in Waiting /\ d \in Callers
        /\ \A e \in Callers : e # d /\ SessionOf(e) = t => At(e) \in Settled
        /\ IsResponse(i) => \A j \in Indices : j > i => pipe[j].for # d
    BY <1>a, <1>1, <1>5 DEF TurnMessages
  <2>2. IsResponse(i) => d # c
    BY <1>1, <1>3, <1>5
  <2> QED BY <1>1, <1>2, <1>5, <2>1, <2>2
<1> QED BY <1>1, <1>4, <1>5

\* A free session is handed out.
LEMMA RemoteOpensKeeps == ASSUME IInv, NEW c \in Callers, NEW s \in Sessions, RemoteOpens(c, s) PROVE IInv'
<1> DEFINE m == [kind |-> "session", for |-> c, session |-> s]
<1> SUFFICES ASSUME NEW l, l = Len(pipe) + 1 PROVE IInv'
  OBVIOUS
<1>a. /\ Typed /\ Stages /\ Held /\ Prompted /\ TurnMessages /\ Handed /\ Opened /\ Reading /\ Followed
      /\ UNCHANGED <<invoke, turns, turn, reader, remote, sent>>
      /\ pipe' = Append(pipe, m) /\ s \in free /\ free' = free \ {s}
      /\ SessionOf(c) = None
      /\ \A i \in Indices : ~(IsSession(i) /\ pipe[i].for = c)
  <2>1. \A i \in Indices : i \in DOMAIN pipe
    BY DEF IInv, Typed, Indices
  <2> QED BY <2>1 DEF IInv, RemoteOpens, SessionOf, IsSession
<1>b. m \in MessageSet /\ m.kind = "session" /\ m.for = c /\ m.session = s
  BY DEF MessageSet
<1> HIDE DEF m
<1>1. /\ pipe' \in Seq(MessageSet)
      /\ \A i \in Indices : /\ i \in Indices' /\ pipe'[i] = pipe[i] /\ i < l
                            /\ IsSession(i)' <=> IsSession(i)
                            /\ IsTurn(i)' <=> IsTurn(i)
                            /\ IsResponse(i)' <=> IsResponse(i)
                            /\ pipe[i].for \in Callers /\ pipe[i].session \in Sessions
      /\ l \in Indices' /\ pipe'[l] = m
      /\ \A i \in Indices' : (i \in Indices \/ i = l) /\ ~(i > l)
      /\ IsSession(l)' /\ ~IsTurn(l)' /\ ~IsResponse(l)'
  BY <1>a, <1>b, Sent
<1>2. \A d \in Callers : /\ At(d)' = At(d) /\ SessionOf(d)' = SessionOf(d)
                         /\ PartsOf(d)' = PartsOf(d) /\ Chunks(d)' = Chunks(d) /\ turn'[d] = turn[d]
  BY <1>a DEF At, SessionOf, PartsOf, Chunks
<1>3. Typed'
  BY <1>a, <1>1 DEF Typed, PartsOf
<1>4. Stages' /\ Held'
  BY <1>a, <1>2 DEF Stages, Held
<1>5. Prompted'
  <2> SUFFICES ASSUME NEW t \in Sessions, NEW d \in Callers, remote[t] = d
               PROVE /\ SessionOf(d)' = t
                     /\ At(d)' \in Waiting
                     /\ t \notin free'
                     /\ \A e \in Callers : e # d /\ SessionOf(e)' = t => At(e)' \in Settled
                     /\ \A i \in Indices' : IsSession(i)' => pipe'[i].session # t
                     /\ \A i \in Indices' : IsResponse(i)' => pipe'[i].for # d
    BY <1>a DEF Prompted
  <2>1. /\ SessionOf(d) = t /\ At(d) \in Waiting /\ t \notin free
        /\ \A e \in Callers : e # d /\ SessionOf(e) = t => At(e) \in Settled
        /\ \A i \in Indices : IsSession(i) => pipe[i].session # t
        /\ \A i \in Indices : IsResponse(i) => pipe[i].for # d
    BY <1>a DEF Prompted
  <2>2. /\ \A i \in Indices' : IsSession(i)' => pipe'[i].session # t
        /\ \A i \in Indices' : IsResponse(i)' => pipe'[i].for # d
    BY <1>a, <1>b, <1>1, <2>1
  <2> QED BY <1>a, <1>2, <2>1, <2>2
<1>6. TurnMessages'
  <2> SUFFICES ASSUME NEW i \in Indices', IsTurn(i)', NEW d, d = pipe'[i].for, NEW t, t = pipe'[i].session
               PROVE /\ SessionOf(d)' = t
                     /\ At(d)' \in Waiting
                     /\ \A e \in Callers : e # d /\ SessionOf(e)' = t => At(e)' \in Settled
                     /\ IsResponse(i)' => \A j \in Indices' : j > i => pipe'[j].for # d
    BY DEF TurnMessages
  <2>1. i \in Indices
    BY <1>1
  <2>2. /\ SessionOf(d) = t /\ At(d) \in Waiting /\ d \in Callers /\ t \in Sessions
        /\ \A e \in Callers : e # d /\ SessionOf(e) = t => At(e) \in Settled
        /\ IsResponse(i) => \A j \in Indices : j > i => pipe[j].for # d
    BY <1>a, <1>1, <2>1 DEF TurnMessages
  <2>3. d # c
    BY <1>a, <2>2, ACPAssumption
  <2> QED BY <1>b, <1>1, <1>2, <2>1, <2>2, <2>3
\* The session is new to all that had one, and no other is on its way to c.
<1>7. Handed'
  <2> SUFFICES ASSUME NEW i \in Indices', IsSession(i)', NEW d, d = pipe'[i].for, NEW t, t = pipe'[i].session
               PROVE /\ t \notin free'
                     /\ remote'[t] = None
                     /\ SessionOf(d)' = None
                     /\ \A e \in Callers : At(e)' = "opened" => SessionOf(e)' # t
                     /\ \A j \in Indices' : j > i => pipe'[j].session # t
                     /\ \A j \in Indices' : j > i => ~(IsSession(j)' /\ pipe'[j].for = d)
    BY DEF Handed
  <2>1. CASE i = l
    <3>1. d = c /\ t = s
      BY <1>b, <1>1, <2>1
    <3>2. remote[s] = None
      BY <1>a DEF Prompted, Typed
    <3>3. \A e \in Callers : At(e) = "opened" => SessionOf(e) # s
      BY <1>a DEF Opened
    <3> QED BY <1>a, <1>1, <1>2, <2>1, <3>1, <3>2, <3>3
  <2>2. CASE i \in Indices
    <3>0. d = pipe[i].for /\ t = pipe[i].session /\ d \in Callers /\ IsSession(i)
      BY <1>1, <2>2
    <3>1. /\ t \notin free /\ remote[t] = None /\ SessionOf(d) = None
          /\ \A e \in Callers : At(e) = "opened" => SessionOf(e) # t
          /\ \A j \in Indices : j > i => pipe[j].session # t
          /\ \A j \in Indices : j > i => ~(IsSession(j) /\ pipe[j].for = d)
      BY <1>a, <2>2, <3>0 DEF Handed
    <3>2. t # s /\ d # c
      BY <1>a, <2>2, <3>0, <3>1
    <3> QED BY <1>a, <1>b, <1>1, <1>2, <2>2, <3>0, <3>1, <3>2
  <2> QED BY <1>1, <2>1, <2>2
<1>8. Opened'
  <2> SUFFICES ASSUME NEW d \in Callers, At(d) = "opened", NEW t, t = SessionOf(d)
               PROVE /\ t \notin free'
                     /\ remote'[t] = None
                     /\ \A i \in Indices' : pipe'[i].session # t
                     /\ \A e \in Callers : e # d /\ At(e) = "opened" => SessionOf(e) # t
    BY <1>2 DEF Opened
  <2>1. /\ t \notin free /\ remote[t] = None /\ \A i \in Indices : pipe[i].session # t
        /\ \A e \in Callers : e # d /\ At(e) = "opened" => SessionOf(e) # t
    BY <1>a DEF Opened
  <2>2. t # s
    BY <1>a, <2>1
  <2> QED BY <1>a, <1>b, <1>1, <2>1, <2>2
<1>9. Reading'
  BY <1>a, <1>2 DEF Reading, Typed
<1>10. Followed'
  <2>1. \A d \in Callers : Sound(d) => Sound(d)'
    BY <1>a, <1>b, <1>2, SentKeepsSound
  <2> QED BY <1>a, <1>2, <2>1 DEF Followed
<1> QED BY <1>3, <1>4, <1>5, <1>6, <1>7, <1>8, <1>9, <1>10 DEF IInv

\* An update goes out on a session the remote works on.
LEMMA RemoteUpdatesKeeps ==
  ASSUME IInv, NEW s \in Sessions, NEW content \in Contents, RemoteUpdates(s, content) PROVE IInv'
<1>0. remote[s] \in Callers
  BY DEF IInv, Typed, RemoteUpdates
<1> SUFFICES ASSUME NEW c \in Callers, c = remote[s], NEW l, l = Len(pipe) + 1 PROVE IInv'
  BY <1>0
<1> SUFFICES ASSUME NEW chunks,
                    chunks = IF content \in NoChunks THEN Chunks(c) ELSE Append(Chunks(c), Chunk(content, c))
             PROVE IInv'
  OBVIOUS
<1> DEFINE m == [kind |-> "update", for |-> c, session |-> s, content |-> content, n |-> Len(chunks)]
           y == [updates |-> sent[c].updates + 1, chunks |-> chunks]
<1>a. /\ Typed /\ Stages /\ Held /\ Prompted /\ TurnMessages /\ Handed /\ Opened /\ Reading /\ Followed
      /\ UNCHANGED <<invoke, turns, turn, reader, remote, free>>
      /\ pipe' = Append(pipe, m) /\ sent' = [sent EXCEPT ![c] = y]
  BY DEF IInv, RemoteUpdates, Chunks
<1>b. /\ chunks \in Seq(ChunkSet) /\ Len(chunks) \in Nat
      /\ Chunks(c) \in Seq(ChunkSet) /\ Len(Chunks(c)) \in Nat /\ Len(Chunks(c)) <= Len(chunks)
      /\ \A k \in 1..Len(Chunks(c)) : chunks[k] = Chunks(c)[k]
      /\ content \in NoChunks => chunks = Chunks(c)
      /\ content \notin NoChunks => Len(chunks) = Len(Chunks(c)) + 1 /\ chunks[Len(chunks)] = Chunk(content, c)
  <2>1. Chunk(content, c) \in ChunkSet /\ Chunks(c) \in Seq(ChunkSet)
    BY <1>a DEF Typed, Chunk, ChunkSet, Chunks
  <2> QED BY <2>1
<1>c. y \in [updates : Nat, chunks : Seq(ChunkSet)] /\ y.chunks = chunks
  BY <1>a, <1>b DEF Typed
<1> HIDE DEF y
<1>d. /\ sent' \in [Callers -> [updates : Nat, chunks : Seq(ChunkSet)]]
      /\ Chunks(c)' = chunks /\ \A d \in Callers : d # c => Chunks(d)' = Chunks(d)
  BY <1>a, <1>c DEF Typed, Chunks
<1>e. /\ m \in MessageSet /\ m.kind = "update" /\ m.for = c /\ m.session = s
      /\ m.content = content /\ m.n = Len(chunks)
  BY <1>b DEF MessageSet
<1> HIDE DEF m
<1>1. /\ pipe' \in Seq(MessageSet)
      /\ \A i \in Indices : /\ i \in Indices' /\ pipe'[i] = pipe[i] /\ i < l
                            /\ IsSession(i)' <=> IsSession(i)
                            /\ IsResponse(i)' <=> IsResponse(i)
                            /\ IsChunk(i)' <=> IsChunk(i)
                            /\ pipe[i].for \in Callers
      /\ l \in Indices' /\ pipe'[l] = m
      /\ \A i \in Indices' : (i \in Indices \/ i = l) /\ ~(i > l)
      /\ ~IsSession(l)' /\ ~IsResponse(l)'
      /\ IsChunk(l)' <=> content \notin NoChunks
  <2>1. Typed /\ pipe' = Append(pipe, m) /\ m \in MessageSet /\ l = Len(pipe) + 1
        /\ m.kind = "update" /\ m.content = content
    BY <1>a, <1>e
  <2>2. /\ pipe' \in Seq(MessageSet)
        /\ \A i \in Indices : /\ i \in Indices' /\ pipe'[i] = pipe[i] /\ i < l
                              /\ IsSession(i)' <=> IsSession(i)
                              /\ IsResponse(i)' <=> IsResponse(i)
                              /\ IsChunk(i)' <=> IsChunk(i)
                              /\ pipe[i].for \in Callers
    BY ONLY <2>1, Sent
  <2>3. /\ l \in Indices' /\ pipe'[l] = m
        /\ \A i \in Indices' : (i \in Indices \/ i = l) /\ ~(i > l)
    BY ONLY <2>1, Sent
  <2>4. /\ ~IsSession(l)' /\ ~IsResponse(l)'
        /\ IsChunk(l)' <=> content \notin NoChunks
    BY ONLY <2>1, Sent
  <2> QED BY <2>2, <2>3, <2>4
<1>2. \A d \in Callers : /\ At(d)' = At(d) /\ SessionOf(d)' = SessionOf(d) /\ invoke'[d] = invoke[d]
                         /\ PartsOf(d)' = PartsOf(d) /\ turn'[d] = turn[d]
  BY <1>a DEF At, SessionOf, PartsOf
<1>3. At(c) \in Waiting /\ remote[s] # None
  BY <1>a, ACPAssumption DEF Prompted
<1>4. Typed'
  BY <1>a, <1>1, <1>d DEF Typed, PartsOf
<1>5. Stages' /\ Held'
  <2>1. Stages'
    <3>1. At(c) \notin {"idle", "opening", "opened"}
      BY <1>3 DEF Waiting
    <3> QED BY <1>a, <1>d, <1>2, <3>1 DEF Stages
  <2>2. Held'
    BY <1>a, <1>2 DEF Held
  <2> QED BY <2>1, <2>2
<1>6. Prompted'
  <2> SUFFICES ASSUME NEW t \in Sessions, NEW d \in Callers, remote[t] = d
               PROVE /\ SessionOf(d)' = t
                     /\ At(d)' \in Waiting
                     /\ t \notin free'
                     /\ \A e \in Callers : e # d /\ SessionOf(e)' = t => At(e)' \in Settled
                     /\ \A i \in Indices' : IsSession(i)' => pipe'[i].session # t
                     /\ \A i \in Indices' : IsResponse(i)' => pipe'[i].for # d
    BY <1>a DEF Prompted
  <2>1. /\ SessionOf(d) = t /\ At(d) \in Waiting /\ t \notin free
        /\ \A e \in Callers : e # d /\ SessionOf(e) = t => At(e) \in Settled
        /\ \A i \in Indices : IsSession(i) => pipe[i].session # t
        /\ \A i \in Indices : IsResponse(i) => pipe[i].for # d
    BY <1>a DEF Prompted
  <2>2. \A e \in Callers : e # d /\ SessionOf(e)' = t => At(e)' \in Settled
    BY <1>2, <2>1
  <2>3. \A i \in Indices' : IsSession(i)' => pipe'[i].session # t
    BY <1>1, <2>1
  <2>4. \A i \in Indices' : IsResponse(i)' => pipe'[i].for # d
    BY <1>1, <2>1
  <2>5. SessionOf(d)' = t /\ At(d)' \in Waiting /\ t \notin free'
    BY <1>a, <1>2, <2>1
  <2> QED BY <2>2, <2>3, <2>4, <2>5
<1>7. TurnMessages'
  BY <1>a, <1>e, PromptSends
<1>8. Handed'
  <2> SUFFICES ASSUME NEW i \in Indices, IsSession(i), NEW d, d = pipe[i].for, NEW t, t = pipe[i].session
               PROVE /\ t \notin free'
                     /\ remote'[t] = None
                     /\ SessionOf(d)' = None
                     /\ \A e \in Callers : At(e)' = "opened" => SessionOf(e)' # t
                     /\ \A j \in Indices' : j > i => pipe'[j].session # t
                     /\ \A j \in Indices' : j > i => ~(IsSession(j)' /\ pipe'[j].for = d)
    BY <1>1 DEF Handed
  <2>1. t # s
    BY <1>a DEF Prompted
  <2>2. /\ t \notin free /\ remote[t] = None /\ SessionOf(d) = None /\ d \in Callers
        /\ \A e \in Callers : At(e) = "opened" => SessionOf(e) # t
        /\ \A j \in Indices : j > i => pipe[j].session # t
        /\ \A j \in Indices : j > i => ~(IsSession(j) /\ pipe[j].for = d)
    BY <1>a, <1>1 DEF Handed
  <2>3. t \notin free' /\ remote'[t] = None /\ SessionOf(d)' = None
        /\ \A e \in Callers : At(e)' = "opened" => SessionOf(e)' # t
    BY <1>a, <1>2, <2>2
  <2>4. \A j \in Indices' : j > i => pipe'[j].session # t
    BY <1>e, <1>1, <2>1, <2>2
  <2>5. \A j \in Indices' : j > i => ~(IsSession(j)' /\ pipe'[j].for = d)
    BY <1>1, <2>2
  <2> QED BY <2>3, <2>4, <2>5
<1>9. Opened'
  <2> SUFFICES ASSUME NEW d \in Callers, At(d) = "opened", NEW t, t = SessionOf(d)
               PROVE /\ t \notin free'
                     /\ remote'[t] = None
                     /\ \A i \in Indices' : pipe'[i].session # t
                     /\ \A e \in Callers : e # d /\ At(e) = "opened" => SessionOf(e) # t
    BY <1>2 DEF Opened
  <2>1. /\ t \notin free /\ remote[t] = None /\ \A i \in Indices : pipe[i].session # t
        /\ \A e \in Callers : e # d /\ At(e) = "opened" => SessionOf(e) # t
    BY <1>a DEF Opened
  <2>2. t # s
    BY <1>a, <2>1, <1>3
  <2> QED BY <1>a, <1>e, <1>1, <2>1, <2>2
<1>10. Reading'
  BY <1>a, <1>2 DEF Reading, Typed
<1>11. \A d \in Callers : d # c /\ Sound(d) => Sound(d)'
  BY <1>a, <1>d, <1>e, SentKeepsSound
\* A chunk comes after those that were sent before.
<1>12. ASSUME Sound(c) PROVE Sound(c)'
  <2>1. CASE content \in NoChunks
    BY <1>a, <1>b, <1>d, <1>e, <1>12, <2>1, SentKeepsSound
  <2>2. CASE content \notin NoChunks
    <3>1. /\ Reached(c)' = Reached(c)
          /\ Pending(c)' <=> Pending(c)
          /\ Reached(c) \in Nat /\ Len(PartsOf(c)) \in Nat
          /\ Pending(c) => Reached(c) = Len(PartsOf(c)) + 1
          /\ ~Pending(c) => Reached(c) = Len(PartsOf(c))
      <4>1. Len(PartsOf(c)) \in Nat
        BY <1>a DEF Typed, PartsOf
      <4>2. Pending(c)' <=> Pending(c)
        BY <1>a DEF Pending
      <4>3. PartsOf(c)' = PartsOf(c)
        BY <1>2
      <4> QED BY <4>1, <4>2, <4>3 DEF Reached
    <3>2. Reached(c) <= Len(Chunks(c)) /\ Reached(c) <= Len(chunks)
      BY <1>b, <1>12, <3>1 DEF Sound
    <3>3. \A k \in 1..Len(PartsOf(c)) : PartsOf(c)[k] = chunks[k]
      <4> SUFFICES ASSUME NEW k \in 1..Len(PartsOf(c)) PROVE PartsOf(c)[k] = chunks[k]
        OBVIOUS
      <4>1. k \in 1..Len(Chunks(c))
        BY <1>b, <3>1, <3>2
      <4> QED BY <1>b, <1>12, <4>1 DEF Sound
    <3>4. Pending(c) => chunks[Reached(c)] = Chunk(reader.content, c)
      <4> SUFFICES ASSUME Pending(c) PROVE chunks[Reached(c)] = Chunk(reader.content, c)
        OBVIOUS
      <4>1. Reached(c) \in 1..Len(Chunks(c))
        BY <1>b, <3>1, <3>2
      <4> QED BY <1>b, <1>12, <4>1 DEF Sound
    <3>5. ASSUME NEW i \in Indices', IsChunk(i)', pipe'[i].for = c
          PROVE /\ pipe'[i].n \in (Reached(c) + 1)..Len(chunks)
                /\ chunks[pipe'[i].n] = Chunk(pipe'[i].content, c)
                /\ \A j \in Indices' : j > i /\ IsChunk(j)' /\ pipe'[j].for = c => pipe'[i].n < pipe'[j].n
      <4>1. CASE i = l
        <5>1. pipe'[i].n = Len(chunks) /\ pipe'[i].content = content
          BY <1>e, <1>1, <4>1
        <5> QED BY <1>b, <1>1, <2>2, <3>1, <3>2, <4>1, <5>1
      <4>2. CASE i \in Indices
        <5>1. pipe'[i] = pipe[i] /\ IsChunk(i) /\ pipe[i].for = c
          BY <1>1, <3>5, <4>2
        <5>2. /\ pipe[i].n \in (Reached(c) + 1)..Len(Chunks(c))
              /\ Chunks(c)[pipe[i].n] = Chunk(pipe[i].content, c)
              /\ \A j \in Indices : j > i /\ IsChunk(j) /\ pipe[j].for = c => pipe[i].n < pipe[j].n
          BY <1>12, <4>2, <5>1 DEF Sound, InOrder
        <5>3. /\ pipe[i].n \in (Reached(c) + 1)..Len(chunks) /\ pipe[i].n \in 1..Len(Chunks(c))
              /\ pipe[i].n < Len(chunks)
          BY <1>b, <2>2, <3>1, <5>2
        <5>4. chunks[pipe[i].n] = Chunk(pipe[i].content, c)
          BY <1>b, <5>2, <5>3
        <5>5. \A j \in Indices' : j > i /\ IsChunk(j)' /\ pipe'[j].for = c => pipe[i].n < pipe'[j].n
          BY <1>e, <1>1, <5>2, <5>3
        <5> QED BY <5>1, <5>3, <5>4, <5>5
      <4> QED BY <1>1, <4>1, <4>2
    <3>6. ASSUME NEW n \in (Reached(c) + 1)..Len(chunks)
          PROVE \E i \in Indices' : IsChunk(i)' /\ pipe'[i].for = c /\ pipe'[i].n = n
      <4>1. CASE n = Len(chunks)
        BY <1>e, <1>1, <2>2, <4>1
      <4>2. CASE n # Len(chunks)
        <5>1. n \in (Reached(c) + 1)..Len(Chunks(c))
          BY <1>b, <2>2, <3>1, <4>2
        <5>2. PICK i \in Indices : IsChunk(i) /\ pipe[i].for = c /\ pipe[i].n = n
          BY <1>12, <5>1 DEF Sound, InOrder
        <5> QED BY <1>1, <5>2
      <4> QED BY <4>1, <4>2
    <3>7. Chunks(c)' = chunks /\ PartsOf(c)' = PartsOf(c) /\ reader' = reader
      BY <1>a, <1>d, <1>2
    <3>8. InOrder(c)'
      BY <3>1, <3>5, <3>6, <3>7 DEF InOrder
    <3> QED BY <3>1, <3>2, <3>3, <3>4, <3>7, <3>8 DEF Sound
  <2> QED BY <2>1, <2>2
<1>13. Followed'
  <2> SUFFICES ASSUME NEW d \in Callers
               PROVE /\ At(d) = "prompting" /\ ~turn[d].err => Sound(d)'
                     /\ At(d) = "answered" /\ ~turn[d].err => PartsOf(d) = Chunks(d)'
                     /\ At(d) \in {"succeeding", "done"} => invoke[d].answer = Chunks(d)'
    BY <1>2 DEF Followed
  <2>1. CASE d = c
    BY <1>a, <1>3, <1>12, <2>1 DEF Followed, Waiting
  <2>2. CASE d # c
    BY <1>a, <1>d, <1>11, <2>2 DEF Followed
  <2> QED BY <2>1, <2>2
<1> QED BY <1>4, <1>5, <1>6, <1>7, <1>8, <1>9, <1>10, <1>13 DEF IInv

\* The response is the last message of its prompt, and frees the session.
LEMMA RemoteAnswersKeeps ==
  ASSUME IInv, NEW s \in Sessions, NEW stop \in StopReasons, RemoteAnswers(s, stop) PROVE IInv'
<1>0. remote[s] \in Callers
  BY DEF IInv, Typed, RemoteAnswers
<1> SUFFICES ASSUME NEW c \in Callers, c = remote[s], NEW l, l = Len(pipe) + 1 PROVE IInv'
  BY <1>0
<1> DEFINE m == [kind |-> "response", for |-> c, session |-> s, stop |-> stop]
<1>a. /\ Typed /\ Stages /\ Held /\ Prompted /\ TurnMessages /\ Handed /\ Opened /\ Reading /\ Followed
      /\ UNCHANGED <<invoke, turns, turn, reader, sent>>
      /\ pipe' = Append(pipe, m) /\ remote' = [remote EXCEPT ![s] = None] /\ free' = free \cup {s}
  BY DEF IInv, RemoteAnswers
<1>b. m \in MessageSet /\ m.kind = "response" /\ m.for = c /\ m.session = s
  BY DEF MessageSet
<1> HIDE DEF m
<1>1. /\ pipe' \in Seq(MessageSet)
      /\ \A i \in Indices : /\ i \in Indices' /\ pipe'[i] = pipe[i] /\ i < l
                            /\ IsSession(i)' <=> IsSession(i)
                            /\ IsResponse(i)' <=> IsResponse(i)
                            /\ pipe[i].for \in Callers /\ pipe[i].session \in Sessions
      /\ l \in Indices' /\ pipe'[l] = m
      /\ \A i \in Indices' : (i \in Indices \/ i = l) /\ ~(i > l)
      /\ ~IsSession(l)' /\ IsResponse(l)'
  BY <1>a, <1>b, Sent
<1>2. \A d \in Callers : /\ At(d)' = At(d) /\ SessionOf(d)' = SessionOf(d) /\ invoke'[d] = invoke[d]
                         /\ PartsOf(d)' = PartsOf(d) /\ Chunks(d)' = Chunks(d) /\ turn'[d] = turn[d]
  BY <1>a DEF At, SessionOf, PartsOf, Chunks
<1>3. /\ remote' \in [Sessions -> Callers \cup {None}] /\ remote'[s] = None
      /\ \A t \in Sessions : t # s => remote'[t] = remote[t]
      /\ remote[s] # None /\ SessionOf(c) = s
  BY <1>a, ACPAssumption DEF Typed, Prompted
<1>4. Typed'
  BY <1>a, <1>1, <1>3 DEF Typed, PartsOf
<1>5. Stages' /\ Held'
  BY <1>a, <1>2 DEF Stages, Held
<1>6. Prompted'
  <2> SUFFICES ASSUME NEW t \in Sessions, NEW d \in Callers, remote'[t] = d
               PROVE /\ SessionOf(d)' = t
                     /\ At(d)' \in Waiting
                     /\ t \notin free'
                     /\ \A e \in Callers : e # d /\ SessionOf(e)' = t => At(e)' \in Settled
                     /\ \A i \in Indices' : IsSession(i)' => pipe'[i].session # t
                     /\ \A i \in Indices' : IsResponse(i)' => pipe'[i].for # d
    BY DEF Prompted
  <2>1. t # s /\ remote[t] = d
    BY <1>3, ACPAssumption
  <2>2. /\ SessionOf(d) = t /\ At(d) \in Waiting /\ t \notin free
        /\ \A e \in Callers : e # d /\ SessionOf(e) = t => At(e) \in Settled
        /\ \A i \in Indices : IsSession(i) => pipe[i].session # t
        /\ \A i \in Indices : IsResponse(i) => pipe[i].for # d
    BY <1>a, <2>1 DEF Prompted
  <2>3. d # c
    BY <1>3, <2>1, <2>2
  <2>4. /\ \A i \in Indices' : IsSession(i)' => pipe'[i].session # t
        /\ \A i \in Indices' : IsResponse(i)' => pipe'[i].for # d
    BY <1>b, <1>1, <2>2, <2>3
  <2> QED BY <1>a, <1>2, <2>1, <2>2, <2>4
<1>7. TurnMessages'
  BY <1>a, <1>b, PromptSends
<1>8. Handed'
  <2> SUFFICES ASSUME NEW i \in Indices, IsSession(i), NEW d, d = pipe[i].for, NEW t, t = pipe[i].session
               PROVE /\ t \notin free'
                     /\ remote'[t] = None
                     /\ SessionOf(d)' = None
                     /\ \A e \in Callers : At(e)' = "opened" => SessionOf(e)' # t
                     /\ \A j \in Indices' : j > i => pipe'[j].session # t
                     /\ \A j \in Indices' : j > i => ~(IsSession(j)' /\ pipe'[j].for = d)
    BY <1>1 DEF Handed
  <2>1. t # s
    BY <1>a DEF Prompted
  <2>2. /\ t \notin free /\ remote[t] = None /\ SessionOf(d) = None /\ d \in Callers /\ t \in Sessions
        /\ \A e \in Callers : At(e) = "opened" => SessionOf(e) # t
        /\ \A j \in Indices : j > i => pipe[j].session # t
        /\ \A j \in Indices : j > i => ~(IsSession(j) /\ pipe[j].for = d)
    BY <1>a, <1>1 DEF Handed
  <2>3. t \notin free' /\ remote'[t] = None /\ SessionOf(d)' = None
    BY <1>a, <1>2, <1>3, <2>1, <2>2
  <2> QED BY <1>b, <1>1, <1>2, <2>1, <2>2, <2>3
<1>9. Opened'
  <2> SUFFICES ASSUME NEW d \in Callers, At(d) = "opened", NEW t, t = SessionOf(d)
               PROVE /\ t \notin free'
                     /\ remote'[t] = None
                     /\ \A i \in Indices' : pipe'[i].session # t
                     /\ \A e \in Callers : e # d /\ At(e) = "opened" => SessionOf(e) # t
    BY <1>2 DEF Opened
  <2>1. /\ t \notin free /\ remote[t] = None /\ \A i \in Indices : pipe[i].session # t
        /\ \A e \in Callers : e # d /\ At(e) = "opened" => SessionOf(e) # t
    BY <1>a DEF Opened
  <2>2. t \in Sessions /\ t # s
    BY <1>a, <1>3, <2>1 DEF Stages
  <2>3. remote'[t] = None
    BY <1>3, <2>1, <2>2
  <2> QED BY <1>a, <1>b, <1>1, <2>1, <2>2, <2>3
<1>10. Reading'
  BY <1>a, <1>2 DEF Reading, Typed
<1>11. Followed'
  <2>1. \A d \in Callers : Sound(d) => Sound(d)'
    BY <1>a, <1>b, <1>2, SentKeepsSound
  <2> QED BY <1>a, <1>2, <2>1 DEF Followed
<1> QED BY <1>4, <1>5, <1>6, <1>7, <1>8, <1>9, <1>10, <1>11 DEF IInv

\* Every step, and every stutter, keeps the invariant.
LEMMA NextIInv == IInv /\ [Next]_vars => IInv'
<1> SUFFICES ASSUME IInv, [Next]_vars PROVE IInv'
  OBVIOUS
<1>1. ASSUME NEW c \in Callers, CallerStep(c) \/ Cancel(c) PROVE IInv'
  BY <1>1, InvokeKeeps, StartTurnKeeps, CollectKeeps, FinishTurnKeeps, CancelKeeps DEF CallerStep
<1>2. CASE ReaderStep
  BY <1>2, ReadSessionKeeps, ReadUpdateKeeps, AddKeeps, ReadResponseKeeps DEF ReaderStep
<1>3. ASSUME NEW c \in Callers, NEW s \in Sessions, RemoteOpens(c, s) PROVE IInv'
  BY <1>3, RemoteOpensKeeps
<1>4. ASSUME NEW s \in Sessions, NEW content \in Contents, RemoteUpdates(s, content) PROVE IInv'
  BY <1>4, RemoteUpdatesKeeps
<1>5. ASSUME NEW s \in Sessions, NEW stop \in StopReasons, RemoteAnswers(s, stop) PROVE IInv'
  BY <1>5, RemoteAnswersKeeps
<1>6. CASE UNCHANGED vars
  <2>a. /\ Typed /\ Stages /\ Held /\ Prompted /\ TurnMessages /\ Handed /\ Opened /\ Reading /\ Followed
        /\ UNCHANGED <<invoke, turns, turn, reader, pipe, remote, free, sent>>
    BY <1>6 DEF vars, IInv
  <2>b. \A c \in Callers : /\ At(c)' = At(c) /\ SessionOf(c)' = SessionOf(c)
                           /\ PartsOf(c)' = PartsOf(c) /\ Chunks(c)' = Chunks(c)
    BY <2>a DEF At, SessionOf, PartsOf, Chunks
  <2>1. Typed'
    BY <2>a DEF Typed, PartsOf
  <2>2. Stages' /\ Held' /\ Reading'
    BY <2>a DEF Stages, Held, Reading, At, SessionOf, Chunks
  <2>3. Prompted'
    BY <2>a DEF Prompted, At, SessionOf, Indices, IsSession, IsResponse
  <2>4. TurnMessages'
    BY <2>a DEF TurnMessages, At, SessionOf, Indices, IsTurn, IsResponse
  <2>5. Handed' /\ Opened'
    BY <2>a DEF Handed, Opened, At, SessionOf, Indices, IsSession
  <2>6. \A c \in Callers : Sound(c) => Sound(c)'
    BY <2>a, SoundStays
  <2>7. Followed'
    BY <2>a, <2>b, <2>6 DEF Followed
  <2> QED BY <2>1, <2>2, <2>3, <2>4, <2>5, <2>7 DEF IInv
<1> QED BY <1>1, <1>2, <1>3, <1>4, <1>5, <1>6 DEF Next

\* The inductive invariant holds in every reachable state.
LEMMA Invariance == Spec => []IInv
BY InitIInv, NextIInv, PTL DEF Spec

-----------------------------------------------------------------------------
(* What the invariant says of the code *)

\* The turns, the parts and the sessions have their types.
THEOREM TypeCorrect == Spec => []TypeOK
<1>1. ASSUME IInv PROVE TypeOK
  <2>a. Typed /\ Prompted
    BY <1>1 DEF IInv
  <2>1. \A c \in Callers :
          /\ invoke[c].at \in {"idle", "opening", "opened", "prompting", "answered",
                               "succeeding", "failing", "done", "failed"}
          /\ invoke[c].session \in Sessions \cup {None}
          /\ invoke[c].stop \in StopReasons \cup {None}
    BY <2>a DEF Typed, InvokeRecord
  <2>2. \A c \in Callers : /\ turn[c].err \in BOOLEAN
                           /\ \A i \in DOMAIN turn[c].parts : turn[c].parts[i].content \in {"text", "link"}
    <3> SUFFICES ASSUME NEW c \in Callers
                 PROVE /\ turn[c].err \in BOOLEAN
                       /\ \A i \in DOMAIN turn[c].parts : turn[c].parts[i].content \in {"text", "link"}
      OBVIOUS
    <3>1. turn[c].parts \in Seq(ChunkSet) /\ turn[c].err \in BOOLEAN
      BY <2>a DEF Typed
    <3>2. DOMAIN turn[c].parts = 1..Len(turn[c].parts)
      BY <3>1
    <3> QED BY <2>a, <3>1, <3>2 DEF Typed, PartsOf
  <2>3. /\ \A s \in Sessions : turns[s] \in Callers \cup {None} /\ remote[s] \in Callers \cup {None}
        /\ free \subseteq Sessions
    BY <2>a DEF Typed
  <2>4. \A s \in free : remote[s] = None
    BY <2>a, <2>3 DEF Prompted
  <2> QED BY <2>1, <2>2, <2>3, <2>4 DEF TypeOK
<1> QED BY <1>1, Invariance, PTL

\* Whatever the sessions, the order of messages and the other Invokes, an Invoke
\* that succeeds answers with exactly what was sent for its prompt
\* (acp.go, turn.add and Invoke).
THEOREM AnswersAreWhole == Spec => []AnswerIsWhatWasSent
<1>1. ASSUME IInv PROVE AnswerIsWhatWasSent
  BY <1>1 DEF IInv, Followed, At, Chunks, AnswerIsWhatWasSent
<1> QED BY <1>1, Invariance, PTL

\* A session is in turns exactly while an Invoke works on it (acp.go, startTurn
\* and finishTurn).
THEOREM SessionsAreReleased == Spec => []TurnsAreReleased
<1>1. ASSUME IInv, TypeOK PROVE TurnsAreReleased
  BY <1>1 DEF IInv, Held, At, SessionOf, Working, TurnsAreReleased
<1> QED BY <1>1, TypeCorrect, Invariance, PTL

-----------------------------------------------------------------------------
(* What an Invoke sends *)

\* What promptContent has put together after each artifact.
PromptSteps(parts, artifacts, y) ==
  {T \in [0..Len(artifacts) -> Seq(ContentPart)] :
     /\ T[0] = parts
     /\ T[Len(artifacts)] = y
     /\ \A k \in 1..Len(artifacts) :
          T[k] = IF artifacts[k] \in ToSet(parts) THEN T[k - 1] ELSE Append(T[k - 1], artifacts[k])}

\* promptContent takes the artifacts one after the other.
LEMMA PromptIsStepwise ==
  ASSUME NEW request, NEW parts \in Seq(ContentPart), NEW artifacts \in Seq(ContentPart),
         parts = Parts(request), artifacts = request.artifacts
  PROVE  PromptSteps(parts, artifacts, PromptContent(request)) # {}
<1> DEFINE n == Len(artifacts)
           X == Seq(ContentPart)
           Next1(content, k) == IF artifacts[k] \in ToSet(parts) THEN content ELSE Append(content, artifacts[k])
           step == [p \in (1..n) \X X |-> Next1(p[2], p[1])]
           iter == CHOOSE f : f = [s \in SUBSET DOMAIN artifacts |->
                                     IF s = {} THEN parts
                                     ELSE IF artifacts[Max(s)] \in ToSet(parts) THEN f[s \ {Max(s)}]
                                          ELSE Append(f[s \ {Max(s)}], artifacts[Max(s)])]
<1>1. PromptContent(request) = iter[DOMAIN artifacts]
  BY DEF PromptContent, FoldLeft, MapThenFoldSet
<1> HIDE DEF iter
<1>2. n \in Nat /\ DOMAIN artifacts = 1..n
  OBVIOUS
<1>3. \A k \in 1..n, x \in X : Next1(x, k) \in X
  OBVIOUS
<1> HIDE DEF n, X, Next1
<1>4. step \in [(1..n) \X X -> X] /\ \A k \in 1..n, x \in X : step[<<k, x>>] = Next1(x, k)
  BY <1>3
<1> HIDE DEF step
<1>5. PICK h \in LeftFolds(n, X, parts, step) : TRUE
  <2>1. n \in Nat /\ parts \in X /\ step \in [(1..n) \X X -> X]
    BY <1>2, <1>4 DEF X
  <2> QED BY ONLY <2>1, LeftFold
<1>6. h \in [SUBSET (1..n) -> X]
  BY <1>5 DEF LeftFolds
<1>7. ASSUME NEW s \in SUBSET (1..n)
      PROVE h[s] = IF s = {} THEN parts ELSE Next1(h[s \ {Max(s)}], Max(s))
  <2>1. h[s] = IF s = {} THEN parts ELSE step[<<Max(s), h[s \ {Max(s)}]>>]
    BY <1>5 DEF LeftFolds
  <2>2. CASE s # {}
    <3>1. Max(s) \in 1..n
      BY <1>2, <2>2, MaxIsMember
    <3>2. s \ {Max(s)} \in SUBSET (1..n)
      OBVIOUS
    <3>3. h[s \ {Max(s)}] \in X
      BY <1>6, <3>2
    <3> QED BY <1>4, <2>1, <2>2, <3>1, <3>3
  <2> QED BY <2>1, <2>2
<1> DEFINE Goes(f) == [s \in SUBSET DOMAIN artifacts |->
                         IF s = {} THEN parts ELSE Next1(f[s \ {Max(s)}], Max(s))]
<1>8. h = Goes(h)
  BY <1>2, <1>6, <1>7
<1>9. iter = CHOOSE f : f = Goes(f)
  BY DEF iter, Next1
<1> HIDE DEF Goes
<1>10. iter = Goes(iter)
  BY <1>8, <1>9
<1>11. iter[{}] = parts
  BY <1>10 DEF Goes
<1>12. ASSUME NEW s \in SUBSET (1..n), s # {}, iter[s \ {Max(s)}] \in X
       PROVE iter[s] = step[<<Max(s), iter[s \ {Max(s)}]>>]
  <2>1. Max(s) \in 1..n
    BY <1>2, <1>12, MaxIsMember
  <2>2. iter[s] = Next1(iter[s \ {Max(s)}], Max(s))
    BY <1>2, <1>10, <1>12 DEF Goes
  <2> QED BY <1>4, <1>12, <2>1, <2>2
<1>13. FoldsAs(n, X, parts, step, iter)
  BY <1>11, <1>12 DEF FoldsAs
<1>14. PICK T \in Foldings(n, X, parts, step, iter[1..n]) : TRUE
  <2>1. /\ n \in Nat /\ parts \in X /\ step \in [(1..n) \X X -> X] /\ FoldsAs(n, X, parts, step, iter)
    BY <1>2, <1>4, <1>13 DEF X
  <2>2. Foldings(n, X, parts, step, iter[1..n]) # {}
    BY ONLY <2>1, FoldIsStepwise
  <2> QED BY <2>2
<1>15. T \in [0..n -> X] /\ T[0] = parts /\ T[n] = PromptContent(request)
  BY <1>1, <1>2, <1>14 DEF Foldings
<1>16. ASSUME NEW k \in 1..n PROVE T[k] = Next1(T[k - 1], k)
  <2>1. T[k] = step[<<k, T[k - 1]>>] /\ k - 1 \in 0..n
    BY <1>2, <1>14 DEF Foldings
  <2>2. T[k - 1] \in X
    BY <1>15, <2>1
  <2> QED BY <1>4, <2>1, <2>2
<1>17. T \in PromptSteps(parts, artifacts, PromptContent(request))
  BY <1>15, <1>16 DEF PromptSteps, n, X, Next1
<1> QED BY <1>17

\* The prompt begins with the parts of the messages, goes on with artifacts that
\* they do not have, and has the first k artifacts.
ReachedBy(parts, artifacts, k, prompt) ==
  /\ prompt \in Seq(ContentPart)
  /\ Len(parts) <= Len(prompt)
  /\ \A i \in 1..Len(parts) : prompt[i] = parts[i]
  /\ \A i \in 1..Len(prompt) : i > Len(parts) => prompt[i] \notin ToSet(parts)
  /\ \A j \in 1..k : \E i \in 1..Len(prompt) : prompt[i] = artifacts[j]

\* One more artifact.
LEMMA ArtifactReaches ==
  ASSUME NEW parts \in Seq(ContentPart), NEW artifacts \in Seq(ContentPart),
         NEW k \in Nat, k + 1 \in 1..Len(artifacts), NEW x, ReachedBy(parts, artifacts, k, x),
         NEW y, y = IF artifacts[k + 1] \in ToSet(parts) THEN x ELSE Append(x, artifacts[k + 1])
  PROVE  ReachedBy(parts, artifacts, k + 1, y)
<1>0. /\ x \in Seq(ContentPart) /\ Len(parts) <= Len(x)
      /\ \A i \in 1..Len(parts) : x[i] = parts[i]
      /\ \A i \in 1..Len(x) : i > Len(parts) => x[i] \notin ToSet(parts)
      /\ \A j \in 1..k : \E i \in 1..Len(x) : x[i] = artifacts[j]
  BY DEF ReachedBy
<1>1. Len(x) \in Nat /\ Len(parts) \in Nat /\ DOMAIN parts = 1..Len(parts)
  BY <1>0
<1>2. \A j \in 1..(k + 1) : j \in 1..k \/ j = k + 1
  OBVIOUS
<1>3. CASE artifacts[k + 1] \in ToSet(parts)
  <2>1. PICK i \in 1..Len(parts) : parts[i] = artifacts[k + 1]
    BY <1>1, <1>3 DEF ToSet
  <2>2. i \in 1..Len(x) /\ x[i] = artifacts[k + 1]
    BY <1>0, <1>1, <2>1
  <2>3. \A j \in 1..(k + 1) : \E l \in 1..Len(x) : x[l] = artifacts[j]
    BY <1>0, <1>2, <2>2
  <2>4. y = x
    BY <1>3
  <2> QED BY <1>0, <2>3, <2>4 DEF ReachedBy
<1>4. CASE artifacts[k + 1] \notin ToSet(parts)
  <2> SUFFICES ASSUME NEW a \in ContentPart, a = artifacts[k + 1], a \notin ToSet(parts), y = Append(x, a)
               PROVE ReachedBy(parts, artifacts, k + 1, y)
    BY <1>4
  <2>1. y \in Seq(ContentPart) /\ Len(y) = Len(x) + 1 /\ y[Len(x) + 1] = a /\ \A i \in 1..Len(x) : y[i] = x[i]
    BY <1>0
  <2>2. /\ Len(parts) <= Len(y) /\ \A i \in 1..Len(parts) : i \in 1..Len(x)
        /\ \A i \in 1..Len(y) : i \in 1..Len(x) \/ i = Len(x) + 1
        /\ \A i \in 1..Len(x) : i \in 1..Len(y)
        /\ Len(x) + 1 \in 1..Len(y)
    BY <1>0, <1>1, <2>1
  <2>3. \A i \in 1..Len(parts) : y[i] = parts[i]
    BY <1>0, <2>1, <2>2
  <2>4. \A i \in 1..Len(y) : i > Len(parts) => y[i] \notin ToSet(parts)
    BY <1>0, <2>1, <2>2
  <2>5. \A j \in 1..(k + 1) : \E i \in 1..Len(y) : y[i] = artifacts[j]
    BY <1>0, <1>2, <2>1, <2>2
  <2> QED BY <2>1, <2>2, <2>3, <2>4, <2>5 DEF ReachedBy
<1> QED BY <1>3, <1>4

\* All of them.
LEMMA PromptReaches ==
  ASSUME NEW request, NEW parts \in Seq(ContentPart), NEW artifacts \in Seq(ContentPart),
         parts = Parts(request), artifacts = request.artifacts
  PROVE  ReachedBy(parts, artifacts, Len(artifacts), PromptContent(request))
<1> DEFINE n == Len(artifacts)
<1>1. n \in Nat
  OBVIOUS
<1>2. PICK T \in PromptSteps(parts, artifacts, PromptContent(request)) : TRUE
  BY PromptIsStepwise
<1>3. /\ T[0] = parts /\ T[n] = PromptContent(request)
      /\ \A k \in 1..n : T[k] = IF artifacts[k] \in ToSet(parts) THEN T[k - 1] ELSE Append(T[k - 1], artifacts[k])
  BY <1>2 DEF PromptSteps
<1> DEFINE S == {k \in Nat : k <= n => ReachedBy(parts, artifacts, k, T[k])}
<1>4. 0 \in S
  <2>1. ReachedBy(parts, artifacts, 0, parts)
    BY DEF ReachedBy
  <2> QED BY <1>3, <2>1
<1>5. ASSUME NEW k \in Nat, k \in S PROVE k + 1 \in S
  <2> SUFFICES ASSUME k + 1 <= n PROVE ReachedBy(parts, artifacts, k + 1, T[k + 1])
    OBVIOUS
  <2>1. k + 1 \in 1..n /\ (k + 1) - 1 = k /\ ReachedBy(parts, artifacts, k, T[k])
    BY <1>1, <1>5
  <2>2. T[k + 1] = IF artifacts[k + 1] \in ToSet(parts) THEN T[k] ELSE Append(T[k], artifacts[k + 1])
    BY <1>3, <2>1
  <2> HIDE DEF S
  <2> QED BY <2>1, <2>2, ArtifactReaches
<1> HIDE DEF S
<1>6. Nat \subseteq S
  BY <1>4, <1>5, Induction
<1>7. ReachedBy(parts, artifacts, n, T[n])
  BY <1>1, <1>6 DEF S
<1> QED BY <1>3, <1>7

\* An Invoke was given nothing yet, or sends what promptContent makes of what it
\* was given.
RequestSent(x) ==
  \/ x.request = NoRequest /\ x.prompt = <<>>
  \/ x.request \in Requests /\ x.prompt = PromptContent(x.request)

RequestsAreSent == \A c \in Callers : RequestSent(invoke[c])

\* What an Invoke was given, and sends, is settled when it begins.
LEMMA RequestStays ==
  ASSUME invoke \in [Callers -> InvokeRecord], pipe \in Seq(MessageSet), [Next]_vars, NEW c \in Callers
  PROVE  \/ invoke'[c].request = invoke[c].request /\ invoke'[c].prompt = invoke[c].prompt
         \/ invoke'[c].request \in Requests /\ invoke'[c].prompt = PromptContent(invoke'[c].request)
<1> DEFINE Same == invoke'[c].request = invoke[c].request /\ invoke'[c].prompt = invoke[c].prompt
<1>0. \A d \in Callers : DOMAIN invoke[d] = {"at", "session", "request", "prompt", "stop", "answer"}
  BY DEF InvokeRecord
<1>1. ASSUME NEW d \in Callers, NEW request \in Requests, Invoke(d, request)
      PROVE  Same \/ (invoke'[c].request \in Requests /\ invoke'[c].prompt = PromptContent(invoke'[c].request))
  <2> SUFFICES ASSUME NEW prompt, prompt = PromptContent(request)
               PROVE  Same \/ (invoke'[c].request = request /\ invoke'[c].prompt = prompt)
    OBVIOUS
  <2>1. \/ invoke' = [invoke EXCEPT ![d].at = "opening", ![d].request = request, ![d].prompt = prompt]
        \/ invoke' = [invoke EXCEPT ![d].at = "failed"]
    BY <1>1 DEF Invoke, Move
  <2> QED BY <1>0, <2>1
<1>2. ASSUME NEW d \in Callers, StartTurn(d) \/ Collect(d) \/ FinishTurn(d) \/ Cancel(d) PROVE Same
  <2>1. ASSUME NEW at, Move(d, at) PROVE Same
    BY <1>0, <2>1 DEF Move
  <2>2. CASE Collect(d)
    BY <1>0, <2>2 DEF Collect
  <2>3. CASE StartTurn(d)
    BY <2>1, <2>3 DEF StartTurn
  <2>4. CASE FinishTurn(d) \/ Cancel(d)
    BY <2>1, <2>4 DEF FinishTurn, Cancel
  <2> QED BY <1>2, <2>2, <2>3, <2>4
<1>3. CASE ReadSession
  <2>1. PICK m : invoke' = invoke \/ invoke' = [invoke EXCEPT ![m.for].at = "opened", ![m.for].session = m.session]
    BY <1>3 DEF ReadSession
  <2> QED BY <1>0, <2>1
<1>4. CASE ReadResponse
  <2>1. PICK m : invoke' = invoke \/ invoke' = [invoke EXCEPT ![m.for].at = "answered", ![m.for].stop = m.stop]
    BY <1>4 DEF ReadResponse
  <2> QED BY <1>0, <2>1
<1>5. invoke' = invoke => Same
  OBVIOUS
<1>6. CASE ReadUpdate \/ Add
  BY <1>5, <1>6 DEF ReadUpdate, Add
<1>7. ASSUME NEW d \in Callers, NEW s \in Sessions, RemoteOpens(d, s) PROVE Same
  BY <1>5, <1>7 DEF RemoteOpens
<1>8. ASSUME NEW s \in Sessions, NEW content \in Contents, RemoteUpdates(s, content) PROVE Same
  BY <1>5, <1>8 DEF RemoteUpdates
<1>9. ASSUME NEW s \in Sessions, NEW stop \in StopReasons, RemoteAnswers(s, stop) PROVE Same
  BY <1>5, <1>9 DEF RemoteAnswers
<1>10. CASE UNCHANGED vars
  BY <1>5, <1>10 DEF vars
<1>11. CASE \E d \in Callers : CallerStep(d) \/ Cancel(d)
  BY <1>1, <1>2, <1>11 DEF CallerStep
<1>12. CASE ReaderStep
  BY <1>3, <1>4, <1>6, <1>12 DEF ReaderStep
<1> QED BY <1>7, <1>8, <1>9, <1>10, <1>11, <1>12 DEF Next

\* A request, or none, comes whole to the remote.
LEMMA RequestsReach ==
  ASSUME NEW x, RequestSent(x)
  PROVE  LET request == x.request
             prompt == x.prompt
         IN  /\ ToSet(request.artifacts) \subseteq ToSet(prompt)
             /\ SubSeq(prompt, 1, Len(Parts(request))) = Parts(request)
             /\ \A i \in DOMAIN prompt : i > Len(Parts(request)) => prompt[i] \notin ToSet(Parts(request))
<1> SUFFICES ASSUME NEW request, request = x.request, NEW prompt, prompt = x.prompt,
                    NEW parts, parts = Parts(request), NEW artifacts, artifacts = request.artifacts
             PROVE  /\ ToSet(artifacts) \subseteq ToSet(prompt)
                    /\ SubSeq(prompt, 1, Len(parts)) = parts
                    /\ \A i \in DOMAIN prompt : i > Len(parts) => prompt[i] \notin ToSet(parts)
  OBVIOUS
<1>1. CASE request = NoRequest /\ prompt = <<>>
  <2>1. request.messages = <<>> /\ artifacts = <<>>
    BY <1>1 DEF NoRequest
  <2>2. parts = <<>>
    BY <2>1 DEF Parts, FlattenSeq
  <2>3. ToSet(<<>>) = {} /\ Len(<<>>) = 0 /\ SubSeq(<<>>, 1, 0) = <<>>
    BY DEF ToSet
  <2> QED BY <1>1, <2>1, <2>2, <2>3
<1>2. CASE request \in Requests /\ prompt = PromptContent(request)
  <2>1. request \in [messages : Seq(Seq(ContentPart)), artifacts : Seq(ContentPart)]
    BY <1>2, ACPAssumption
  <2>2. request.messages \in Seq(Seq(ContentPart)) /\ artifacts \in Seq(ContentPart)
    BY <2>1
  <2>3. parts \in Seq(ContentPart)
    <3>1. PICK T \in Flattenings(Len(request.messages), ContentPart, request.messages, parts) : TRUE
      BY <2>2, FlattenIsStepwise DEF Parts
    <3>2. Len(request.messages) \in Nat
      BY <2>2
    <3> QED BY <3>1, <3>2 DEF Flattenings
  <2>4. ReachedBy(parts, artifacts, Len(artifacts), prompt)
    BY <1>2, <2>2, <2>3, PromptReaches
  <2>5. /\ prompt \in Seq(ContentPart) /\ Len(parts) <= Len(prompt)
        /\ \A i \in 1..Len(parts) : prompt[i] = parts[i]
        /\ \A i \in 1..Len(prompt) : i > Len(parts) => prompt[i] \notin ToSet(parts)
        /\ \A j \in 1..Len(artifacts) : \E i \in 1..Len(prompt) : prompt[i] = artifacts[j]
    BY <2>4 DEF ReachedBy
  <2>6. ToSet(artifacts) \subseteq ToSet(prompt)
    <3>1. DOMAIN artifacts = 1..Len(artifacts) /\ DOMAIN prompt = 1..Len(prompt)
      BY <2>2, <2>5
    <3>2. ASSUME NEW a \in ToSet(artifacts) PROVE a \in ToSet(prompt)
      <4>1. PICK j \in 1..Len(artifacts) : artifacts[j] = a
        BY <3>1 DEF ToSet
      <4>2. PICK i \in 1..Len(prompt) : prompt[i] = artifacts[j]
        BY <2>5
      <4> QED BY <3>1, <4>1, <4>2 DEF ToSet
    <3> QED BY <3>2
  <2>7. SubSeq(prompt, 1, Len(parts)) = parts
    <3>1. Len(parts) \in Nat /\ Len(prompt) \in Nat
      BY <2>3, <2>5
    <3>2. /\ SubSeq(prompt, 1, Len(parts)) \in Seq(ContentPart)
          /\ Len(SubSeq(prompt, 1, Len(parts))) = Len(parts)
          /\ \A i \in 1..Len(parts) : SubSeq(prompt, 1, Len(parts))[i] = prompt[i]
      BY <2>3, <2>5, <3>1
    <3> QED BY <2>3, <2>5, <3>1, <3>2, SeqEqual
  <2>8. DOMAIN prompt = 1..Len(prompt)
    BY <2>5
  <2> QED BY <2>5, <2>6, <2>7, <2>8
<1> QED BY <1>1, <1>2 DEF RequestSent

\* Whatever an Invoke is given, its prompt has every artifact, begins with the
\* messages and repeats nothing they refer to (acp.go, promptContent).
THEOREM ArtifactsAreSent == Spec => []ArtifactsReachTheRemote
<1>1. Init => RequestsAreSent
  BY DEF Init, Idle, RequestsAreSent, RequestSent
<1>2. ASSUME IInv, RequestsAreSent, [Next]_vars PROVE RequestsAreSent'
  <2>1. invoke \in [Callers -> InvokeRecord] /\ pipe \in Seq(MessageSet)
    BY <1>2 DEF IInv, Typed
  <2>2. ASSUME NEW c \in Callers PROVE RequestSent(invoke[c])'
    <3>1. RequestSent(invoke[c])
      BY <1>2 DEF RequestsAreSent
    <3>2. \/ invoke'[c].request = invoke[c].request /\ invoke'[c].prompt = invoke[c].prompt
          \/ invoke'[c].request \in Requests /\ invoke'[c].prompt = PromptContent(invoke'[c].request)
      BY <1>2, <2>1, RequestStays
    <3> QED BY <3>1, <3>2 DEF RequestSent
  <2> QED BY <2>2 DEF RequestsAreSent
<1>3. RequestsAreSent => ArtifactsReachTheRemote
  BY RequestsReach DEF RequestsAreSent, ArtifactsReachTheRemote
<1> QED BY <1>1, <1>2, <1>3, Invariance, PTL DEF Spec

=============================================================================
