------------------------------ MODULE ACPTurns ------------------------------
(***************************************************************************)
(* agents/acp/acp.go: concurrent Invokes over one ACP connection.          *)
(*                                                                         *)
(* The connection and the remote agent are external: messages of the       *)
(* remote arrive in the order it sent them, and are handled one after the  *)
(* other.  A session belongs to one prompt at a time, the remote may give  *)
(* it out again when it has answered that prompt.                          *)
(***************************************************************************)
EXTENDS Integers, Sequences, SequencesExt, FiniteSets

CONSTANTS
  Callers,        \* Invokes, each by a goroutine of its own
  Sessions,
  Requests,       \* what an Invoke may be given
  Contents,       \* kinds of update the remote may send
  MaxUpdates      \* bound on the updates of one prompt

\* "note" is an update that is no agent message chunk; "badlink" has no URI,
\* "image" is unsupported, "invalid" is no content block at all.
None == "none"

ContentPart == [kind : {"text", "artifact", "tool"}, uri : STRING]

ASSUME ACPAssumption ==
  /\ Requests \subseteq [messages : Seq(Seq(ContentPart)), artifacts : Seq(ContentPart)]
  /\ Contents \subseteq {"text", "link", "badlink", "image", "note", "invalid"}
  /\ MaxUpdates \in Nat
  /\ None \notin Callers \cup Sessions

StopReasons == {"end_turn", "max_tokens", "canceled"}

VARIABLES
  invoke,     \* caller -> where its Invoke is, its session, request and result
  turns,      \* Agent.turns: session -> the caller whose turn is active
  turn,       \* caller -> its turn: parts and whether there was an error
  reader,     \* the update being handled, between the lookup and the add
  pipe,       \* messages of the remote that were not read yet
  remote,     \* session -> the caller whose prompt it works on
  free,       \* sessions the remote may give out
  sent        \* caller -> how many updates were sent for its prompt, and the
              \* chunks of content among them, for the properties

vars == <<invoke, turns, turn, reader, pipe, remote, free, sent>>

NoRequest == [messages |-> <<>>, artifacts |-> <<>>]
Idle == [at |-> "idle", session |-> None, request |-> NoRequest, prompt |-> <<>>, stop |-> None, answer |-> <<>>]
NewTurn == [parts |-> <<>>, err |-> FALSE]
NothingSent == [updates |-> 0, chunks |-> <<>>]
NoUpdate == [turn |-> None, content |-> None, for |-> None]

Init ==
  /\ invoke = [c \in Callers |-> Idle]
  /\ turns = [s \in Sessions |-> None]
  /\ turn = [c \in Callers |-> NewTurn]
  /\ reader = NoUpdate
  /\ pipe = <<>>
  /\ remote = [s \in Sessions |-> None]
  /\ free = Sessions
  /\ sent = [c \in Callers |-> NothingSent]

Move(c, at) == invoke' = [invoke EXCEPT ![c].at = at]

-----------------------------------------------------------------------------
(* The request: promptContent *)

\* A request is [messages, artifacts]; a part of a message, or an artifact, is
\* [kind, uri] with kind "text", "artifact", or "tool" for what is unsupported.
Parts(request) == FlattenSeq(request.messages)

Acceptable(request) ==
  /\ \A i \in DOMAIN Parts(request) :
       LET part == Parts(request)[i]
       IN  part.kind = "text" \/ (part.kind = "artifact" /\ part.uri # "")
  /\ \A i \in DOMAIN request.artifacts :
       request.artifacts[i].uri # "" \/ request.artifacts[i] \in ToSet(Parts(request))

\* (mutant) the artifacts of the request come again
PromptContentRepeating(request) == Parts(request) \o request.artifacts

\* An artifact of the request that a message refers to is not sent again.
PromptContent(request) ==
  FoldLeft(LAMBDA content, artifact : IF artifact \in ToSet(Parts(request)) THEN content
                                      ELSE Append(content, artifact),
           Parts(request), request.artifacts)

-----------------------------------------------------------------------------
(* Invoke *)

Invoke(c, request) ==
  /\ invoke[c].at = "idle"
  /\ IF Acceptable(request)
     THEN invoke' = [invoke EXCEPT ![c].at = "opening", ![c].request = request,
                                       ![c].prompt = PromptContent(request)]
     ELSE Move(c, "failed")
  /\ UNCHANGED <<turns, turn, reader, pipe, remote, free, sent>>

\* startTurn; the prompt goes out when the turn is known.
StartTurn(c) ==
  LET s == invoke[c].session
  IN  /\ invoke[c].at = "opened"
      /\ IF turns[s] # None
         THEN Move(c, "failed") /\ UNCHANGED <<turns, remote>>
         ELSE /\ Move(c, "prompting")
              /\ turns' = [turns EXCEPT ![s] = c]
              /\ remote' = [remote EXCEPT ![s] = c]
      /\ UNCHANGED <<turn, reader, pipe, free, sent>>

\* The prompt returned: a response, or the error of the turn.
Collect(c) ==
  /\ invoke[c].at = "answered"
  /\ invoke' = [invoke EXCEPT
       ![c].at = IF invoke[c].stop = "canceled" \/ turn[c].err \/ turn[c].parts = <<>>
                 THEN "failing" ELSE "succeeding",
       ![c].answer = turn[c].parts]
  /\ UNCHANGED <<turns, turn, reader, pipe, remote, free, sent>>

\* The context ends while the session is opened or the prompt is worked on;
\* without a turn there is nothing to finish.
Cancel(c) ==
  /\ invoke[c].at \in {"opening", "opened", "prompting"}
  /\ Move(c, IF invoke[c].at = "prompting" THEN "failing" ELSE "failed")
  /\ UNCHANGED <<turns, turn, reader, pipe, remote, free, sent>>

\* (mutant) only a turn that succeeded is released
FinishTurnSucceeded(c) ==
  /\ invoke[c].at \in {"succeeding", "failing"}
  /\ Move(c, IF invoke[c].at = "succeeding" THEN "done" ELSE "failed")
  /\ turns' = [turns EXCEPT ![invoke[c].session] = IF invoke[c].at = "succeeding" THEN None ELSE @]
  /\ UNCHANGED <<turn, reader, pipe, remote, free, sent>>

\* finishTurn, deferred.
FinishTurn(c) ==
  /\ invoke[c].at \in {"succeeding", "failing"}
  /\ Move(c, IF invoke[c].at = "succeeding" THEN "done" ELSE "failed")
  /\ turns' = [turns EXCEPT ![invoke[c].session] = IF @ = c THEN None ELSE @]
  /\ UNCHANGED <<turn, reader, pipe, remote, free, sent>>

-----------------------------------------------------------------------------
(* What the connection delivers *)

Take(kind) ==
  /\ reader = NoUpdate
  /\ pipe # <<>>
  /\ Head(pipe).kind = kind
  /\ pipe' = Tail(pipe)

ReadSession ==
  /\ Take("session")
  /\ LET m == Head(pipe)
     IN  invoke' = IF invoke[m.for].at = "opening"
                   THEN [invoke EXCEPT ![m.for].at = "opened", ![m.for].session = m.session]
                   ELSE invoke
  /\ UNCHANGED <<turns, turn, reader, remote, free, sent>>

\* Update finds the turn of the session, and lets go of the lock.
ReadUpdate ==
  /\ Take("update")
  /\ LET m == Head(pipe)
     IN  reader' = IF turns[m.session] = None THEN NoUpdate
                   ELSE [turn |-> turns[m.session], content |-> m.content, for |-> m.for]
  /\ UNCHANGED <<invoke, turns, turn, remote, free, sent>>

Chunk(content, c) == [content |-> content, for |-> c]
NoChunks == {"note", "invalid"}

\* (mutant) an error does not stop the parts that follow it
AddAfterError ==
  LET a == reader.turn
  IN  /\ reader # NoUpdate
      /\ reader' = NoUpdate
      /\ turn' = [turn EXCEPT ![a] =
           CASE reader.content \in {"text", "link"} ->
                  [parts |-> Append(turn[a].parts, Chunk(reader.content, reader.for)), err |-> FALSE]
             [] reader.content \in {"badlink", "image"} -> [turn[a] EXCEPT !.err = TRUE]
             [] OTHER -> turn[a]]
      /\ UNCHANGED <<invoke, turns, pipe, remote, free, sent>>

\* turn.add: nothing is added after an error.  Content that is no block is
\* an error for the connection only.
Add ==
  LET a == reader.turn
  IN  /\ reader # NoUpdate
      /\ reader' = NoUpdate
      /\ turn' = [turn EXCEPT ![a] =
           CASE turn[a].err \/ reader.content \in NoChunks -> turn[a]
             [] ~turn[a].err /\ reader.content \in {"text", "link"} ->
                  [parts |-> Append(turn[a].parts, Chunk(reader.content, reader.for)), err |-> FALSE]
             [] OTHER -> [turn[a] EXCEPT !.err = TRUE]]
      /\ UNCHANGED <<invoke, turns, pipe, remote, free, sent>>

\* The response goes to the caller that still waits for it.
ReadResponse ==
  /\ Take("response")
  /\ LET m == Head(pipe)
     IN  invoke' = IF invoke[m.for].at = "prompting"
                   THEN [invoke EXCEPT ![m.for].at = "answered", ![m.for].stop = m.stop]
                   ELSE invoke
  /\ UNCHANGED <<turns, turn, reader, remote, free, sent>>

-----------------------------------------------------------------------------
(* The remote agent *)

\* The messages, of which n, the number of chunks sent so far, is for the proofs only.
RemoteOpens(c, s) ==
  /\ invoke[c].at \in {"opening", "failed"}
  /\ invoke[c].prompt # <<>>      \* the request was not refused
  /\ invoke[c].session = None
  /\ \A i \in DOMAIN pipe : ~(pipe[i].kind = "session" /\ pipe[i].for = c)
  /\ s \in free
  /\ free' = free \ {s}
  /\ pipe' = Append(pipe, [kind |-> "session", for |-> c, session |-> s])
  /\ UNCHANGED <<invoke, turns, turn, reader, remote, sent>>

RemoteUpdates(s, content) ==
  LET c == remote[s]
      chunks == IF content \in NoChunks THEN sent[c].chunks ELSE Append(sent[c].chunks, Chunk(content, c))
  IN  /\ c # None
      /\ sent[c].updates < MaxUpdates
      /\ sent' = [sent EXCEPT ![c] = [updates |-> sent[c].updates + 1, chunks |-> chunks]]
      /\ pipe' = Append(pipe, [kind |-> "update", for |-> c, session |-> s, content |-> content,
                               n |-> Len(chunks)])
      /\ UNCHANGED <<invoke, turns, turn, reader, remote, free>>

RemoteAnswers(s, stop) ==
  /\ remote[s] # None
  /\ remote' = [remote EXCEPT ![s] = None]
  /\ free' = free \cup {s}
  /\ pipe' = Append(pipe, [kind |-> "response", for |-> remote[s], session |-> s, stop |-> stop])
  /\ UNCHANGED <<invoke, turns, turn, reader, sent>>

CallerStep(c) ==
  \/ \E request \in Requests : Invoke(c, request)
  \/ StartTurn(c) \/ Collect(c) \/ FinishTurn(c)

ReaderStep == ReadSession \/ ReadUpdate \/ Add \/ ReadResponse

Next ==
  \/ \E c \in Callers : CallerStep(c) \/ Cancel(c)
  \/ ReaderStep
  \/ \E c \in Callers, s \in Sessions : RemoteOpens(c, s)
  \/ \E s \in Sessions : \/ \E content \in Contents : RemoteUpdates(s, content)
                         \/ \E stop \in StopReasons : RemoteAnswers(s, stop)

Spec == Init /\ [][Next]_vars

-----------------------------------------------------------------------------
(* Properties *)

TypeOK ==
  /\ \A c \in Callers :
       /\ invoke[c].at \in {"idle", "opening", "opened", "prompting", "answered",
                            "succeeding", "failing", "done", "failed"}
       /\ invoke[c].session \in Sessions \cup {None}
       /\ invoke[c].stop \in StopReasons \cup {None}
       /\ turn[c].err \in BOOLEAN
       /\ \A i \in DOMAIN turn[c].parts : turn[c].parts[i].content \in {"text", "link"}
  /\ \A s \in Sessions : turns[s] \in Callers \cup {None} /\ remote[s] \in Callers \cup {None}
  /\ free \subseteq Sessions
  /\ \A s \in free : remote[s] = None

\* An Invoke that succeeds answers with exactly what the remote sent for its
\* own prompt before it answered it, in that order, with nothing unsupported
\* left out, although sessions are used again, other turns and late
\* updates of cancelled ones share the connection, and an update is added
\* after the lock it was looked up under is released (acp.go:198).
AnswerIsWhatWasSent ==
  \A c \in Callers :
    invoke[c].at \in {"succeeding", "done"} => invoke[c].answer = sent[c].chunks

\* A session is in turns while an Invoke works on it and no longer: a turn
\* that is left behind would refuse the session to everybody (acp.go:178).
TurnsAreReleased ==
  /\ TypeOK
  /\ \A s \in Sessions, c \in Callers :
       turns[s] = c <=> /\ invoke[c].session = s
                        /\ invoke[c].at \in {"prompting", "answered", "succeeding", "failing"}

\* Every artifact of the request reaches the remote, and what a message of it
\* refers to is not repeated after the messages (acp.go:275).
ArtifactsReachTheRemote ==
  \A c \in Callers :
    LET request == invoke[c].request
        prompt == invoke[c].prompt
    IN  /\ ToSet(request.artifacts) \subseteq ToSet(prompt)
        /\ SubSeq(prompt, 1, Len(Parts(request))) = Parts(request)
        /\ \A i \in DOMAIN prompt : i > Len(Parts(request)) => prompt[i] \notin ToSet(Parts(request))

=============================================================================
