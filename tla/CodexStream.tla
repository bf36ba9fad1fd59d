---------------------------- MODULE CodexStream ----------------------------
(***************************************************************************)
(* models/openai/codex/stream.go: the consumer of one response stream, for *)
(* Invoke and for InvokeStream.                                            *)
(*                                                                         *)
(* The backend is external.  It sends one output item after the other; the *)
(* text of its messages either comes in deltas, which the finished items   *)
(* repeat, or in the finished items alone.  The arguments of a call may    *)
(* come in deltas that name the item or the call.                          *)
(***************************************************************************)
EXTENDS Integers, Sequences, SequencesExt, FiniteSets

CONSTANTS
  MaxItems,    \* bound on the output items of a response
  MaxPieces,   \* bound on the deltas of an item
  MaxOutput    \* maxOutputBytes, in pieces of text and in state parts

ASSUME StreamAssumption == {MaxItems, MaxPieces, MaxOutput} \subseteq Nat

Kinds == {"message", "refusal", "call", "reasoning"}
NoItem == [kind |-> "none", id |-> 0, pieces |-> 0]
NoAnswer == [text |-> <<>>, parts |-> <<>>, calls |-> <<>>, refusal |-> <<>>]

VARIABLES
  server,    \* the items the backend finished and the one under way
  result,    \* streamResult
  yielded,   \* the chunks InvokeStream gave its consumer
  seen,      \* tool arguments the sinks got: pairs of a call and an event
  outcome,   \* how the call ended
  answer     \* what it returned

vars == <<server, result, yielded, seen, outcome, answer>>

Text == 0    \* stands for the text among the identifiers of items

\* A piece of text or refusal is named by its item and its place there.
Piece(id, n) == <<id, n>>
PiecesOf(item) == [n \in 1..item.pieces |-> Piece(item.id, n)]

NewResult == [text |-> <<>>, parts |-> <<>>, calls |-> <<>>, deltas |-> {}, refusal |-> <<>>,
              sawTextDelta |-> FALSE, sawRefusal |-> FALSE, textAt |-> 0]

\* streams: text comes in deltas; unary: the caller is Invoke.
Init ==
  /\ \E streams, unary \in BOOLEAN :
       server = [streams |-> streams, unary |-> unary, done |-> <<>>, item |-> NoItem, completed |-> FALSE]
  /\ result = NewResult
  /\ yielded = <<>>
  /\ seen = {}
  /\ outcome = "reading"
  /\ answer = NoAnswer

Reading == outcome = "reading"

Fails ==
  /\ outcome' = "failed"
  /\ UNCHANGED <<result, yielded, seen, answer>>

-----------------------------------------------------------------------------
(* Text *)

\* appendText remembers where the text began among the state parts.
Appended(value) ==
  [result EXCEPT !.text = @ \o value,
                 !.textAt = IF result.text = <<>> THEN Len(result.parts) ELSE @]

Fits(value) == Len(result.text) + Len(value) <= MaxOutput

\* The text reaches the sinks and, of InvokeStream, the consumer, who may stop.
Deliver(value, next) ==
  /\ result' = next
  /\ IF server.unary
     THEN UNCHANGED <<yielded, outcome>>
     ELSE /\ yielded' = yielded \o value
          /\ outcome' \in {outcome, "stopped"}
  /\ UNCHANGED <<seen, answer>>

TextDelta ==
  /\ Reading
  /\ server.streams
  /\ server.item.kind = "message"
  /\ server.item.pieces < MaxPieces
  /\ server' = [server EXCEPT !.item.pieces = @ + 1]
  /\ LET value == <<Piece(server.item.id, server.item.pieces + 1)>>
     IN IF Fits(value)
        THEN Deliver(value, [Appended(value) EXCEPT !.sawTextDelta = TRUE])
        ELSE Fails

RefusalDelta ==
  /\ Reading
  /\ server.streams
  /\ server.item.kind = "refusal"
  /\ server.item.pieces < MaxPieces
  /\ server' = [server EXCEPT !.item.pieces = @ + 1]
  /\ result' = [result EXCEPT !.sawRefusal = TRUE,
                              !.refusal = Append(@, Piece(server.item.id, server.item.pieces + 1))]
  /\ UNCHANGED <<yielded, seen, outcome, answer>>

-----------------------------------------------------------------------------
(* Items *)

\* response.output_item.added and the like are ignored.
ItemBegins(kind) ==
  /\ Reading
  /\ server.item = NoItem
  /\ Len(server.done) < MaxItems
  /\ server' = [server EXCEPT !.item = [kind |-> kind, id |-> Len(server.done) + 1, pieces |-> 0]]
  /\ UNCHANGED <<result, yielded, seen, outcome, answer>>

\* handleToolDelta: by is the identifier the event carries.
ToolDelta(by) ==
  /\ Reading
  /\ server.item.kind = "call"
  /\ server.item.pieces < MaxPieces
  /\ server' = [server EXCEPT !.item.pieces = @ + 1]
  /\ result' = [result EXCEPT !.deltas = @ \cup {<<by, server.item.id>>}]
  /\ seen' = seen \cup {<<server.item.id, "delta">>}
  /\ UNCHANGED <<yielded, outcome, answer>>

\* The backend finishes its item; a message that was not streamed has its text
\* now.
Finishes(item) ==
  /\ Reading
  /\ item.kind = server.item.kind
  /\ item.id = server.item.id
  /\ IF server.streams \/ item.kind \notin {"message", "refusal"}
     THEN item.pieces = server.item.pieces
     ELSE item.pieces \in 0..MaxPieces
  /\ server' = [server EXCEPT !.done = Append(@, item), !.item = NoItem]

\* (mutant) the finished message repeats what the deltas said
RepeatCompletedText(item) ==
  LET value == PiecesOf(item)
  IN IF value = <<>>
     THEN UNCHANGED <<result, yielded, seen, outcome, answer>>
     ELSE IF Fits(value) THEN Deliver(value, Appended(value)) ELSE Fails

\* Once a delta came, finished messages bring no text.
AddCompletedText(item) ==
  LET value == PiecesOf(item)
  IN IF result.sawTextDelta \/ value = <<>>
     THEN UNCHANGED <<result, yielded, seen, outcome, answer>>
     ELSE IF Fits(value) THEN Deliver(value, Appended(value)) ELSE Fails

AddMessageItem(item) ==
  /\ item.kind = "message"
  /\ Finishes(item)
  /\ AddCompletedText(item)

AddRefusalItem(item) ==
  /\ item.kind = "refusal"
  /\ Finishes(item)
  /\ result' = IF result.sawRefusal THEN result ELSE [result EXCEPT !.refusal = @ \o PiecesOf(item)]
  /\ UNCHANGED <<yielded, seen, outcome, answer>>

HasRoom == Len(result.parts) < MaxOutput

AddReasoning(item) ==
  /\ item.kind = "reasoning"
  /\ Finishes(item)
  /\ IF HasRoom
     THEN result' = [result EXCEPT !.parts = Append(@, item.id)] /\ UNCHANGED <<yielded, seen, outcome, answer>>
     ELSE Fails

\* (mutant) only deltas that name the call are looked for
HasToolDeltaOfCall(id) == <<"call", id>> \in result.deltas

HasToolDelta(id) == {<<"call", id>>, <<"item", id>>} \cap result.deltas # {}

AddFunctionCall(item) ==
  /\ item.kind = "call"
  /\ Finishes(item)
  /\ IF HasRoom
     THEN /\ result' = [result EXCEPT !.calls = Append(@, item.id), !.parts = Append(@, item.id)]
          /\ seen' = IF HasToolDelta(item.id) THEN seen ELSE seen \cup {<<item.id, "done">>}
          /\ UNCHANGED <<yielded, outcome, answer>>
     ELSE Fails

-----------------------------------------------------------------------------
(* The end *)

\* messageParts: the text stands where it began.
Parts ==
  IF result.text = <<>> THEN result.parts
  ELSE SubSeq(result.parts, 1, result.textAt) \o <<Text>>
         \o SubSeq(result.parts, result.textAt + 1, Len(result.parts))

\* response.completed: Invoke returns the response, which must not both call
\* tools and refuse.
Completed ==
  /\ Reading
  /\ server.item = NoItem
  /\ server' = [server EXCEPT !.completed = TRUE]
  /\ IF server.unary /\ result.calls # <<>> /\ result.refusal # <<>>
     THEN outcome' = "failed" /\ UNCHANGED answer
     ELSE /\ outcome' = "answered"
          /\ answer' = [text |-> result.text, parts |-> Parts, calls |-> result.calls,
                        refusal |-> result.refusal]
  /\ UNCHANGED <<result, yielded, seen>>

\* The stream ends, with or without [DONE], before response.completed; it
\* cannot be read or decoded; a call comes twice; the response failed or is
\* incomplete; a sink returns an error.
StreamFails ==
  /\ Reading
  /\ Fails
  /\ UNCHANGED server

HandleEvent ==
  \/ TextDelta
  \/ RefusalDelta
  \/ \E kind \in Kinds : ItemBegins(kind)
  \/ \E by \in {"item", "call"} : ToolDelta(by)
  \/ \E kind \in Kinds, id \in 1..MaxItems, n \in 0..MaxPieces :
       LET item == [kind |-> kind, id |-> id, pieces |-> n]
       IN AddMessageItem(item) \/ AddRefusalItem(item) \/ AddReasoning(item) \/ AddFunctionCall(item)
  \/ Completed

Next == HandleEvent \/ StreamFails

Spec == Init /\ [][Next]_vars

-----------------------------------------------------------------------------

Ids == 1..MaxItems
PieceSeqs == Seq(Ids \X (1..MaxPieces))
Item == [kind : Kinds, id : Ids, pieces : 0..MaxPieces]

TypeOK ==
  /\ server \in [streams : BOOLEAN, unary : BOOLEAN, done : Seq(Item), item : Item \cup {NoItem}, completed : BOOLEAN]
  /\ result.text \in PieceSeqs /\ result.refusal \in PieceSeqs /\ yielded \in PieceSeqs
  /\ result.parts \in Seq(Ids) /\ result.calls \in Seq(Ids)
  /\ result.textAt \in 0..Len(result.parts)
  /\ result.deltas \subseteq {"item", "call"} \X Ids
  /\ seen \subseteq Ids \X {"delta", "done"}
  /\ outcome \in {"reading", "answered", "failed", "stopped"}

\* What the backend said in items of a kind, and the calls it made.
Said(kind) == FlattenSeq([i \in DOMAIN server.done |->
                IF server.done[i].kind = kind THEN PiecesOf(server.done[i]) ELSE <<>>])
Called == FlattenSeq([i \in DOMAIN server.done |->
            IF server.done[i].kind = "call" THEN <<server.done[i].id>> ELSE <<>>])

\* The items to be sent back, and among them the text where it began.
HasText(item) == item.kind = "message" /\ item.pieces > 0
FirstText == SelectInSeq(server.done, HasText)
InOrder == FlattenSeq([i \in DOMAIN server.done |->
             IF i = FirstText THEN <<Text>>
             ELSE IF server.done[i].kind \in {"reasoning", "call"} THEN <<server.done[i].id>> ELSE <<>>])

\* An answer is the complete response: it exists only when the backend
\* completed it, every piece of text and of a refusal is in it once and in
\* order although finished items repeat the deltas, every call is there, the
\* reasoning and the calls keep their place around the text, and InvokeStream
\* gave its consumer the same text (consumeStream, stream.go:105; README.md:102).
AnswerIsTheResponse ==
  /\ TypeOK
  /\ outcome = "answered" =>
       /\ server.completed
       /\ answer.text = Said("message")
       /\ answer.refusal = Said("refusal")
       /\ answer.calls = Called
       /\ answer.parts = InOrder
       /\ server.unary \/ yielded = answer.text

\* The sinks get the arguments of a call once: in deltas or, when there were
\* none, from the finished item, whichever identifier the deltas carried
\* (addFunctionCall, stream.go:266-302).
ArgumentsAreSeenOnce ==
  \A i \in DOMAIN result.calls :
    Cardinality({e \in seen : e[1] = result.calls[i]}) = 1
=============================================================================
