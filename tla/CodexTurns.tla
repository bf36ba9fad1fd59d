----------------------------- MODULE CodexTurns -----------------------------
(***************************************************************************)
(* models/openai/codex/request.go: the next request after an answer.  The  *)
(* backend keeps nothing between requests, so the whole conversation goes  *)
(* back: the reasoning and the calls as the backend sent them, the text as *)
(* one message, and one output for each call.                              *)
(*                                                                         *)
(* The caller may be any program with a history of messages: agents/react  *)
(* keeps an answer whole; another may keep no response items, keep no      *)
(* calls, edit arguments, and leave out, repeat or misplace an output.     *)
(***************************************************************************)
EXTENDS CodexStream, TLC

CONSTANTS
  MaxFollowUps    \* bound on the messages after the answer

ASSUME TurnsAssumption == MaxFollowUps \in Nat

VARIABLES
  messages,   \* the conversation of the caller
  kept,       \* where the caller kept the answer, or 0
  request     \* what newResponsesRequest made of it

turnVars == <<vars, messages, kept, request>>

Earlier == MaxItems + 1      \* the call of an earlier answer
CallIds == Ids \cup {Earlier}

\* A part is the text or an item; the arguments of a call may be edited.
Part(kind, id) == [kind |-> kind, id |-> id]
Call(id, edited) == [id |-> id, edited |-> edited]
Message(role, parts, calls) == [role |-> role, parts |-> parts, calls |-> calls, output |-> 0]
ToolOutput(id) == [role |-> "tool", parts |-> <<Part("text", Text)>>, calls |-> <<>>, output |-> id]

NoRequest == [status |-> "none", instructions |-> 0, input |-> <<>>]
Refused == [status |-> "refused", instructions |-> 0, input |-> <<>>]

-----------------------------------------------------------------------------
(* Encoding: an item of the input is a message, the raw state of an answer,  *)
(* a call made anew or an output.                                            *)

InputItem(type, of, edited) == [type |-> type, of |-> of, edited |-> edited]

NewEncoder == [input |-> <<>>, instructions |-> 0, pending |-> {}, completed |-> {}, seen |-> {}, failed |-> FALSE]

Flush(run) ==
  IF run.content = <<>> THEN run
  ELSE [run EXCEPT !.input = Append(@, InputItem(run.role, run.content, FALSE)), !.content = <<>>]

\* (mutant) the text before a response item is not flushed
AddPartUnflushed(run, part) ==
  IF part.kind = "text" THEN [run EXCEPT !.content = Append(@, part.id)]
  ELSE [run EXCEPT !.input = Append(@, InputItem("state", <<part.id>>, FALSE)),
                   !.opaque = IF part.kind = "call" THEN @ \cup {part.id} ELSE @]

\* Text is gathered; a response item ends the message gathered so far.
AddPart(run, part) ==
  IF part.kind = "text" THEN [run EXCEPT !.content = Append(@, part.id)]
  ELSE LET flushed == Flush(run)
       IN [flushed EXCEPT !.input = Append(@, InputItem("state", <<part.id>>, FALSE)),
                          !.opaque = IF part.kind = "call" THEN @ \cup {part.id} ELSE @]

\* A call must be new and agree with its response item, or is encoded anew.
AddToolCall(encoder, call) ==
  [encoder EXCEPT
     !.failed = @ \/ call.id \in encoder.seen \/ (call.id \in encoder.opaque /\ call.edited),
     !.input = IF call.id \in encoder.opaque THEN @
               ELSE Append(@, InputItem("function_call", <<call.id>>, call.edited)),
     !.opaque = @ \ {call.id},
     !.seen = @ \cup {call.id},
     !.pending = @ \cup {call.id}]

HasState(parts) == \E i \in DOMAIN parts : parts[i].kind # "text"

\* Each call of the response items needs its call.
AddToolCalls(encoder, calls, opaque) ==
  LET made == FoldLeft(AddToolCall, encoder @@ [opaque |-> opaque], calls)
  IN [field \in DOMAIN encoder |->
        IF field = "failed" THEN made.failed \/ made.opaque # {} ELSE made[field]]

\* Response items are for assistant messages only.
AddModelMessage(encoder, message) ==
  LET run == Flush(FoldLeft(AddPart, [input |-> encoder.input, role |-> message.role,
                                      content |-> <<>>, opaque |-> {}], message.parts))
      misplaced == message.role # "assistant" /\ HasState(message.parts)
  IN AddToolCalls([encoder EXCEPT !.input = run.input, !.failed = misplaced], message.calls, run.opaque)

AddToolOutput(encoder, id) ==
  IF id \in encoder.completed \/ id \notin encoder.pending
  THEN [encoder EXCEPT !.failed = TRUE]
  ELSE [encoder EXCEPT !.input = Append(@, InputItem("function_call_output", <<id>>, FALSE)),
                       !.pending = @ \ {id},
                       !.completed = @ \cup {id}]

AddInstruction(encoder) == [encoder EXCEPT !.instructions = @ + 1]

AddMessage(encoder, message) ==
  CASE encoder.failed -> encoder
    [] message.role # "assistant" /\ message.calls # <<>> -> [encoder EXCEPT !.failed = TRUE]
    [] message.role # "tool" /\ encoder.pending # {} -> [encoder EXCEPT !.failed = TRUE]
    [] message.role = "tool" -> AddToolOutput(encoder, message.output)
    [] message.role = "system" -> AddInstruction(encoder)
    [] OTHER -> AddModelMessage(encoder, message)

NewResponsesRequest ==
  LET encoder == FoldLeft(AddMessage, NewEncoder, messages)
  IN IF encoder.failed \/ encoder.pending # {} \/ encoder.input = <<>> THEN Refused
     ELSE [status |-> "made", instructions |-> encoder.instructions, input |-> encoder.input]

-----------------------------------------------------------------------------
(* The caller *)

Asked == Message("user", <<Part("text", Text)>>, <<>>)
Answered(call) == Message("assistant", <<Part("call", call)>>, <<Call(call, FALSE)>>)

TurnsInit ==
  /\ Init
  /\ messages \in {<<Asked>>, <<Asked, Answered(Earlier), ToolOutput(Earlier)>>}
  /\ kept = 0
  /\ request = NoRequest

Streams ==
  /\ Next
  /\ UNCHANGED <<messages, kept, request>>

\* The parts of the answer; without its state, only the text.
PartOf(id) == Part(IF id = Text THEN "text" ELSE server.done[id].kind, id)
KeptParts(state) ==
  LET parts == [i \in DOMAIN answer.parts |-> PartOf(answer.parts[i])]
  IN SelectSeq(parts, LAMBDA part : state \/ part.kind = "text")

\* An approval may edit the arguments of the first call.
KeptCalls(calls) ==
  IF calls = "none" THEN <<>>
  ELSE [i \in DOMAIN answer.calls |-> Call(answer.calls[i], calls = "edited" /\ i = 1)]

\* The call is over and its streamResult is gone.
KeepAnswer(role, state, calls) ==
  /\ outcome = "answered"
  /\ server.unary
  /\ kept = 0
  /\ kept' = Len(messages) + 1
  /\ messages' = Append(messages, Message(role, KeptParts(state), KeptCalls(calls)))
  /\ server' = [server EXCEPT !.streams = FALSE]
  /\ result' = NewResult
  /\ seen' = {}
  /\ UNCHANGED <<yielded, outcome, answer, request>>

FollowUp(message) ==
  /\ kept # 0
  /\ request = NoRequest
  /\ Len(messages) < kept + MaxFollowUps
  /\ messages' = Append(messages, message)
  /\ UNCHANGED <<vars, kept, request>>

NextRequest ==
  /\ kept # 0
  /\ request = NoRequest
  /\ request' = NewResponsesRequest
  /\ UNCHANGED <<vars, messages, kept>>

CallerNext ==
  \/ \E role \in {"assistant", "user"}, state \in BOOLEAN, calls \in {"all", "edited", "none"} :
       KeepAnswer(role, state, calls)
  \/ \E id \in CallIds : FollowUp(ToolOutput(id))
  \/ FollowUp(Asked)
  \/ FollowUp(Message("system", <<Part("text", Text)>>, <<>>))
  \/ NextRequest

TurnsNext == Streams \/ CallerNext

TurnsSpec == TurnsInit /\ [][TurnsNext]_turnVars

-----------------------------------------------------------------------------

Elements(s) == {s[i] : i \in DOMAIN s}

\* The outputs that follow a message before any other message.
OutputsAfter(i) ==
  LET others == {j \in DOMAIN messages : j > i /\ messages[j].role # "tool"}
      end == IF others = {} THEN Len(messages) ELSE (CHOOSE j \in others : \A k \in others : j <= k) - 1
  IN [n \in 1..(end - i) |-> messages[i + n].output]

\* A conversation the backend can go on from: each call of a message has its
\* one output right after it, and response items stay with their own calls.
IsAnswered(message, outputs) ==
  /\ Len(outputs) = Len(message.calls)
  /\ Elements(outputs) = {call.id : call \in Elements(message.calls)}
AgreesWithState(message) ==
  /\ message.role # "assistant" => message.calls = <<>> /\ ~HasState(message.parts)
  /\ \A part \in Elements(message.parts) : part.kind = "call" => Call(part.id, FALSE) \in Elements(message.calls)
Coherent ==
  \A i \in DOMAIN messages :
    messages[i].role # "tool" =>
      IsAnswered(messages[i], OutputsAfter(i)) /\ AgreesWithState(messages[i])

\* The items of the backend as the next request has them.
Replayed == [i \in DOMAIN InOrder |->
               IF InOrder[i] = Text THEN InputItem("assistant", <<Text>>, FALSE)
               ELSE InputItem("state", <<InOrder[i]>>, FALSE)]
IsCall(item, id) ==
  /\ item.of = <<id>>
  /\ item.type = "function_call" \/ (item.type = "state" /\ (id = Earlier \/ server.done[id].kind = "call"))

\* A request is made of exactly the coherent conversations.  Its input has
\* what the backend sent, when the caller kept it: every reasoning and call as
\* it came, in its order, and the text once where it began.  Each output in it
\* stands after its one call, and each call of the conversation is in it once,
\* raw or made anew (encodeMessages, request.go:149; README.md:108-118).
NextRequestContinues ==
  request # NoRequest =>
    /\ (request.status = "made") <=> Coherent
    /\ request.status = "made" =>
         LET input == request.input
             PlacesOf(id) == {i \in DOMAIN input : IsCall(input[i], id)}
         IN /\ messages[kept].role = "assistant" /\ messages[kept].parts = KeptParts(TRUE) =>
                 \E i \in 0..(Len(input) - Len(Replayed)) : SubSeq(input, i + 1, i + Len(Replayed)) = Replayed
            /\ \A call \in Elements(FlattenSeq([i \in DOMAIN messages |-> messages[i].calls])) :
                 Cardinality(PlacesOf(call.id)) = 1
            /\ \A j \in DOMAIN input : input[j].type = "function_call_output" =>
                 \E i \in PlacesOf(input[j].of[1]) : i < j
=============================================================================
