-------------------------- MODULE CodexTurnsProofs --------------------------
(***************************************************************************)
(* What the consumer of a Codex stream gathers, for every value of the     *)
(* constants.  StreamInv says that, while the stream is read, each list of *)
(* the result is what the finished items hold of it and the item under way *)
(* adds; an answer then is the complete response, whatever came in deltas. *)
(***************************************************************************)
EXTENDS CodexTurns, Recursion, SequenceTheorems

-----------------------------------------------------------------------------
(* Lists that are put together item by item *)

\* One list more is one put at the end.
LEMMA FlattenExtends ==
  ASSUME NEW E, NEW t \in Seq(Seq(E)), NEW u \in Seq(Seq(E)),
         Len(u) = Len(t) + 1, \A i \in 1..Len(t) : u[i] = t[i]
  PROVE FlattenSeq(u) = FlattenSeq(t) \o u[Len(t) + 1]
<1> DEFINE X == Seq(E)
           v == Append(t, u[Len(t) + 1])
<1>1. Len(t) \in Nat /\ u[Len(t) + 1] \in X
  OBVIOUS
<1>2. v \in Seq(X) /\ Len(v) = Len(t) + 1
  BY <1>1
<1>3. \A i \in 1..(Len(t) + 1) : v[i] = u[i]
  <2> SUFFICES ASSUME NEW i \in 1..(Len(t) + 1) PROVE v[i] = u[i]
    OBVIOUS
  <2>1. i = Len(t) + 1 \/ i \in 1..Len(t)
    BY <1>1
  <2> QED BY <1>1, <2>1
<1>4. FlattenSeq(v) = FlattenSeq(t) \o u[Len(t) + 1]
  BY <1>1, FlattenGrows
<1> HIDE DEF v
<1>5. v = u
  BY <1>2, <1>3, SeqEqual
<1> QED BY <1>4, <1>5

\* What a finished item has, and what the items before it had.
Pieces == Ids \X (1..MaxPieces)
SaidBy(item, kind) == IF item.kind = kind THEN PiecesOf(item) ELSE <<>>
CalledBy(item) == IF item.kind = "call" THEN <<item.id>> ELSE <<>>
PlaceIds == Ids \cup {Text}
Kept(item) == IF item.kind \in {"reasoning", "call"} THEN <<item.id>> ELSE <<>>

SaidIn(items, kind) == FlattenSeq([i \in DOMAIN items |-> SaidBy(items[i], kind)])
CalledIn(items) == FlattenSeq([i \in DOMAIN items |-> CalledBy(items[i])])
FirstTextIn(items) == SelectInSeq(items, HasText)
OrderOf(items) == FlattenSeq([i \in DOMAIN items |-> IF i = FirstTextIn(items) THEN <<Text>> ELSE Kept(items[i])])

\* The definitions of the properties, over the finished items.
LEMMA Unfolded ==
  /\ \A kind : Said(kind) = SaidIn(server.done, kind)
  /\ Called = CalledIn(server.done)
  /\ FirstText = FirstTextIn(server.done)
  /\ InOrder = OrderOf(server.done)
BY DEF Said, Called, FirstText, InOrder, SaidIn, CalledIn, FirstTextIn, OrderOf, SaidBy, CalledBy, Kept

\* The bounds are numbers.
LEMMA Bounds == MaxItems \in Nat /\ MaxPieces \in Nat /\ MaxOutput \in Nat
BY StreamAssumption

\* What an item is made of.
LEMMA ItemFields ==
  ASSUME NEW item \in Item
  PROVE /\ item.kind \in Kinds /\ item.id \in Ids /\ item.id \in Nat /\ item.pieces \in 0..MaxPieces
        /\ item.pieces \in Nat
        /\ PiecesOf(item) \in Seq(Pieces) /\ Len(PiecesOf(item)) = item.pieces
        /\ (PiecesOf(item) = <<>> <=> item.pieces = 0)
        /\ \A kind : SaidBy(item, kind) \in Seq(Pieces)
        /\ CalledBy(item) \in Seq(Ids)
        /\ Kept(item) \in Seq(PlaceIds)
<1>1. item.kind \in Kinds /\ item.id \in Ids /\ item.pieces \in 0..MaxPieces
  BY DEF Item
<1>2. item.pieces \in Nat /\ item.id \in Nat
  BY <1>1, Bounds DEF Ids
<1>3. PiecesOf(item) \in [1..item.pieces -> Pieces]
  <2>1. \A n \in 1..item.pieces : n \in 1..MaxPieces
    BY <1>1, Bounds
  <2> QED BY <1>1, <2>1 DEF PiecesOf, Piece, Pieces
<1>4. PiecesOf(item) \in Seq(Pieces) /\ Len(PiecesOf(item)) = item.pieces
  BY <1>2, <1>3
<1>5. PiecesOf(item) = <<>> <=> item.pieces = 0
  BY <1>2, <1>4
<1>6. \A kind : SaidBy(item, kind) \in Seq(Pieces)
  BY <1>4 DEF SaidBy
<1>7. CalledBy(item) \in Seq(Ids) /\ Kept(item) \in Seq(PlaceIds)
  <2>1. <<item.id>> \in Seq(Ids) /\ <<item.id>> \in Seq(PlaceIds)
    BY <1>1 DEF PlaceIds
  <2>2. <<>> \in Seq(Ids) /\ <<>> \in Seq(PlaceIds)
    OBVIOUS
  <2> QED BY <2>1, <2>2 DEF CalledBy, Kept
<1> QED BY <1>1, <1>2, <1>4, <1>5, <1>6, <1>7

\* The text has a place among the parts.
LEMMA TextIsAPlace == <<Text>> \in Seq(PlaceIds)
BY DEF PlaceIds

\* The first text among items.
LEMMA FirstTextIs ==
  ASSUME NEW items \in Seq(Item)
  PROVE LET f == FirstTextIn(items) IN
        \/ f = 0 /\ \A i \in 1..Len(items) : ~HasText(items[i])
        \/ f \in 1..Len(items) /\ HasText(items[f]) /\ \A i \in 1..Len(items) : HasText(items[i]) => f <= i
<1> DEFINE T == {i \in 1..Len(items) : HasText(items[i])}
<1>1. FirstTextIn(items) = IF T # {} THEN Min(T) ELSE 0
  BY DEF FirstTextIn, SelectInSeq
<1>2. T \subseteq Nat /\ \A i : i \in T <=> i \in 1..Len(items) /\ HasText(items[i])
  OBVIOUS
<1> HIDE DEF T
<1>3. CASE T = {}
  BY <1>1, <1>2, <1>3
<1>4. CASE T # {}
  <2>1. \E m \in T : \A k \in T : m <= k
    BY <1>2, <1>4, Least
  <2>2. Min(T) \in T /\ \A k \in T : Min(T) <= k
    BY <2>1 DEF Min
  <2> QED BY <1>1, <1>2, <1>4, <2>2
<1> QED BY <1>3, <1>4

\* An item more is the first text only when there was none before it.
LEMMA FirstTextGrows ==
  ASSUME NEW items \in Seq(Item), NEW item \in Item
  PROVE FirstTextIn(Append(items, item)) =
          IF FirstTextIn(items) # 0 THEN FirstTextIn(items)
          ELSE IF HasText(item) THEN Len(items) + 1 ELSE 0
<1> DEFINE more == Append(items, item)
           f == FirstTextIn(items)
           g == FirstTextIn(more)
           n == Len(items)
<1>1. /\ more \in Seq(Item) /\ Len(more) = n + 1 /\ more[n + 1] = item /\ n \in Nat
      /\ \A i \in 1..n : more[i] = items[i]
  OBVIOUS
<1> HIDE DEF more
<1>2. \/ f = 0 /\ \A i \in 1..n : ~HasText(items[i])
      \/ f \in 1..n /\ HasText(items[f]) /\ \A i \in 1..n : HasText(items[i]) => f <= i
  BY FirstTextIs
<1>3. \/ g = 0 /\ \A i \in 1..(n + 1) : ~HasText(more[i])
      \/ g \in 1..(n + 1) /\ HasText(more[g]) /\ \A i \in 1..(n + 1) : HasText(more[i]) => g <= i
  BY <1>1, FirstTextIs
<1> HIDE DEF f, g, n
<1>4. g = IF f # 0 THEN f ELSE IF HasText(item) THEN n + 1 ELSE 0
  <2>1. CASE f # 0
    <3>1. f \in 1..n /\ HasText(more[f]) /\ f \in 1..(n + 1)
      BY <1>1, <1>2, <2>1
    <3>2. g \in 1..(n + 1) /\ g <= f /\ HasText(more[g])
      BY <1>3, <3>1
    <3>3. g \in 1..n /\ HasText(items[g])
      BY <1>1, <3>1, <3>2
    <3>4. f <= g
      BY <1>2, <2>1, <3>3
    <3> QED BY <1>1, <2>1, <3>1, <3>2, <3>4
  <2>2. CASE f = 0
    <3>1. \A i \in 1..n : ~HasText(more[i])
      BY <1>1, <1>2, <2>2
    <3>2. g = 0 \/ g = n + 1
      BY <1>1, <1>3, <3>1
    <3>3. n + 1 # 0 /\ n + 1 \in 1..(n + 1)
      BY <1>1
    <3> QED BY <1>1, <1>3, <2>2, <3>2, <3>3
  <2> QED BY <2>1, <2>2
<1> QED BY <1>4 DEF f, g, n, more

\* A finished item adds what it has.
LEMMA GatheredGrows ==
  ASSUME NEW items \in Seq(Item), NEW item \in Item
  PROVE LET more == Append(items, item) IN
        /\ \A kind : SaidIn(more, kind) = SaidIn(items, kind) \o SaidBy(item, kind)
        /\ CalledIn(more) = CalledIn(items) \o CalledBy(item)
        /\ OrderOf(more) = OrderOf(items) \o (IF FirstTextIn(items) = 0 /\ HasText(item) THEN <<Text>> ELSE Kept(item))
<1> DEFINE more == Append(items, item)
           n == Len(items)
<1>1. /\ more \in Seq(Item) /\ Len(more) = n + 1 /\ more[n + 1] = item /\ n \in Nat
      /\ \A i \in 1..n : more[i] = items[i] /\ items[i] \in Item
      /\ DOMAIN more = 1..(n + 1) /\ DOMAIN items = 1..n
      /\ \A i \in 1..(n + 1) : more[i] \in Item
  <2>1. /\ more \in Seq(Item) /\ Len(more) = n + 1 /\ more[n + 1] = item /\ n \in Nat
        /\ \A i \in 1..n : more[i] = items[i] /\ items[i] \in Item
    OBVIOUS
  <2> HIDE DEF more, n
  <2>2. \A i \in 1..(n + 1) : more[i] \in Item
    BY <2>1
  <2> QED BY <2>1, <2>2 DEF n
<1>2. FirstTextIn(more) = IF FirstTextIn(items) # 0 THEN FirstTextIn(items) ELSE IF HasText(item) THEN n + 1 ELSE 0
  BY FirstTextGrows
<1>3. FirstTextIn(items) \in 0..n
  BY <1>1, FirstTextIs
<1> HIDE DEF more, n
<1>4. ASSUME NEW kind PROVE SaidIn(more, kind) = SaidIn(items, kind) \o SaidBy(item, kind)
  <2> DEFINE t == [i \in 1..n |-> SaidBy(items[i], kind)]
             u == [i \in 1..(n + 1) |-> SaidBy(more[i], kind)]
  <2>1. t \in [1..n -> Seq(Pieces)] /\ u \in [1..(n + 1) -> Seq(Pieces)]
    BY <1>1, ItemFields
  <2>2. (\A i \in 1..n : u[i] = t[i]) /\ u[n + 1] = SaidBy(item, kind)
    BY <1>1
  <2>3. SaidIn(items, kind) = FlattenSeq(t) /\ SaidIn(more, kind) = FlattenSeq(u)
    BY <1>1 DEF SaidIn
  <2> HIDE DEF t, u
  <2>4. t \in Seq(Seq(Pieces)) /\ u \in Seq(Seq(Pieces)) /\ Len(t) = n /\ Len(u) = n + 1
    BY <1>1, <2>1
  <2> QED BY <2>2, <2>3, <2>4, FlattenExtends
<1>5. CalledIn(more) = CalledIn(items) \o CalledBy(item)
  <2> DEFINE t == [i \in 1..n |-> CalledBy(items[i])]
             u == [i \in 1..(n + 1) |-> CalledBy(more[i])]
  <2>1. t \in [1..n -> Seq(Ids)] /\ u \in [1..(n + 1) -> Seq(Ids)]
    BY <1>1, ItemFields
  <2>2. (\A i \in 1..n : u[i] = t[i]) /\ u[n + 1] = CalledBy(item)
    BY <1>1
  <2>3. CalledIn(items) = FlattenSeq(t) /\ CalledIn(more) = FlattenSeq(u)
    BY <1>1 DEF CalledIn
  <2> HIDE DEF t, u
  <2>4. t \in Seq(Seq(Ids)) /\ u \in Seq(Seq(Ids)) /\ Len(t) = n /\ Len(u) = n + 1
    BY <1>1, <2>1
  <2> QED BY <2>2, <2>3, <2>4, FlattenExtends
<1>6. OrderOf(more) = OrderOf(items) \o (IF FirstTextIn(items) = 0 /\ HasText(item) THEN <<Text>> ELSE Kept(item))
  <2> DEFINE t == [i \in 1..n |-> IF i = FirstTextIn(items) THEN <<Text>> ELSE Kept(items[i])]
             u == [i \in 1..(n + 1) |-> IF i = FirstTextIn(more) THEN <<Text>> ELSE Kept(more[i])]
  <2>1. t \in [1..n -> Seq(PlaceIds)] /\ u \in [1..(n + 1) -> Seq(PlaceIds)]
    BY <1>1, ItemFields, TextIsAPlace
  <2>2. \A i \in 1..n : u[i] = t[i]
    <3> SUFFICES ASSUME NEW i \in 1..n PROVE u[i] = t[i]
      OBVIOUS
    <3>1. i \in 1..(n + 1) /\ more[i] = items[i]
      BY <1>1
    <3>2. i = FirstTextIn(more) <=> i = FirstTextIn(items)
      BY <1>1, <1>2, <1>3
    <3> QED BY <3>1, <3>2
  <2>3. u[n + 1] = IF FirstTextIn(items) = 0 /\ HasText(item) THEN <<Text>> ELSE Kept(item)
    <3>1. n + 1 \in 1..(n + 1) /\ more[n + 1] = item
      BY <1>1
    <3>2. n + 1 = FirstTextIn(more) <=> FirstTextIn(items) = 0 /\ HasText(item)
      BY <1>1, <1>2, <1>3
    <3> QED BY <3>1, <3>2
  <2>4. OrderOf(items) = FlattenSeq(t) /\ OrderOf(more) = FlattenSeq(u)
    BY <1>1 DEF OrderOf
  <2> HIDE DEF t, u
  <2>5. t \in Seq(Seq(PlaceIds)) /\ u \in Seq(Seq(PlaceIds)) /\ Len(t) = n /\ Len(u) = n + 1
    BY <1>1, <2>1
  <2> QED BY <2>2, <2>3, <2>4, <2>5, FlattenExtends
<1> QED BY <1>4, <1>5, <1>6 DEF more

\* Before the first item there is nothing; lists are lists.
LEMMA GatheredIsTyped ==
  ASSUME NEW items \in Seq(Item)
  PROVE /\ \A kind : SaidIn(items, kind) \in Seq(Pieces)
        /\ CalledIn(items) \in Seq(Ids)
        /\ OrderOf(items) \in Seq(PlaceIds)
        /\ items = <<>> => /\ \A kind : SaidIn(items, kind) = <<>>
                           /\ CalledIn(items) = <<>> /\ OrderOf(items) = <<>> /\ FirstTextIn(items) = 0
<1> DEFINE n == Len(items)
<1>1. n \in Nat /\ DOMAIN items = 1..n /\ (items = <<>> => n = 0) /\ \A i \in 1..n : items[i] \in Item
  OBVIOUS
<1>2. ASSUME NEW kind PROVE SaidIn(items, kind) \in Seq(Pieces) /\ (items = <<>> => SaidIn(items, kind) = <<>>)
  <2> DEFINE t == [i \in 1..n |-> SaidBy(items[i], kind)]
  <2>1. t \in [1..n -> Seq(Pieces)]
    BY <1>1, ItemFields
  <2>2. SaidIn(items, kind) = FlattenSeq(t)
    BY <1>1 DEF SaidIn
  <2> HIDE DEF t, n
  <2>3. t \in Seq(Seq(Pieces)) /\ (n = 0 => t = <<>>)
    BY <1>1, <2>1
  <2> QED BY <1>1, <2>2, <2>3, FlattenIsTyped
<1>3. CalledIn(items) \in Seq(Ids) /\ (items = <<>> => CalledIn(items) = <<>>)
  <2> DEFINE t == [i \in 1..n |-> CalledBy(items[i])]
  <2>1. t \in [1..n -> Seq(Ids)]
    BY <1>1, ItemFields
  <2>2. CalledIn(items) = FlattenSeq(t)
    BY <1>1 DEF CalledIn
  <2> HIDE DEF t, n
  <2>3. t \in Seq(Seq(Ids)) /\ (n = 0 => t = <<>>)
    BY <1>1, <2>1
  <2> QED BY <1>1, <2>2, <2>3, FlattenIsTyped
<1>4. OrderOf(items) \in Seq(PlaceIds) /\ (items = <<>> => OrderOf(items) = <<>>)
  <2> DEFINE t == [i \in 1..n |-> IF i = FirstTextIn(items) THEN <<Text>> ELSE Kept(items[i])]
  <2>1. t \in [1..n -> Seq(PlaceIds)]
    BY <1>1, ItemFields, TextIsAPlace
  <2>2. OrderOf(items) = FlattenSeq(t)
    BY <1>1 DEF OrderOf
  <2> HIDE DEF t, n
  <2>3. t \in Seq(Seq(PlaceIds)) /\ (n = 0 => t = <<>>)
    BY <1>1, <2>1
  <2> QED BY <1>1, <2>2, <2>3, FlattenIsTyped
<1>5. ASSUME items = <<>> PROVE FirstTextIn(items) = 0
  <2>1. n = 0 /\ 1..n = {}
    BY <1>1, <1>5
  <2>2. FirstTextIn(items) = 0 \/ FirstTextIn(items) \in 1..n
    BY FirstTextIs
  <2> QED BY <2>1, <2>2
<1> QED BY <1>2, <1>3, <1>4, <1>5

-----------------------------------------------------------------------------
(* The invariant *)

ServerRecord ==
  [streams : BOOLEAN, unary : BOOLEAN, done : Seq(Item), item : Item \cup {NoItem}, completed : BOOLEAN]

ResultRecord ==
  [text : PieceSeqs, parts : Seq(Ids), calls : Seq(Ids), deltas : SUBSET ({"item", "call"} \X Ids),
   refusal : PieceSeqs, sawTextDelta : BOOLEAN, sawRefusal : BOOLEAN, textAt : Nat]

\* Items are numbered as they come; the one under way is the next.
Served ==
  /\ server \in ServerRecord
  /\ server.item # NoItem =>
       /\ server.item.kind \in Kinds
       /\ server.item.id = Len(server.done) + 1

StreamTyped ==
  /\ result \in ResultRecord
  /\ result.textAt <= Len(result.parts)
  /\ yielded \in PieceSeqs
  /\ seen \subseteq Ids \X {"delta", "done"}
  /\ outcome \in {"reading", "answered", "failed", "stopped"}

\* The item under way adds what its deltas said.
Underway(kind) == IF server.streams THEN SaidBy(server.item, kind) ELSE <<>>
Begun == server.streams /\ HasText(server.item)

TextGathered ==
  /\ result.text = SaidIn(server.done, "message") \o Underway("message")
  /\ result.text = <<>> <=> FirstTextIn(server.done) = 0 /\ ~Begun
  /\ result.sawTextDelta <=> server.streams /\ result.text # <<>>
  /\ server.unary \/ yielded = result.text

RefusalGathered ==
  /\ result.refusal = SaidIn(server.done, "refusal") \o Underway("refusal")
  /\ result.sawRefusal <=> server.streams /\ result.refusal # <<>>

PartsGathered ==
  /\ result.calls = CalledIn(server.done)
  /\ Parts = OrderOf(server.done) \o (IF Begun /\ FirstTextIn(server.done) = 0 THEN <<Text>> ELSE <<>>)

Gathered == outcome = "reading" => TextGathered /\ RefusalGathered /\ PartsGathered

\* The sinks have seen the arguments of a call that was gathered in one way.
SeenOnce ==
  /\ \A id \in Ids : <<id, "delta">> \in seen <=> HasToolDelta(id)
  /\ \A id \in Ids : <<id, "done">> \in seen => id <= Len(server.done)
  /\ \A i \in 1..Len(result.calls) :
       /\ result.calls[i] <= Len(server.done)
       /\ <<result.calls[i], "delta">> \in seen <=> <<result.calls[i], "done">> \notin seen

Answers ==
  outcome = "answered" =>
    /\ server.completed
    /\ answer.text = SaidIn(server.done, "message")
    /\ answer.refusal = SaidIn(server.done, "refusal")
    /\ answer.calls = CalledIn(server.done)
    /\ answer.parts = OrderOf(server.done)
    /\ server.unary \/ yielded = answer.text

StreamInv == Served /\ StreamTyped /\ Gathered /\ SeenOnce /\ Answers

\* What the backend keeps.
LEMMA ServerFields ==
  ASSUME Served
  PROVE /\ server.streams \in BOOLEAN /\ server.unary \in BOOLEAN /\ server.completed \in BOOLEAN
        /\ server.done \in Seq(Item) /\ Len(server.done) \in Nat
        /\ server.item \in Item \cup {NoItem}
        /\ server.item.kind \in Kinds => server.item \in Item /\ server.item # NoItem
        /\ server.item = NoItem => server.item.kind \notin Kinds
<1>1. server \in ServerRecord
  BY DEF Served
<1>2. /\ server.streams \in BOOLEAN /\ server.unary \in BOOLEAN /\ server.completed \in BOOLEAN
      /\ server.done \in Seq(Item)
      /\ server.item \in Item \cup {NoItem}
  BY <1>1 DEF ServerRecord
<1>3. Len(server.done) \in Nat
  BY <1>2
<1>4. NoItem.kind \notin Kinds
  BY DEF NoItem, Kinds
<1> QED BY <1>2, <1>3, <1>4

\* What a streamResult keeps.
LEMMA ResultFields ==
  ASSUME StreamTyped
  PROVE /\ result.text \in Seq(Pieces) /\ result.refusal \in Seq(Pieces) /\ yielded \in Seq(Pieces)
        /\ result.parts \in Seq(Ids) /\ result.calls \in Seq(Ids)
        /\ result.deltas \in SUBSET ({"item", "call"} \X Ids)
        /\ result.sawTextDelta \in BOOLEAN /\ result.sawRefusal \in BOOLEAN
        /\ result.textAt \in Nat /\ Len(result.parts) \in Nat /\ result.textAt <= Len(result.parts)
        /\ result = [result EXCEPT !.text = @]
BY DEF StreamTyped, ResultRecord, PieceSeqs, Pieces

-----------------------------------------------------------------------------
(* What the backend does *)

\* A delta adds a piece to the item under way and changes nothing else.
LEMMA PieceComes ==
  ASSUME Served, server.item.kind \in Kinds, server.item.pieces < MaxPieces,
         server' = [server EXCEPT !.item.pieces = @ + 1]
  PROVE /\ Served'
        /\ server'.streams = server.streams /\ server'.unary = server.unary /\ server'.done = server.done
        /\ server'.item = [server.item EXCEPT !.pieces = @ + 1]
        /\ server'.item \in Item
<1>1. server \in ServerRecord /\ server.item \in Item /\ server.item # NoItem
  BY ServerFields DEF Served
<1>2. server.item.pieces + 1 \in 0..MaxPieces
  BY <1>1, ItemFields, Bounds
<1>3. [server.item EXCEPT !.pieces = @ + 1] \in Item
  BY <1>1, <1>2 DEF Item
<1>4. /\ server'.streams = server.streams /\ server'.unary = server.unary /\ server'.done = server.done
      /\ server'.completed = server.completed
      /\ server'.item = [server.item EXCEPT !.pieces = @ + 1]
      /\ server' \in ServerRecord
  BY <1>1, <1>3 DEF ServerRecord
<1>5. server'.item.kind = server.item.kind /\ server'.item.id = server.item.id
  BY <1>1, <1>4 DEF Item
<1> QED BY <1>1, <1>3, <1>4, <1>5 DEF Served

\* The item under way is finished; unless its text comes only now, it is what
\* its deltas said.
LEMMA ItemFinishes ==
  ASSUME Served, NEW item \in Item, Finishes(item)
  PROVE /\ Served'
        /\ server'.streams = server.streams /\ server'.unary = server.unary
        /\ server'.done = Append(server.done, item) /\ Len(server'.done) = Len(server.done) + 1
        /\ server'.item = NoItem
        /\ server.item.kind = item.kind /\ server.item \in Item
        /\ item.id = Len(server.done) + 1
        /\ \A kind : (server.streams \/ item.kind \notin {"message", "refusal"}) =>
             SaidBy(server.item, kind) = SaidBy(item, kind)
        /\ server.streams => (HasText(server.item) <=> HasText(item))
<1>1. server \in ServerRecord /\ server.done \in Seq(Item) /\ Len(server.done) \in Nat
  BY ServerFields DEF Served
<1>2. server.item.kind = item.kind /\ server.item.id = item.id /\ item.kind \in Kinds
  BY ItemFields DEF Finishes
<1>3. server.item \in Item /\ server.item # NoItem
  BY <1>2, ServerFields
<1>4. Append(server.done, item) \in Seq(Item) /\ Len(Append(server.done, item)) = Len(server.done) + 1
  BY <1>1
<1>5. server' = [server EXCEPT !.done = Append(@, item), !.item = NoItem]
  BY DEF Finishes
<1>6. /\ server'.streams = server.streams /\ server'.unary = server.unary
      /\ server'.done = Append(server.done, item)
      /\ server'.item = NoItem
      /\ server' \in ServerRecord
  BY <1>1, <1>4, <1>5 DEF ServerRecord
<1>7. Served'
  BY <1>6 DEF Served
<1>8. (server.streams \/ item.kind \notin {"message", "refusal"}) => item.pieces = server.item.pieces
  BY DEF Finishes
<1>9. /\ \A kind : (server.streams \/ item.kind \notin {"message", "refusal"}) =>
            SaidBy(server.item, kind) = SaidBy(item, kind)
      /\ server.streams => (HasText(server.item) <=> HasText(item))
  BY <1>2, <1>8 DEF SaidBy, PiecesOf, HasText
<1> QED BY <1>2, <1>3, <1>4, <1>6, <1>7, <1>9 DEF Served

\* Between two items nothing is under way.
LEMMA NothingUnderway ==
  ASSUME server.item = NoItem
  PROVE (\A kind \in Kinds : Underway(kind) = <<>>) /\ ~Begun
BY DEF Underway, Begun, SaidBy, HasText, NoItem, Kinds

-----------------------------------------------------------------------------
(* What the consumer does with it *)

\* Arguments that are not gathered again stay seen as they were.
LEMMA SeenStays ==
  ASSUME SeenOnce, result'.deltas = result.deltas, result'.calls = result.calls, seen' = seen,
         Len(server.done) \in Nat, Len(server'.done) \in Nat, Len(server'.done) >= Len(server.done),
         result.calls \in Seq(Ids)
  PROVE SeenOnce'
<1>1. \A id : HasToolDelta(id)' <=> HasToolDelta(id)
  BY DEF HasToolDelta
<1>2. \A id \in Ids : id \in Nat
  BY Bounds DEF Ids
<1>3. \A i \in 1..Len(result.calls) : result.calls[i] \in Ids
  OBVIOUS
<1> QED BY <1>1, <1>2, <1>3 DEF SeenOnce

\* A stream that fails leaves what it gathered, and there is no answer.
LEMMA FailsKeeps ==
  ASSUME StreamInv, Served', Fails, Len(server'.done) >= Len(server.done)
  PROVE StreamInv'
<1>1. Len(server.done) \in Nat /\ Len(server'.done) \in Nat /\ result.calls \in Seq(Ids)
  <2>1. Served /\ StreamTyped
    BY DEF StreamInv
  <2>2. server' \in ServerRecord
    BY DEF Served
  <2>3. server'.done \in Seq(Item)
    BY <2>2 DEF ServerRecord
  <2> QED BY <2>1, <2>3, ServerFields, ResultFields
<1>2. SeenOnce'
  BY <1>1, SeenStays DEF StreamInv, Fails
<1>3. StreamTyped'
  BY DEF StreamInv, StreamTyped, Fails
<1> QED BY <1>2, <1>3 DEF StreamInv, Fails, Gathered, Answers

\* Text appended to none stands after the parts so far; more text joins it.
LEMMA TextAppended ==
  ASSUME StreamTyped, NEW value \in Seq(Pieces), value # <<>>,
         result'.text = result.text \o value, result'.parts = result.parts,
         result'.textAt = IF result.text = <<>> THEN Len(result.parts) ELSE result.textAt
  PROVE /\ result'.text \in Seq(Pieces) /\ result'.text # <<>>
        /\ Parts' = Parts \o (IF result.text = <<>> THEN <<Text>> ELSE <<>>)
        /\ result'.textAt \in Nat /\ result'.textAt <= Len(result.parts)
<1> DEFINE parts == result.parts
           at == result.textAt
<1>1. /\ result.text \in Seq(Pieces) /\ parts \in Seq(Ids) /\ Len(parts) \in Nat /\ at \in Nat /\ at <= Len(parts)
  BY ResultFields
<1>2. result'.text \in Seq(Pieces) /\ result'.text # <<>>
  <2>1. Len(value) > 0 /\ Len(result.text) \in Nat /\ Len(value) \in Nat
    BY <1>1
  <2>2. Len(result.text \o value) = Len(result.text) + Len(value) /\ result.text \o value \in Seq(Pieces)
    BY <1>1
  <2>3. Len(<<>>) = 0
    OBVIOUS
  <2> QED BY <2>1, <2>2, <2>3
<1>3. Parts' = SubSeq(parts, 1, result'.textAt) \o <<Text>> \o SubSeq(parts, result'.textAt + 1, Len(parts))
  BY <1>2 DEF Parts
<1>4. parts \in Seq(PlaceIds) /\ <<Text>> \in Seq(PlaceIds)
  <2>1. Ids \subseteq PlaceIds
    BY DEF PlaceIds
  <2> QED BY <1>1, <2>1, SeqMonotonic, TextIsAPlace
<1> HIDE DEF parts, at
<1>5. CASE result.text = <<>>
  <2>1. result'.textAt = Len(parts) /\ Parts = parts
    BY <1>5 DEF Parts, parts
  <2>2. SubSeq(parts, 1, Len(parts)) = parts
    BY <1>4
  <2>3. SubSeq(parts, Len(parts) + 1, Len(parts)) = <<>>
    BY <1>1, <1>4
  <2>4. (parts \o <<Text>>) \o <<>> = parts \o <<Text>>
    <3>1. parts \o <<Text>> \in Seq(PlaceIds)
      BY <1>4
    <3> QED BY <3>1
  <2>5. Parts' = (parts \o <<Text>>) \o <<>>
    BY ONLY <1>3, <2>1, <2>2, <2>3
  <2>6. Parts' = Parts \o <<Text>>
    BY ONLY <2>1, <2>4, <2>5
  <2>7. result'.textAt \in Nat /\ result'.textAt <= Len(parts)
    BY ONLY <1>1, <2>1
  <2> QED BY ONLY <1>2, <1>5, <2>6, <2>7 DEF parts
<1>6. CASE result.text # <<>>
  <2>1. result'.textAt = at
    BY <1>6 DEF at
  <2>2. Parts = SubSeq(parts, 1, at) \o <<Text>> \o SubSeq(parts, at + 1, Len(parts))
    BY <1>6 DEF Parts, parts, at
  <2>3. Parts \in Seq(PlaceIds)
    <3>1. SubSeq(parts, 1, at) \in Seq(PlaceIds) /\ SubSeq(parts, at + 1, Len(parts)) \in Seq(PlaceIds)
      BY <1>1, <1>4
    <3>2. SubSeq(parts, 1, at) \o <<Text>> \in Seq(PlaceIds)
      BY <1>4, <3>1
    <3> QED BY <2>2, <3>1, <3>2
  <2>4. Parts \o <<>> = Parts
    BY <2>3
  <2> QED BY <1>1, <1>2, <1>3, <1>6, <2>1, <2>2, <2>4 DEF parts
<1> QED BY <1>5, <1>6

\* A part appended stands at the end.
LEMMA PartAppended ==
  ASSUME StreamTyped, NEW id \in Ids,
         result'.text = result.text, result'.parts = Append(result.parts, id), result'.textAt = result.textAt
  PROVE Parts' = Parts \o <<id>>
<1> DEFINE parts == result.parts
           at == result.textAt
           more == Append(parts, id)
<1>1. /\ parts \in Seq(Ids) /\ Len(parts) \in Nat /\ at \in Nat /\ at <= Len(parts)
  BY ResultFields
<1>2. parts \in Seq(PlaceIds) /\ <<Text>> \in Seq(PlaceIds) /\ <<id>> \in Seq(PlaceIds) /\ id \in PlaceIds
  <2>1. Ids \subseteq PlaceIds
    BY DEF PlaceIds
  <2>2. id \in PlaceIds
    BY <2>1
  <2> QED BY <1>1, <2>1, <2>2, SeqMonotonic, TextIsAPlace
<1> HIDE DEF parts, at
<1>3. more = parts \o <<id>>
  BY <1>2, AppendIsConcat
<1>4. CASE result.text = <<>>
  BY <1>3, <1>4 DEF Parts, parts
<1>5. CASE result.text # <<>>
  <2> DEFINE before == SubSeq(parts, 1, at)
             after == SubSeq(parts, at + 1, Len(parts))
  <2>1. Parts = before \o <<Text>> \o after
    BY <1>5 DEF Parts, parts, at
  <2>2. Parts' = SubSeq(more, 1, at) \o <<Text>> \o SubSeq(more, at + 1, Len(more))
    BY <1>5 DEF Parts, parts, at
  <2>3. before \in Seq(PlaceIds) /\ after \in Seq(PlaceIds) /\ Len(after) = Len(parts) - at
        /\ \A i \in 1..(Len(parts) - at) : after[i] = parts[at + i]
    BY <1>1, <1>2
  <2>4. more \in Seq(PlaceIds) /\ Len(more) = Len(parts) + 1 /\ more[Len(parts) + 1] = id
        /\ \A i \in 1..Len(parts) : more[i] = parts[i]
    BY <1>1, <1>2
  <2> HIDE DEF more
  <2>5. SubSeq(more, 1, at) = before
    <3> DEFINE left == SubSeq(more, 1, at)
    <3>1. left \in Seq(PlaceIds) /\ Len(left) = at /\ \A i \in 1..at : left[i] = more[i]
      BY <1>1, <2>4
    <3>2. Len(before) = at /\ \A i \in 1..at : before[i] = parts[i]
      BY <1>1, <1>2
    <3>3. \A i \in 1..at : left[i] = before[i]
      BY <1>1, <2>4, <3>1, <3>2
    <3> HIDE DEF left, before
    <3>4. left = before
      BY <2>3, <3>1, <3>2, <3>3, SeqEqual
    <3> QED BY <3>4 DEF left
  <2>6. SubSeq(more, at + 1, Len(more)) = after \o <<id>>
    <3> DEFINE left == SubSeq(more, at + 1, Len(more))
               right == after \o <<id>>
               n == Len(parts) - at
    <3>1. left \in Seq(PlaceIds) /\ Len(left) = n + 1 /\ \A i \in 1..(n + 1) : left[i] = more[at + i]
      BY <1>1, <2>4
    <3> HIDE DEF after
    <3>2. right \in Seq(PlaceIds) /\ Len(right) = n + 1 /\ right[n + 1] = id /\ \A i \in 1..n : right[i] = after[i]
      <4>1. n \in Nat /\ Len(after) = n
        BY ONLY <1>1, <2>3
      <4>2. right = Append(after, id)
        BY ONLY <1>2, <2>3, AppendIsConcat
      <4> HIDE DEF right, n
      <4> QED BY ONLY <1>2, <2>3, <4>1, <4>2
    <3>3. \A i \in 1..(n + 1) : left[i] = right[i]
      <4> SUFFICES ASSUME NEW i \in 1..(n + 1) PROVE left[i] = right[i]
        OBVIOUS
      <4>1. CASE i = n + 1
        BY <1>1, <2>4, <3>1, <3>2, <4>1
      <4>2. CASE i \in 1..n
        <5>1. at + i \in 1..Len(parts)
          BY <1>1, <4>2
        <5> QED BY <1>1, <2>3, <2>4, <3>1, <3>2, <4>2, <5>1
      <4>3. i = n + 1 \/ i \in 1..n
        BY <1>1
      <4> QED BY <4>1, <4>2, <4>3
    <3> HIDE DEF left, right, n
    <3>4. left = right
      BY <3>1, <3>2, <3>3, SeqEqual
    <3> QED BY <3>4 DEF left, right
  <2> HIDE DEF before, after
  <2>7. before \o <<Text>> \o (after \o <<id>>) = (before \o <<Text>> \o after) \o <<id>>
    <3>1. before \o <<Text>> \in Seq(PlaceIds)
      BY <1>2, <2>3
    <3> QED BY <1>2, <2>3, <3>1, ConcatAssociative
  <2> QED BY <2>1, <2>2, <2>5, <2>6, <2>7
<1> QED BY <1>4, <1>5

\* What appendText and the sinks do with a text.
LEMMA TextDelivered ==
  ASSUME StreamTyped, outcome = "reading", NEW value \in Seq(Pieces), value # <<>>, NEW saw \in BOOLEAN,
         Deliver(value, [Appended(value) EXCEPT !.sawTextDelta = saw]),
         server.unary \/ yielded = result.text, server'.unary = server.unary
  PROVE /\ StreamTyped'
        /\ result'.text = result.text \o value /\ result'.text # <<>>
        /\ result'.sawTextDelta = saw
        /\ Parts' = Parts \o (IF result.text = <<>> THEN <<Text>> ELSE <<>>)
        /\ result'.refusal = result.refusal /\ result'.sawRefusal = result.sawRefusal
        /\ result'.calls = result.calls /\ result'.deltas = result.deltas
        /\ server'.unary \/ yielded' = result'.text
        /\ seen' = seen /\ answer' = answer /\ outcome' \in {"reading", "stopped"}
<1>1. /\ result' = [Appended(value) EXCEPT !.sawTextDelta = saw]
      /\ yielded' = IF server.unary THEN yielded ELSE yielded \o value
      /\ seen' = seen /\ answer' = answer /\ outcome' \in {"reading", "stopped"}
  BY DEF Deliver
<1>2. result \in ResultRecord /\ yielded \in Seq(Pieces) /\ result.text \in Seq(Pieces)
  BY ResultFields DEF StreamTyped
<1>3. result.text \o value \in Seq(Pieces) /\ yielded' \in Seq(Pieces)
  BY <1>1, <1>2
<1>4. (IF result.text = <<>> THEN Len(result.parts) ELSE result.textAt) \in Nat
  BY ResultFields
<1>5. /\ result'.text = result.text \o value /\ result'.parts = result.parts
      /\ result'.textAt = IF result.text = <<>> THEN Len(result.parts) ELSE result.textAt
      /\ result'.sawTextDelta = saw
      /\ result'.refusal = result.refusal /\ result'.sawRefusal = result.sawRefusal
      /\ result'.calls = result.calls /\ result'.deltas = result.deltas
  BY <1>1, <1>2 DEF Appended, ResultRecord
<1>6. result' \in ResultRecord
  <2>1. PieceSeqs = Seq(Pieces)
    BY DEF PieceSeqs, Pieces
  <2> QED BY <1>1, <1>2, <1>3, <1>4, <2>1 DEF Appended, ResultRecord
<1>7. /\ result'.text # <<>> /\ Parts' = Parts \o (IF result.text = <<>> THEN <<Text>> ELSE <<>>)
      /\ result'.textAt <= Len(result.parts)
  BY <1>5, TextAppended
<1>8. StreamTyped'
  <2>1. PieceSeqs = Seq(Pieces)
    BY DEF PieceSeqs, Pieces
  <2> QED BY <1>1, <1>3, <1>5, <1>6, <1>7, <2>1 DEF StreamTyped
<1>9. server'.unary \/ yielded' = result'.text
  BY <1>1, <1>5
<1> QED BY <1>1, <1>5, <1>7, <1>8, <1>9

\* A delta is one piece more of its item.
LEMMA OnePieceMore ==
  ASSUME NEW item \in Item, item.pieces < MaxPieces
  PROVE LET grown == [item EXCEPT !.pieces = @ + 1]
            value == <<Piece(item.id, item.pieces + 1)>>
        IN /\ grown \in Item /\ grown.kind = item.kind /\ grown.pieces > 0
           /\ value \in Seq(Pieces) /\ value # <<>>
           /\ PiecesOf(grown) = PiecesOf(item) \o value
<1> DEFINE n == item.pieces
           id == item.id
           grown == [item EXCEPT !.pieces = @ + 1]
           value == <<Piece(id, n + 1)>>
           long == [i \in 1..(n + 1) |-> Piece(id, i)]
           short == [i \in 1..n |-> Piece(id, i)]
<1>1. n \in Nat /\ n + 1 \in 0..MaxPieces /\ n + 1 > 0 /\ id \in Ids
  BY ItemFields, Bounds
<1>2. grown \in Item /\ grown.kind = item.kind /\ grown.pieces = n + 1 /\ grown.id = id
  BY <1>1 DEF Item
<1>3. PiecesOf(grown) = long /\ PiecesOf(item) = short
  BY <1>2 DEF PiecesOf
<1>4. \A i \in 1..(n + 1) : Piece(id, i) \in Pieces
  <2>1. \A i \in 1..(n + 1) : i \in 1..MaxPieces
    BY <1>1, Bounds
  <2> QED BY <1>1, <2>1 DEF Piece, Pieces
<1> HIDE DEF id, n, grown
<1>5. long \in Seq(Pieces) /\ Len(long) = n + 1 /\ short \in Seq(Pieces) /\ Len(short) = n
  <2>1. long \in [1..(n + 1) -> Pieces] /\ short \in [1..n -> Pieces]
    BY <1>1, <1>4
  <2> QED BY <1>1, <2>1
<1>6. \A i \in 1..(n + 1) : long[i] = Append(short, Piece(id, n + 1))[i]
  <2> SUFFICES ASSUME NEW i \in 1..(n + 1) PROVE long[i] = Append(short, Piece(id, n + 1))[i]
    OBVIOUS
  <2>1. long[i] = Piece(id, i) /\ (i \in 1..n => short[i] = Piece(id, i))
    OBVIOUS
  <2> HIDE DEF long, short
  <2>2. i = n + 1 \/ i \in 1..n
    BY <1>1
  <2> QED BY <1>1, <1>4, <1>5, <2>1, <2>2
<1>7. Piece(id, n + 1) \in Pieces
  BY <1>1, <1>4
<1> HIDE DEF long, short
<1>8. Append(short, Piece(id, n + 1)) \in Seq(Pieces) /\ Len(Append(short, Piece(id, n + 1))) = n + 1
  BY <1>5, <1>7
<1>9. long = Append(short, Piece(id, n + 1))
  BY <1>5, <1>6, <1>8, SeqEqual
<1>10. Append(short, Piece(id, n + 1)) = short \o value
  BY <1>5, <1>7, AppendIsConcat
<1>11. value \in Seq(Pieces) /\ value # <<>>
  BY <1>7
<1> QED BY <1>1, <1>2, <1>3, <1>9, <1>10, <1>11 DEF id, n, grown

\* A delta of a text is the next piece of the item under way.
LEMMA TextDeltaKeeps ==
  ASSUME StreamInv, TextDelta
  PROVE StreamInv'
<1> DEFINE value == <<Piece(server.item.id, server.item.pieces + 1)>>
           grown == [server.item EXCEPT !.pieces = @ + 1]
<1>1. /\ outcome = "reading" /\ server.streams /\ server.item.kind = "message"
      /\ server.item.pieces < MaxPieces
      /\ server' = [server EXCEPT !.item.pieces = @ + 1]
      /\ IF Fits(value) THEN Deliver(value, [Appended(value) EXCEPT !.sawTextDelta = TRUE]) ELSE Fails
  BY DEF TextDelta, Reading
<1>2. /\ Served /\ StreamTyped /\ TextGathered /\ RefusalGathered /\ PartsGathered /\ SeenOnce
  BY <1>1 DEF StreamInv, Gathered
<1>3. "message" \in Kinds
  BY DEF Kinds
<1>4. /\ Served' /\ server'.streams = server.streams /\ server'.unary = server.unary /\ server'.done = server.done
      /\ server'.item = grown /\ grown \in Item
  BY <1>1, <1>2, <1>3, PieceComes
<1>5. server.item \in Item /\ server.done \in Seq(Item) /\ Len(server.done) \in Nat
  BY <1>1, <1>2, <1>3, ServerFields
<1>6. CASE ~Fits(value)
  <2>1. Fails
    BY <1>1, <1>6
  <2> QED BY <1>4, <1>5, <2>1, FailsKeeps
<1>7. CASE Fits(value)
  <2>1. /\ grown.kind = "message" /\ HasText(grown)
        /\ value \in Seq(Pieces) /\ value # <<>>
        /\ PiecesOf(grown) = PiecesOf(server.item) \o value
    BY <1>1, <1>5, OnePieceMore DEF HasText
  <2> HIDE DEF grown
  <2> HIDE DEF value
  <2>2. /\ StreamTyped'
        /\ result'.text = result.text \o value /\ result'.text # <<>>
        /\ result'.sawTextDelta = TRUE
        /\ Parts' = Parts \o (IF result.text = <<>> THEN <<Text>> ELSE <<>>)
        /\ result'.refusal = result.refusal /\ result'.sawRefusal = result.sawRefusal
        /\ result'.calls = result.calls /\ result'.deltas = result.deltas
        /\ server'.unary \/ yielded' = result'.text
        /\ seen' = seen /\ answer' = answer /\ outcome' \in {"reading", "stopped"}
    <3>1. Deliver(value, [Appended(value) EXCEPT !.sawTextDelta = TRUE])
      BY <1>1, <1>7 DEF value
    <3> QED BY <1>1, <1>2, <1>4, <2>1, <3>1, TextDelivered DEF TextGathered
  <2>3. SeenOnce'
    BY <1>2, <1>4, <1>5, <2>2, SeenStays, ResultFields
  <2>4. TextGathered'
    <3> DEFINE said == SaidIn(server.done, "message")
               under == PiecesOf(server.item)
    <3>1. result.text = said \o under /\ Underway("message")' = under \o value
      BY <1>1, <1>2, <1>4, <2>1 DEF TextGathered, Underway, SaidBy
    <3>2. said \in Seq(Pieces) /\ under \in Seq(Pieces)
      BY <1>5, GatheredIsTyped, ItemFields
    <3> HIDE DEF said, under
    <3>3. (said \o under) \o value = said \o (under \o value)
      BY <2>1, <3>2, ConcatAssociative
    <3>4. result'.text = said \o Underway("message")'
      BY <2>2, <3>1, <3>3
    <3>5. Begun'
      BY <1>1, <1>4, <2>1 DEF Begun
    <3> QED BY <1>1, <1>4, <2>2, <3>4, <3>5 DEF TextGathered, said
  <2>5. RefusalGathered'
    <3>1. Underway("refusal") = <<>> /\ Underway("refusal")' = <<>>
      BY <1>1, <1>4, <2>1 DEF Underway, SaidBy
    <3> QED BY <1>2, <1>4, <2>2, <3>1 DEF RefusalGathered
  <2>6. PartsGathered'
    <3> DEFINE order == OrderOf(server.done)
               first == FirstTextIn(server.done)
    <3>1. Begun'
      BY <1>1, <1>4, <2>1 DEF Begun
    <3>2. order \in Seq(PlaceIds)
      BY <1>5, GatheredIsTyped
    <3>3. Parts = order \o (IF Begun /\ first = 0 THEN <<Text>> ELSE <<>>)
      BY <1>2 DEF PartsGathered
    <3>4. Parts' = order \o (IF first = 0 THEN <<Text>> ELSE <<>>)
      <4>1. CASE result.text = <<>>
        <5>1. first = 0 /\ ~Begun
          BY <1>2, <4>1 DEF TextGathered
        <5>2. order \o <<>> = order
          BY <3>2
        <5> HIDE DEF order
        <5> QED BY <2>2, <3>3, <4>1, <5>1, <5>2
      <4>2. CASE result.text # <<>>
        <5>1. first # 0 \/ Begun
          BY <1>2, <4>2 DEF TextGathered
        <5>2. Parts = order \o (IF first = 0 THEN <<Text>> ELSE <<>>)
          BY <3>3, <5>1
        <5>3. Parts \in Seq(PlaceIds)
          <6>1. (IF first = 0 THEN <<Text>> ELSE <<>>) \in Seq(PlaceIds)
            BY TextIsAPlace
          <6> HIDE DEF order
          <6> QED BY <3>2, <5>2, <6>1
        <5>4. Parts \o <<>> = Parts
          BY <5>3
        <5> QED BY <2>2, <4>2, <5>2, <5>4
      <4> QED BY <4>1, <4>2
    <3> QED BY <1>2, <1>4, <2>2, <3>1, <3>4 DEF PartsGathered
  <2> QED BY <1>1, <1>4, <2>2, <2>3, <2>4, <2>5, <2>6 DEF StreamInv, Gathered, Answers
<1> QED BY <1>6, <1>7

\* A delta of a refusal is the next piece of the item under way.
LEMMA RefusalDeltaKeeps ==
  ASSUME StreamInv, RefusalDelta
  PROVE StreamInv'
<1> DEFINE piece == Piece(server.item.id, server.item.pieces + 1)
           grown == [server.item EXCEPT !.pieces = @ + 1]
<1>1. /\ outcome = "reading" /\ server.streams /\ server.item.kind = "refusal"
      /\ server.item.pieces < MaxPieces
      /\ server' = [server EXCEPT !.item.pieces = @ + 1]
      /\ result' = [result EXCEPT !.sawRefusal = TRUE, !.refusal = Append(@, piece)]
      /\ yielded' = yielded /\ seen' = seen /\ outcome' = outcome /\ answer' = answer
  BY DEF RefusalDelta, Reading
<1>2. /\ Served /\ StreamTyped /\ TextGathered /\ RefusalGathered /\ PartsGathered /\ SeenOnce
  BY <1>1 DEF StreamInv, Gathered
<1>3. "refusal" \in Kinds
  BY DEF Kinds
<1>4. /\ Served' /\ server'.streams = server.streams /\ server'.unary = server.unary /\ server'.done = server.done
      /\ server'.item = grown /\ grown \in Item
  BY <1>1, <1>2, <1>3, PieceComes
<1>5. server.item \in Item /\ server.done \in Seq(Item) /\ Len(server.done) \in Nat
  BY <1>1, <1>2, <1>3, ServerFields
<1>6. /\ grown.kind = "refusal"
      /\ <<piece>> \in Seq(Pieces) /\ <<piece>> # <<>> /\ piece \in Pieces
      /\ PiecesOf(grown) = PiecesOf(server.item) \o <<piece>>
  <2>1. /\ grown.kind = "refusal" /\ <<piece>> \in Seq(Pieces) /\ PiecesOf(grown) = PiecesOf(server.item) \o <<piece>>
    BY <1>1, <1>5, OnePieceMore
  <2> HIDE DEF piece
  <2>2. piece \in Pieces
    <3>1. <<piece>>[1] \in Pieces /\ <<piece>>[1] = piece
      BY <2>1
    <3> QED BY <3>1
  <2> QED BY <2>1, <2>2
<1> HIDE DEF piece, grown
<1>7. result \in ResultRecord /\ result.refusal \in Seq(Pieces) /\ PieceSeqs = Seq(Pieces)
  BY <1>2, ResultFields DEF StreamTyped, PieceSeqs, Pieces
<1>8. /\ result'.refusal = result.refusal \o <<piece>> /\ result'.refusal # <<>> /\ result'.sawRefusal = TRUE
      /\ result'.text = result.text /\ result'.sawTextDelta = result.sawTextDelta
      /\ result'.parts = result.parts /\ result'.textAt = result.textAt
      /\ result'.calls = result.calls /\ result'.deltas = result.deltas
      /\ result' \in ResultRecord
  <2>1. Append(result.refusal, piece) \in Seq(Pieces) /\ Append(result.refusal, piece) # <<>>
    BY <1>6, <1>7
  <2>2. Append(result.refusal, piece) = result.refusal \o <<piece>>
    BY <1>6, <1>7, AppendIsConcat
  <2>3. /\ result'.refusal = Append(result.refusal, piece) /\ result'.sawRefusal = TRUE
        /\ result'.text = result.text /\ result'.sawTextDelta = result.sawTextDelta
        /\ result'.parts = result.parts /\ result'.textAt = result.textAt
        /\ result'.calls = result.calls /\ result'.deltas = result.deltas
        /\ result' \in ResultRecord
    BY <1>1, <1>7, <2>1 DEF ResultRecord
  <2> QED BY <2>1, <2>2, <2>3
<1>9. /\ ~Begun /\ ~Begun' /\ Underway("message") = <<>> /\ Underway("message")' = <<>>
      /\ Underway("refusal") = PiecesOf(server.item) /\ Underway("refusal")' = PiecesOf(server.item) \o <<piece>>
  BY <1>1, <1>4, <1>6 DEF Begun, HasText, Underway, SaidBy
<1>10. StreamTyped'
  BY <1>1, <1>2, <1>8 DEF StreamTyped
<1>11. SeenOnce'
  BY <1>1, <1>2, <1>4, <1>5, <1>8, SeenStays, ResultFields
<1>12. TextGathered'
  BY <1>1, <1>2, <1>4, <1>8, <1>9 DEF TextGathered
<1>13. RefusalGathered'
  <2> DEFINE said == SaidIn(server.done, "refusal")
             under == PiecesOf(server.item)
  <2>1. said \in Seq(Pieces) /\ under \in Seq(Pieces)
    BY <1>5, GatheredIsTyped, ItemFields
  <2>2. result.refusal = said \o under
    BY <1>2, <1>9 DEF RefusalGathered
  <2> HIDE DEF said, under
  <2>3. (said \o under) \o <<piece>> = said \o (under \o <<piece>>)
    BY <1>6, <2>1, ConcatAssociative
  <2> QED BY <1>1, <1>4, <1>8, <1>9, <2>2, <2>3 DEF RefusalGathered, said, under
<1>14. PartsGathered'
  <2>1. Parts' = Parts
    BY <1>8 DEF Parts
  <2> QED BY <1>2, <1>4, <1>8, <1>9, <2>1 DEF PartsGathered
<1> QED BY <1>1, <1>4, <1>10, <1>11, <1>12, <1>13, <1>14 DEF StreamInv, Gathered, Answers

\* A new item has said nothing yet.
LEMMA ItemBeginsKeeps ==
  ASSUME StreamInv, NEW kind \in Kinds, ItemBegins(kind)
  PROVE StreamInv'
<1> DEFINE item == [kind |-> kind, id |-> Len(server.done) + 1, pieces |-> 0]
<1>1. /\ outcome = "reading" /\ server.item = NoItem /\ Len(server.done) < MaxItems
      /\ server' = [server EXCEPT !.item = item]
      /\ result' = result /\ yielded' = yielded /\ seen' = seen /\ outcome' = outcome /\ answer' = answer
  BY DEF ItemBegins, Reading
<1>2. /\ Served /\ StreamTyped /\ TextGathered /\ RefusalGathered /\ PartsGathered /\ SeenOnce
  BY <1>1 DEF StreamInv, Gathered
<1>3. server.done \in Seq(Item) /\ Len(server.done) \in Nat /\ server \in ServerRecord
  BY <1>2, ServerFields DEF Served
<1>4. item \in Item
  <2>1. Len(server.done) + 1 \in Ids /\ 0 \in 0..MaxPieces
    BY <1>1, <1>3, Bounds DEF Ids
  <2> QED BY <2>1 DEF Item
<1>5. PiecesOf(item) = <<>> /\ item.pieces = 0 /\ item.kind = kind /\ item.id = Len(server.done) + 1
  BY <1>4, ItemFields
<1> HIDE DEF item
<1>6. /\ server'.streams = server.streams /\ server'.unary = server.unary /\ server'.done = server.done
      /\ server'.item = item /\ server' \in ServerRecord
  BY <1>1, <1>3, <1>4 DEF ServerRecord
<1>7. Served'
  BY <1>5, <1>6 DEF Served
<1>8. /\ ~Begun /\ ~Begun'
      /\ \A k \in {"message", "refusal"} : Underway(k) = <<>> /\ Underway(k)' = <<>>
  <2>1. {"message", "refusal"} \subseteq Kinds
    BY DEF Kinds
  <2>2. ~Begun /\ \A k \in {"message", "refusal"} : Underway(k) = <<>>
    BY <1>1, <2>1, NothingUnderway
  <2>3. ~Begun' /\ \A k \in {"message", "refusal"} : Underway(k)' = <<>>
    BY <1>5, <1>6 DEF Begun, HasText, Underway, SaidBy
  <2> QED BY <2>2, <2>3
<1>9. StreamTyped'
  BY <1>1, <1>2 DEF StreamTyped
<1>10. SeenOnce'
  BY <1>1, <1>2, <1>3, <1>6, SeenStays, ResultFields
<1>11. TextGathered' /\ RefusalGathered'
  BY <1>1, <1>2, <1>6, <1>8 DEF TextGathered, RefusalGathered
<1>12. PartsGathered'
  <2>1. Parts' = Parts
    BY <1>1 DEF Parts
  <2> QED BY <1>1, <1>2, <1>6, <1>8, <2>1 DEF PartsGathered
<1> QED BY <1>1, <1>7, <1>9, <1>10, <1>11, <1>12 DEF StreamInv, Gathered, Answers

\* Deltas of arguments are of the call under way, which is not gathered yet.
LEMMA ToolDeltaKeeps ==
  ASSUME StreamInv, NEW by \in {"item", "call"}, ToolDelta(by)
  PROVE StreamInv'
<1> DEFINE grown == [server.item EXCEPT !.pieces = @ + 1]
           current == server.item.id
<1>1. /\ outcome = "reading" /\ server.item.kind = "call" /\ server.item.pieces < MaxPieces
      /\ server' = [server EXCEPT !.item.pieces = @ + 1]
      /\ result' = [result EXCEPT !.deltas = @ \cup {<<by, current>>}]
      /\ seen' = seen \cup {<<current, "delta">>}
      /\ yielded' = yielded /\ outcome' = outcome /\ answer' = answer
  BY DEF ToolDelta, Reading
<1>2. /\ Served /\ StreamTyped /\ TextGathered /\ RefusalGathered /\ PartsGathered /\ SeenOnce
  BY <1>1 DEF StreamInv, Gathered
<1>3. "call" \in Kinds
  BY DEF Kinds
<1>4. /\ Served' /\ server'.streams = server.streams /\ server'.unary = server.unary /\ server'.done = server.done
      /\ server'.item = grown /\ grown \in Item
  BY <1>1, <1>2, <1>3, PieceComes
<1>5. server.item \in Item /\ server.done \in Seq(Item) /\ Len(server.done) \in Nat
  BY <1>1, <1>2, <1>3, ServerFields
<1>6. current \in Ids /\ current = Len(server.done) + 1 /\ grown.kind = "call"
  <2>1. server.item # NoItem
    BY <1>1, <1>2, <1>3, ServerFields
  <2>2. current \in Ids /\ current = Len(server.done) + 1
    BY <1>2, <1>5, <2>1, ItemFields DEF Served
  <2> QED BY <1>1, <1>5, <2>2 DEF Item
<1> HIDE DEF current, grown
<1>7. /\ ~Begun /\ ~Begun'
      /\ \A k \in {"message", "refusal"} : Underway(k) = <<>> /\ Underway(k)' = <<>>
  BY <1>1, <1>4, <1>6 DEF Begun, HasText, Underway, SaidBy
<1>8. /\ result'.refusal = result.refusal /\ result'.sawRefusal = result.sawRefusal
      /\ result'.text = result.text /\ result'.sawTextDelta = result.sawTextDelta
      /\ result'.parts = result.parts /\ result'.textAt = result.textAt
      /\ result'.calls = result.calls
      /\ result'.deltas = result.deltas \cup {<<by, current>>}
      /\ result' \in ResultRecord
  <2>1. result \in ResultRecord /\ result.deltas \cup {<<by, current>>} \in SUBSET ({"item", "call"} \X Ids)
    BY <1>2, <1>6, ResultFields DEF StreamTyped
  <2> QED BY <1>1, <2>1 DEF ResultRecord
<1>9. StreamTyped'
  <2>1. seen' \subseteq Ids \X {"delta", "done"}
    BY <1>1, <1>2, <1>6 DEF StreamTyped
  <2> QED BY <1>1, <1>2, <1>8, <2>1 DEF StreamTyped
<1>10. SeenOnce'
  <2>1. \A id \in Ids : HasToolDelta(id)' <=> HasToolDelta(id) \/ id = current
    <3> TAKE id \in Ids
    <3> DEFINE names == {<<"call", id>>, <<"item", id>>}
    <3>1. HasToolDelta(id) <=> \E e \in names : e \in result.deltas
      BY DEF HasToolDelta
    <3>2. HasToolDelta(id)' <=> \E e \in names : e \in result.deltas \cup {<<by, current>>}
      BY <1>8 DEF HasToolDelta
    <3>3. <<by, current>> \in names <=> id = current
      OBVIOUS
    <3> QED BY <3>1, <3>2, <3>3
  <2>2. \A id \in Ids : <<id, "delta">> \in seen' <=> HasToolDelta(id)'
    BY <1>1, <1>2, <2>1 DEF SeenOnce
  <2>3. \A id \in Ids : <<id, "done">> \in seen' => id <= Len(server'.done)
    BY <1>1, <1>2, <1>4 DEF SeenOnce
  <2>4. \A i \in 1..Len(result.calls) : result.calls[i] \in Ids /\ result.calls[i] # current
    <3>1. result.calls \in Seq(Ids)
      BY <1>2, ResultFields
    <3>2. \A i \in 1..Len(result.calls) : result.calls[i] \in Ids /\ result.calls[i] <= Len(server.done)
      <4>1. \A i \in 1..Len(result.calls) : result.calls[i] \in Ids
        BY <3>1
      <4>2. \A i \in 1..Len(result.calls) : result.calls[i] <= Len(server.done)
        BY <1>2 DEF SeenOnce
      <4> QED BY <4>1, <4>2
    <3>3. \A id \in Ids : id \in Nat
      BY Bounds DEF Ids
    <3> QED BY <1>5, <1>6, <3>2, <3>3
  <2>5. \A i \in 1..Len(result'.calls) :
          /\ result'.calls[i] <= Len(server'.done)
          /\ <<result'.calls[i], "delta">> \in seen' <=> <<result'.calls[i], "done">> \notin seen'
    BY <1>1, <1>2, <1>4, <1>8, <2>4 DEF SeenOnce
  <2> QED BY <2>2, <2>3, <2>5 DEF SeenOnce
<1>11. TextGathered' /\ RefusalGathered'
  BY <1>1, <1>2, <1>4, <1>7, <1>8 DEF TextGathered, RefusalGathered
<1>12. PartsGathered'
  <2>1. Parts' = Parts
    BY <1>8 DEF Parts
  <2> QED BY <1>2, <1>4, <1>7, <1>8, <2>1 DEF PartsGathered
<1> QED BY <1>1, <1>4, <1>9, <1>10, <1>11, <1>12 DEF StreamInv, Gathered, Answers

\* What a finished item adds to what the finished items say; nothing is under
\* way then.
LEMMA ItemIsGathered ==
  ASSUME Served, NEW item \in Item, Finishes(item)
  PROVE /\ ~Begun' /\ \A kind \in Kinds : Underway(kind)' = <<>>
        /\ \A kind : /\ SaidIn(server.done, kind) \in Seq(Pieces)
                     /\ SaidIn(server'.done, kind) \in Seq(Pieces)
                     /\ SaidIn(server'.done, kind) = SaidIn(server.done, kind) \o SaidBy(item, kind)
        /\ CalledIn(server'.done) = CalledIn(server.done) \o CalledBy(item)
        /\ OrderOf(server.done) \in Seq(PlaceIds) /\ OrderOf(server'.done) \in Seq(PlaceIds)
        /\ OrderOf(server'.done) =
             OrderOf(server.done) \o (IF FirstTextIn(server.done) = 0 /\ HasText(item) THEN <<Text>> ELSE Kept(item))
        /\ FirstTextIn(server'.done) = 0 <=> FirstTextIn(server.done) = 0 /\ ~HasText(item)
<1>1. server'.done = Append(server.done, item) /\ server'.item = NoItem /\ server.done \in Seq(Item)
  BY ItemFinishes, ServerFields
<1>2. Append(server.done, item) \in Seq(Item) /\ Len(server.done) + 1 # 0
  BY <1>1
<1>3. ~Begun' /\ \A kind \in Kinds : Underway(kind)' = <<>>
  BY <1>1 DEF Underway, Begun, SaidBy, HasText, NoItem, Kinds
<1>4. /\ \A kind : SaidIn(server.done, kind) \in Seq(Pieces) /\ SaidIn(server'.done, kind) \in Seq(Pieces)
      /\ OrderOf(server.done) \in Seq(PlaceIds) /\ OrderOf(server'.done) \in Seq(PlaceIds)
  BY <1>1, <1>2, GatheredIsTyped
<1>5. FirstTextIn(server'.done) = 0 <=> FirstTextIn(server.done) = 0 /\ ~HasText(item)
  BY <1>1, <1>2, FirstTextGrows
<1> QED BY <1>1, <1>3, <1>4, <1>5, GatheredGrows

\* An item of another kind leaves the text as it is gathered.
LEMMA TextUndisturbed ==
  ASSUME Served, TextGathered, NEW item \in Item, Finishes(item), item.kind # "message",
         result'.text = result.text, result'.sawTextDelta = result.sawTextDelta, yielded' = yielded
  PROVE TextGathered'
<1>1. /\ server'.streams = server.streams /\ server'.unary = server.unary /\ server.item.kind = item.kind
  BY ItemFinishes
<1>2. SaidBy(item, "message") = <<>> /\ ~HasText(item) /\ ~Begun /\ Underway("message") = <<>>
  BY <1>1 DEF SaidBy, HasText, Begun, Underway
<1>3. "message" \in Kinds
  BY DEF Kinds
<1>4. /\ ~Begun' /\ Underway("message")' = <<>>
      /\ SaidIn(server.done, "message") \in Seq(Pieces)
      /\ SaidIn(server'.done, "message") = SaidIn(server.done, "message") \o <<>>
      /\ FirstTextIn(server'.done) = 0 <=> FirstTextIn(server.done) = 0
  BY <1>2, <1>3, ItemIsGathered
<1>5. SaidIn(server'.done, "message") = SaidIn(server.done, "message")
  BY <1>4
<1> QED BY <1>1, <1>2, <1>4, <1>5 DEF TextGathered

\* An item of another kind leaves the refusal as it is gathered.
LEMMA RefusalUndisturbed ==
  ASSUME Served, RefusalGathered, NEW item \in Item, Finishes(item), item.kind # "refusal",
         result'.refusal = result.refusal, result'.sawRefusal = result.sawRefusal
  PROVE RefusalGathered'
<1>1. server'.streams = server.streams /\ server.item.kind = item.kind
  BY ItemFinishes
<1>2. SaidBy(item, "refusal") = <<>> /\ Underway("refusal") = <<>>
  BY <1>1 DEF SaidBy, Underway
<1>3. "refusal" \in Kinds
  BY DEF Kinds
<1>4. /\ Underway("refusal")' = <<>>
      /\ SaidIn(server.done, "refusal") \in Seq(Pieces)
      /\ SaidIn(server'.done, "refusal") = SaidIn(server.done, "refusal") \o <<>>
  BY <1>2, <1>3, ItemIsGathered
<1>5. SaidIn(server'.done, "refusal") = SaidIn(server.done, "refusal")
  BY <1>4
<1> QED BY <1>1, <1>2, <1>4, <1>5 DEF RefusalGathered

\* An item that is no text takes the next place among the parts, if any.
LEMMA PlaceTaken ==
  ASSUME Served, PartsGathered, NEW item \in Item, Finishes(item), item.kind # "message",
         result'.calls = result.calls \o CalledBy(item), Parts' = Parts \o Kept(item)
  PROVE PartsGathered'
<1>1. server.item.kind = item.kind
  BY ItemFinishes
<1>2. ~HasText(item) /\ ~Begun
  BY <1>1 DEF HasText, Begun
<1>3. /\ ~Begun'
      /\ CalledIn(server'.done) = CalledIn(server.done) \o CalledBy(item)
      /\ OrderOf(server.done) \in Seq(PlaceIds) /\ OrderOf(server'.done) \in Seq(PlaceIds)
      /\ OrderOf(server'.done) = OrderOf(server.done) \o Kept(item)
  BY <1>2, ItemIsGathered
<1>4. OrderOf(server.done) \o <<>> = OrderOf(server.done) /\ OrderOf(server'.done) \o <<>> = OrderOf(server'.done)
  BY <1>3
<1> QED BY <1>2, <1>3, <1>4 DEF PartsGathered

\* The finished message was said in deltas, or comes whole.
LEMMA AddMessageItemKeeps ==
  ASSUME StreamInv, NEW item \in Item, AddMessageItem(item)
  PROVE StreamInv'
<1> DEFINE value == PiecesOf(item)
           said == SaidIn(server.done, "message")
           first == FirstTextIn(server.done)
           order == OrderOf(server.done)
<1>1. /\ item.kind = "message" /\ Finishes(item) /\ outcome = "reading"
      /\ IF result.sawTextDelta \/ value = <<>>
         THEN result' = result /\ yielded' = yielded /\ seen' = seen /\ outcome' = outcome /\ answer' = answer
         ELSE IF Fits(value) THEN Deliver(value, Appended(value)) ELSE Fails
  BY DEF AddMessageItem, AddCompletedText, Finishes, Reading
<1>2. /\ Served /\ StreamTyped /\ TextGathered /\ RefusalGathered /\ PartsGathered /\ SeenOnce
  BY <1>1 DEF StreamInv, Gathered
<1>3. "message" \in Kinds /\ server.done \in Seq(Item) /\ Len(server.done) \in Nat
  BY <1>2, ServerFields DEF Kinds
<1>4. /\ Served' /\ server'.streams = server.streams /\ server'.unary = server.unary
      /\ Len(server'.done) = Len(server.done) + 1 /\ Len(server'.done) \in Nat
      /\ Len(server'.done) >= Len(server.done)
      /\ server.item.kind = "message" /\ server.item \in Item
      /\ server.streams => SaidBy(server.item, "message") = value /\ (HasText(server.item) <=> HasText(item))
  <2>1. SaidBy(item, "message") = value
    BY <1>1 DEF SaidBy
  <2> HIDE DEF value
  <2> QED BY <1>1, <1>2, <1>3, <2>1, ItemFinishes
<1>5. /\ ~Begun' /\ Underway("message")' = <<>>
      /\ said \in Seq(Pieces) /\ said' \in Seq(Pieces) /\ said' = said \o value
      /\ CalledIn(server'.done) = CalledIn(server.done)
      /\ order \in Seq(PlaceIds) /\ order' \in Seq(PlaceIds)
      /\ order' = order \o (IF first = 0 /\ HasText(item) THEN <<Text>> ELSE <<>>)
      /\ first' = 0 <=> first = 0 /\ ~HasText(item)
  <2>1. SaidBy(item, "message") = value /\ CalledBy(item) = <<>> /\ Kept(item) = <<>>
    BY <1>1 DEF SaidBy, CalledBy, Kept
  <2>2. CalledIn(server.done) \in Seq(Ids)
    BY <1>3, GatheredIsTyped
  <2>3. CalledIn(server.done) \o <<>> = CalledIn(server.done)
    BY <2>2
  <2> HIDE DEF value
  <2> QED BY <1>1, <1>2, <1>3, <2>1, <2>3, ItemIsGathered
<1>6. value \in Seq(Pieces) /\ (HasText(item) <=> value # <<>>)
  <2>1. item.pieces \in Nat /\ value \in Seq(Pieces) /\ (value = <<>> <=> item.pieces = 0)
    BY ItemFields
  <2> QED BY <1>1, <2>1 DEF HasText
<1>7. /\ server.streams => Underway("message") = value /\ (Begun <=> HasText(item))
      /\ ~server.streams => Underway("message") = <<>> /\ ~Begun
  BY <1>4 DEF Underway, Begun
<1> HIDE DEF value, said, first, order
<1>8. /\ result.text = said \o Underway("message")
      /\ result.text = <<>> <=> first = 0 /\ ~Begun
      /\ result.sawTextDelta <=> server.streams /\ result.text # <<>>
      /\ server.unary \/ yielded = result.text
      /\ result.calls = CalledIn(server.done)
      /\ Parts = order \o (IF Begun /\ first = 0 THEN <<Text>> ELSE <<>>)
  BY <1>2 DEF TextGathered, PartsGathered, said, first, order
<1>9. CASE server.streams \/ value = <<>>
  <2>1. result.sawTextDelta \/ value = <<>>
    BY <1>6, <1>7, <1>8, <1>9
  <2>2. result' = result /\ yielded' = yielded /\ seen' = seen /\ outcome' = outcome /\ answer' = answer
    BY <1>1, <2>1
  <2>3. (server.streams => (Begun <=> HasText(item))) /\ (~server.streams => ~Begun /\ ~HasText(item))
    BY <1>6, <1>7, <1>9
  <2>4. result.text = said'
    <3>1. said \o <<>> = said
      BY <1>5
    <3> QED BY <1>5, <1>7, <1>8, <1>9, <3>1
  <2>5. said' \o <<>> = said' /\ order' \o <<>> = order'
    BY <1>5
  <2>6. TextGathered'
    BY <1>4, <1>5, <1>8, <2>2, <2>3, <2>4, <2>5 DEF TextGathered, said, first
  <2>7. PartsGathered'
    <3>1. Parts' = Parts
      BY <2>2 DEF Parts
    <3>2. Parts = order'
      BY <1>5, <1>8, <2>3
    <3> QED BY <1>5, <1>8, <2>2, <2>5, <3>1, <3>2 DEF PartsGathered, order
  <2>8. RefusalGathered'
    BY <1>1, <1>2, <2>2, RefusalUndisturbed
  <2>9. StreamTyped'
    BY <1>2, <2>2 DEF StreamTyped
  <2>10. SeenOnce'
    BY <1>2, <1>3, <1>4, <2>2, SeenStays, ResultFields
  <2> QED BY <1>1, <1>4, <2>2, <2>6, <2>7, <2>8, <2>9, <2>10 DEF StreamInv, Gathered, Answers
<1>10. CASE ~server.streams /\ value # <<>> /\ ~Fits(value)
  <2>1. Fails
    BY <1>1, <1>8, <1>10
  <2> QED BY <1>4, <2>1, FailsKeeps
<1>11. CASE ~server.streams /\ value # <<>> /\ Fits(value)
  <2>1. ~result.sawTextDelta /\ Deliver(value, Appended(value))
    BY <1>1, <1>8, <1>11
  <2>2. Appended(value) = [Appended(value) EXCEPT !.sawTextDelta = FALSE]
    <3>1. result \in ResultRecord /\ result.sawTextDelta = FALSE
      BY <1>2, <2>1, ResultFields DEF StreamTyped
    <3>2. Appended(value).sawTextDelta = FALSE
      BY <3>1 DEF Appended, ResultRecord
    <3>3. Appended(value) = [Appended(value) EXCEPT !.sawTextDelta = @]
      BY DEF Appended
    <3> QED BY <3>2, <3>3
  <2>3. /\ StreamTyped'
        /\ result'.text = result.text \o value /\ result'.text # <<>>
        /\ result'.sawTextDelta = FALSE
        /\ Parts' = Parts \o (IF result.text = <<>> THEN <<Text>> ELSE <<>>)
        /\ result'.refusal = result.refusal /\ result'.sawRefusal = result.sawRefusal
        /\ result'.calls = result.calls /\ result'.deltas = result.deltas
        /\ server'.unary \/ yielded' = result'.text
        /\ seen' = seen /\ answer' = answer /\ outcome' \in {"reading", "stopped"}
    <3>1. Deliver(value, [Appended(value) EXCEPT !.sawTextDelta = FALSE])
      BY <2>1, <2>2
    <3> QED BY <1>1, <1>2, <1>4, <1>6, <1>8, <1>11, <3>1, TextDelivered
  <2>4. SeenOnce'
    BY <1>2, <1>3, <1>4, <2>3, SeenStays, ResultFields
  <2>5. said \o <<>> = said /\ order \o <<>> = order /\ said' \o <<>> = said' /\ order' \o <<>> = order'
    BY <1>5
  <2>6. HasText(item)
    BY <1>6, <1>11
  <2>7. TextGathered'
    <3>1. result'.text = said'
      BY <1>5, <1>7, <1>8, <1>11, <2>3, <2>5
    <3> QED BY <1>4, <1>5, <1>11, <2>3, <2>5, <2>6, <3>1 DEF TextGathered, said, first
  <2>8. PartsGathered'
    <3>1. Parts = order /\ (result.text = <<>> <=> first = 0)
      BY <1>7, <1>8, <1>11, <2>5
    <3>2. Parts' = order'
      BY <1>5, <2>3, <2>6, <3>1
    <3> QED BY <1>5, <1>8, <2>3, <2>5, <3>2 DEF PartsGathered, order
  <2>9. RefusalGathered'
    BY <1>1, <1>2, <2>3, RefusalUndisturbed
  <2> QED BY <1>1, <1>4, <2>3, <2>4, <2>7, <2>8, <2>9 DEF StreamInv, Gathered, Answers
<1> QED BY <1>9, <1>10, <1>11

\* A refusal was said in deltas, or comes whole.
LEMMA AddRefusalItemKeeps ==
  ASSUME StreamInv, NEW item \in Item, AddRefusalItem(item)
  PROVE StreamInv'
<1> DEFINE value == PiecesOf(item)
           said == SaidIn(server.done, "refusal")
<1>1. /\ item.kind = "refusal" /\ Finishes(item) /\ outcome = "reading"
      /\ result' = IF result.sawRefusal THEN result ELSE [result EXCEPT !.refusal = @ \o value]
      /\ yielded' = yielded /\ seen' = seen /\ outcome' = outcome /\ answer' = answer
  BY DEF AddRefusalItem, Finishes, Reading
<1>2. /\ Served /\ StreamTyped /\ TextGathered /\ RefusalGathered /\ PartsGathered /\ SeenOnce
  BY <1>1 DEF StreamInv, Gathered
<1>3. "refusal" \in Kinds /\ server.done \in Seq(Item) /\ Len(server.done) \in Nat
  BY <1>2, ServerFields DEF Kinds
<1>4. SaidBy(item, "refusal") = value /\ CalledBy(item) = <<>> /\ Kept(item) = <<>>
  BY <1>1 DEF SaidBy, CalledBy, Kept
<1>5. value \in Seq(Pieces)
  BY ItemFields
<1> HIDE DEF value, said
<1>6. /\ Served' /\ server'.streams = server.streams /\ server'.unary = server.unary
      /\ Len(server'.done) = Len(server.done) + 1 /\ Len(server'.done) \in Nat
      /\ Len(server'.done) >= Len(server.done)
      /\ server.item.kind = "refusal" /\ server.item \in Item
      /\ server.streams => SaidBy(server.item, "refusal") = value
  BY <1>1, <1>2, <1>3, <1>4, ItemFinishes
<1>7. /\ Underway("refusal")' = <<>>
      /\ said \in Seq(Pieces) /\ said' \in Seq(Pieces) /\ said' = said \o value
  BY <1>1, <1>2, <1>3, <1>4, ItemIsGathered DEF said
<1>8. /\ server.streams => Underway("refusal") = value
      /\ ~server.streams => Underway("refusal") = <<>>
  BY <1>6 DEF Underway
<1>9. /\ result.refusal = said \o Underway("refusal")
      /\ result.sawRefusal <=> server.streams /\ result.refusal # <<>>
  BY <1>2 DEF RefusalGathered, said
<1>10. said \o <<>> = said /\ said' \o <<>> = said'
  BY <1>7
<1>11. result \in ResultRecord /\ PieceSeqs = Seq(Pieces) /\ result.refusal \in Seq(Pieces) /\ result.sawRefusal \in BOOLEAN
  BY <1>2, ResultFields DEF StreamTyped, PieceSeqs, Pieces
<1>12. /\ result' \in ResultRecord
       /\ result'.refusal = IF result.sawRefusal THEN result.refusal ELSE result.refusal \o value
       /\ result'.sawRefusal = result.sawRefusal
       /\ result'.text = result.text /\ result'.sawTextDelta = result.sawTextDelta
       /\ result'.parts = result.parts /\ result'.textAt = result.textAt
       /\ result'.calls = result.calls /\ result'.deltas = result.deltas
  <2>1. result.refusal \o value \in Seq(Pieces)
    BY <1>5, <1>11
  <2> QED BY <1>1, <1>11, <2>1 DEF ResultRecord
<1>13. RefusalGathered'
  <2>1. result'.refusal = said'
    <3>1. CASE server.streams /\ result.sawRefusal
      BY <1>7, <1>8, <1>9, <1>12, <3>1
    <3>2. CASE server.streams /\ ~result.sawRefusal
      <4>1. result.refusal = <<>> /\ said \o value = <<>>
        BY <1>8, <1>9, <3>2
      <4>2. value = <<>>
        <5>1. Len(said \o value) = Len(said) + Len(value) /\ Len(said) \in Nat /\ Len(value) \in Nat
          BY <1>5, <1>7
        <5>2. Len(value) = 0
          BY <4>1, <5>1
        <5> QED BY <1>5, <5>2
      <4>3. <<>> \o <<>> = <<>>
        OBVIOUS
      <4> QED BY <1>7, <1>12, <3>2, <4>1, <4>2, <4>3
    <3>3. CASE ~server.streams
      BY <1>7, <1>8, <1>9, <1>10, <1>12, <3>3
    <3> QED BY <3>1, <3>2, <3>3
  <2>2. result'.sawRefusal <=> server.streams /\ result'.refusal # <<>>
    <3>1. CASE result.sawRefusal
      BY <1>9, <1>12, <3>1
    <3>2. CASE ~result.sawRefusal /\ server.streams
      <4>1. result.refusal = <<>> /\ said \o value = <<>>
        BY <1>8, <1>9, <3>2
      <4> QED BY <1>7, <1>12, <2>1, <3>2, <4>1
    <3>3. CASE ~result.sawRefusal /\ ~server.streams
      BY <1>12, <3>3
    <3> QED BY <3>1, <3>2, <3>3
  <2> QED BY <1>6, <1>7, <1>10, <2>1, <2>2 DEF RefusalGathered, said
<1>14. StreamTyped'
  BY <1>1, <1>2, <1>12 DEF StreamTyped
<1>15. SeenOnce'
  BY <1>1, <1>2, <1>3, <1>6, <1>12, SeenStays, ResultFields
<1>16. TextGathered'
  BY <1>1, <1>2, <1>12, TextUndisturbed
<1>17. PartsGathered'
  <2>1. Parts' = Parts
    BY <1>12 DEF Parts
  <2>2. Parts \in Seq(PlaceIds) /\ result.calls \in Seq(Ids)
    <3>1. Parts = OrderOf(server.done) \o (IF Begun /\ FirstTextIn(server.done) = 0 THEN <<Text>> ELSE <<>>)
      BY <1>2 DEF PartsGathered
    <3>2. ~Begun
      BY <1>6 DEF Begun, HasText
    <3>3. OrderOf(server.done) \in Seq(PlaceIds)
      BY <1>3, GatheredIsTyped
    <3>4. Parts = OrderOf(server.done) \o <<>>
      BY <3>1, <3>2
    <3> QED BY <1>2, <3>3, <3>4, ResultFields
  <2>3. Parts' = Parts \o Kept(item) /\ result'.calls = result.calls \o CalledBy(item)
    BY <1>4, <1>12, <2>1, <2>2
  <2> QED BY <1>1, <1>2, <2>3, PlaceTaken
<1> QED BY <1>1, <1>6, <1>13, <1>14, <1>15, <1>16, <1>17 DEF StreamInv, Gathered, Answers

\* Reasoning takes the next place, if there is room.
LEMMA AddReasoningKeeps ==
  ASSUME StreamInv, NEW item \in Item, AddReasoning(item)
  PROVE StreamInv'
<1>1. /\ item.kind = "reasoning" /\ Finishes(item) /\ outcome = "reading"
      /\ IF HasRoom
         THEN /\ result' = [result EXCEPT !.parts = Append(@, item.id)]
              /\ yielded' = yielded /\ seen' = seen /\ outcome' = outcome /\ answer' = answer
         ELSE Fails
  BY DEF AddReasoning, Finishes, Reading
<1>2. /\ Served /\ StreamTyped /\ TextGathered /\ RefusalGathered /\ PartsGathered /\ SeenOnce
  BY <1>1 DEF StreamInv, Gathered
<1>3. Len(server.done) \in Nat /\ item.id \in Ids
  BY <1>2, ServerFields, ItemFields
<1>4. /\ Served' /\ server'.streams = server.streams /\ server'.unary = server.unary
      /\ Len(server'.done) \in Nat /\ Len(server'.done) >= Len(server.done)
  BY <1>1, <1>2, <1>3, ItemFinishes
<1>5. CASE ~HasRoom
  BY <1>1, <1>4, <1>5, FailsKeeps
<1>6. CASE HasRoom
  <2>1. result \in ResultRecord /\ result.parts \in Seq(Ids) /\ result.calls \in Seq(Ids)
        /\ result.textAt \in Nat /\ result.textAt <= Len(result.parts)
    BY <1>2, ResultFields DEF StreamTyped
  <2>2. Append(result.parts, item.id) \in Seq(Ids) /\ result.textAt <= Len(Append(result.parts, item.id))
    BY <1>3, <2>1
  <2>3. /\ result' \in ResultRecord
        /\ result'.refusal = result.refusal /\ result'.sawRefusal = result.sawRefusal
        /\ result'.text = result.text /\ result'.sawTextDelta = result.sawTextDelta
        /\ result'.parts = Append(result.parts, item.id) /\ result'.textAt = result.textAt
        /\ result'.calls = result.calls /\ result'.deltas = result.deltas
        /\ yielded' = yielded /\ seen' = seen /\ outcome' = outcome /\ answer' = answer
    BY <1>1, <1>6, <2>1, <2>2 DEF ResultRecord
  <2>4. StreamTyped'
    BY <1>2, <2>2, <2>3 DEF StreamTyped
  <2>5. SeenOnce'
    BY <1>2, <1>3, <1>4, <2>1, <2>3, SeenStays
  <2>6. TextGathered' /\ RefusalGathered'
    BY <1>1, <1>2, <2>3, TextUndisturbed, RefusalUndisturbed
  <2>7. PartsGathered'
    <3>1. Kept(item) = <<item.id>> /\ CalledBy(item) = <<>>
      BY <1>1 DEF Kept, CalledBy
    <3>2. Parts' = Parts \o <<item.id>>
      BY <1>2, <1>3, <2>3, PartAppended
    <3>3. result.calls \o <<>> = result.calls
      BY <2>1
    <3> QED BY <1>1, <1>2, <2>3, <3>1, <3>2, <3>3, PlaceTaken
  <2> QED BY <1>1, <1>4, <2>3, <2>4, <2>5, <2>6, <2>7 DEF StreamInv, Gathered, Answers
<1> QED BY <1>5, <1>6

\* A call takes the next place among the parts and the calls.  Its arguments
\* were seen in deltas, or are seen now.
LEMMA AddFunctionCallKeeps ==
  ASSUME StreamInv, NEW item \in Item, AddFunctionCall(item)
  PROVE StreamInv'
<1> DEFINE c == item.id
<1>1. /\ item.kind = "call" /\ Finishes(item) /\ outcome = "reading"
      /\ IF HasRoom
         THEN /\ result' = [result EXCEPT !.calls = Append(@, c), !.parts = Append(@, c)]
              /\ seen' = IF HasToolDelta(c) THEN seen ELSE seen \cup {<<c, "done">>}
              /\ yielded' = yielded /\ outcome' = outcome /\ answer' = answer
         ELSE Fails
  BY DEF AddFunctionCall, Finishes, Reading
<1>2. /\ Served /\ StreamTyped /\ TextGathered /\ RefusalGathered /\ PartsGathered /\ SeenOnce
  BY <1>1 DEF StreamInv, Gathered
<1>3. Len(server.done) \in Nat /\ c \in Ids /\ c \in Nat
  BY <1>2, ServerFields, ItemFields
<1>4. /\ Served' /\ server'.streams = server.streams /\ server'.unary = server.unary
      /\ Len(server'.done) = Len(server.done) + 1 /\ c = Len(server.done) + 1
      /\ Len(server'.done) \in Nat /\ Len(server'.done) >= Len(server.done)
  BY <1>1, <1>2, <1>3, ItemFinishes
<1>5. CASE ~HasRoom
  BY <1>1, <1>4, <1>5, FailsKeeps
<1>6. CASE HasRoom
  <2> HIDE DEF c
  <2>1. result \in ResultRecord /\ result.parts \in Seq(Ids) /\ result.calls \in Seq(Ids)
        /\ result.textAt \in Nat /\ result.textAt <= Len(result.parts)
    BY <1>2, ResultFields DEF StreamTyped
  <2>2. /\ Append(result.parts, c) \in Seq(Ids) /\ result.textAt <= Len(Append(result.parts, c))
        /\ Append(result.calls, c) \in Seq(Ids)
    BY <1>3, <2>1
  <2>3. /\ result' \in ResultRecord
        /\ result'.refusal = result.refusal /\ result'.sawRefusal = result.sawRefusal
        /\ result'.text = result.text /\ result'.sawTextDelta = result.sawTextDelta
        /\ result'.parts = Append(result.parts, c) /\ result'.textAt = result.textAt
        /\ result'.calls = Append(result.calls, c) /\ result'.deltas = result.deltas
        /\ yielded' = yielded /\ outcome' = outcome /\ answer' = answer
        /\ seen' = IF HasToolDelta(c) THEN seen ELSE seen \cup {<<c, "done">>}
    BY <1>1, <1>6, <2>1, <2>2 DEF ResultRecord
  <2>4. StreamTyped'
    <3>1. seen' \subseteq Ids \X {"delta", "done"}
      BY <1>2, <1>3, <2>3 DEF StreamTyped
    <3> QED BY <1>2, <2>2, <2>3, <3>1 DEF StreamTyped
  <2>5. SeenOnce'
    <3>1. \A id \in Ids : id \in Nat
      BY Bounds DEF Ids
    <3>2. /\ \A id \in Ids : <<id, "delta">> \in seen <=> HasToolDelta(id)
          /\ \A id \in Ids : <<id, "done">> \in seen => id <= Len(server.done)
      BY <1>2 DEF SeenOnce
    <3>3. /\ \A i \in 1..Len(result.calls) : result.calls[i] <= Len(server.done)
          /\ \A i \in 1..Len(result.calls) : <<result.calls[i], "delta">> \in seen <=> <<result.calls[i], "done">> \notin seen
      BY <1>2 DEF SeenOnce
    <3>4. \A id : HasToolDelta(id)' <=> HasToolDelta(id)
      BY <2>3 DEF HasToolDelta
    <3>5. /\ \A id : <<id, "delta">> \in seen' <=> <<id, "delta">> \in seen
          /\ \A id : <<id, "done">> \in seen' <=> <<id, "done">> \in seen \/ (id = c /\ ~HasToolDelta(c))
      BY <2>3
    <3>6. \A id \in Ids : <<id, "delta">> \in seen' <=> HasToolDelta(id)'
      BY <3>2, <3>4, <3>5
    <3>7. \A id \in Ids : <<id, "done">> \in seen' => id <= Len(server'.done)
      BY <1>3, <1>4, <3>1, <3>2, <3>5
    <3>8. <<c, "done">> \notin seen
      BY <1>3, <1>4, <3>2
    <3>9. <<c, "delta">> \in seen' <=> <<c, "done">> \notin seen'
      BY <1>3, <3>2, <3>5, <3>8
    <3>10. ASSUME NEW i \in 1..Len(result'.calls)
           PROVE /\ result'.calls[i] <= Len(server'.done)
                 /\ <<result'.calls[i], "delta">> \in seen' <=> <<result'.calls[i], "done">> \notin seen'
      <4> DEFINE n == Len(result.calls)
      <4>1. n \in Nat /\ Len(result'.calls) = n + 1 /\ result'.calls[n + 1] = c
            /\ \A j \in 1..n : result'.calls[j] = result.calls[j] /\ result.calls[j] \in Ids
        BY <1>3, <2>1, <2>3
      <4>2. CASE i = n + 1
        <5>1. result'.calls[i] = c
          BY <4>1, <4>2
        <5> QED BY <1>3, <1>4, <3>9, <5>1
      <4>3. CASE i \in 1..n
        <5> DEFINE d == result.calls[i]
        <5>1. result'.calls[i] = d /\ d \in Ids /\ d \in Nat
          BY <3>1, <4>1, <4>3
        <5>2. d <= Len(server.done) /\ (<<d, "delta">> \in seen <=> <<d, "done">> \notin seen)
          BY <3>3, <4>3
        <5> HIDE DEF d
        <5>3. d # c /\ d <= Len(server'.done)
          BY <1>3, <1>4, <5>1, <5>2
        <5> QED BY <3>5, <5>1, <5>2, <5>3
      <4>4. i = n + 1 \/ i \in 1..n
        BY <4>1
      <4> QED BY <4>2, <4>3, <4>4
    <3> QED BY <3>6, <3>7, <3>10 DEF SeenOnce
  <2>6. TextGathered' /\ RefusalGathered'
    BY <1>1, <1>2, <2>3, TextUndisturbed, RefusalUndisturbed
  <2>7. PartsGathered'
    <3>1. Kept(item) = <<c>> /\ CalledBy(item) = <<c>>
      BY <1>1 DEF Kept, CalledBy, c
    <3>2. Parts' = Parts \o <<c>>
      BY <1>2, <1>3, <2>3, PartAppended
    <3>3. Append(result.calls, c) = result.calls \o <<c>>
      BY <1>3, <2>1, AppendIsConcat
    <3> QED BY <1>1, <1>2, <2>3, <3>1, <3>2, <3>3, PlaceTaken
  <2> QED BY <1>1, <1>4, <2>3, <2>4, <2>5, <2>6, <2>7 DEF StreamInv, Gathered, Answers
<1> QED BY <1>5, <1>6

\* The response completed: what was gathered is the answer.
LEMMA CompletedKeeps ==
  ASSUME StreamInv, Completed
  PROVE StreamInv'
<1>1. /\ outcome = "reading" /\ server.item = NoItem
      /\ server' = [server EXCEPT !.completed = TRUE]
      /\ result' = result /\ yielded' = yielded /\ seen' = seen
      /\ \/ outcome' = "failed" /\ answer' = answer
         \/ /\ outcome' = "answered"
            /\ answer' = [text |-> result.text, parts |-> Parts, calls |-> result.calls, refusal |-> result.refusal]
  BY DEF Completed, Reading
<1>2. /\ Served /\ StreamTyped /\ TextGathered /\ RefusalGathered /\ PartsGathered /\ SeenOnce
  BY <1>1 DEF StreamInv, Gathered
<1>3. server \in ServerRecord /\ server.done \in Seq(Item) /\ Len(server.done) \in Nat
  BY <1>2, ServerFields DEF Served
<1>4. /\ server'.streams = server.streams /\ server'.unary = server.unary /\ server'.done = server.done
      /\ server'.item = NoItem /\ server'.completed = TRUE /\ server' \in ServerRecord
  BY <1>1, <1>3 DEF ServerRecord
<1>5. Served' /\ StreamTyped'
  BY <1>1, <1>2, <1>4 DEF Served, StreamTyped
<1>6. SeenOnce'
  BY <1>1, <1>2, <1>3, <1>4, SeenStays, ResultFields
<1>7. Gathered'
  BY <1>1 DEF Gathered
<1>8. Answers'
  <2>1. ~Begun /\ Underway("message") = <<>> /\ Underway("refusal") = <<>>
    BY <1>1, NothingUnderway DEF Kinds
  <2>2. /\ result.text = SaidIn(server.done, "message") \o <<>>
        /\ result.refusal = SaidIn(server.done, "refusal") \o <<>>
        /\ result.calls = CalledIn(server.done)
        /\ Parts = OrderOf(server.done) \o <<>>
        /\ server.unary \/ yielded = result.text
    BY <1>2, <2>1 DEF TextGathered, RefusalGathered, PartsGathered
  <2>3. /\ SaidIn(server.done, "message") \in Seq(Pieces) /\ SaidIn(server.done, "refusal") \in Seq(Pieces)
        /\ OrderOf(server.done) \in Seq(PlaceIds)
    BY <1>3, GatheredIsTyped
  <2>4. /\ result.text = SaidIn(server.done, "message")
        /\ result.refusal = SaidIn(server.done, "refusal")
        /\ Parts = OrderOf(server.done)
    BY <2>2, <2>3
  <2> QED BY <1>1, <1>4, <2>2, <2>4 DEF Answers
<1> QED BY <1>5, <1>6, <1>7, <1>8 DEF StreamInv

\* Whatever goes wrong with the stream, there is no answer.
LEMMA StreamFailsKeeps ==
  ASSUME StreamInv, StreamFails
  PROVE StreamInv'
<1>1. Fails /\ server' = server
  BY DEF StreamFails
<1>2. Served /\ Served'
  BY <1>1 DEF StreamInv, Served
<1>3. Len(server'.done) >= Len(server.done)
  BY <1>1, <1>2, ServerFields
<1> QED BY <1>1, <1>2, <1>3, FailsKeeps

\* Each step of the stream keeps the invariant.
LEMMA StreamStepKeeps ==
  ASSUME StreamInv, Next
  PROVE StreamInv'
<1>1. CASE TextDelta
  BY <1>1, TextDeltaKeeps
<1>2. CASE RefusalDelta
  BY <1>2, RefusalDeltaKeeps
<1>3. CASE \E kind \in Kinds : ItemBegins(kind)
  BY <1>3, ItemBeginsKeeps
<1>4. CASE \E by \in {"item", "call"} : ToolDelta(by)
  BY <1>4, ToolDeltaKeeps
<1>5. CASE \E kind \in Kinds, id \in 1..MaxItems, n \in 0..MaxPieces :
             LET item == [kind |-> kind, id |-> id, pieces |-> n]
             IN AddMessageItem(item) \/ AddRefusalItem(item) \/ AddReasoning(item) \/ AddFunctionCall(item)
  <2>1. PICK kind \in Kinds, id \in 1..MaxItems, n \in 0..MaxPieces :
             LET item == [kind |-> kind, id |-> id, pieces |-> n]
             IN AddMessageItem(item) \/ AddRefusalItem(item) \/ AddReasoning(item) \/ AddFunctionCall(item)
    BY <1>5
  <2> DEFINE item == [kind |-> kind, id |-> id, pieces |-> n]
  <2>2. item \in Item
    BY DEF Item, Ids
  <2>3. AddMessageItem(item) \/ AddRefusalItem(item) \/ AddReasoning(item) \/ AddFunctionCall(item)
    BY <2>1
  <2> HIDE DEF item
  <2> QED BY <2>2, <2>3, AddMessageItemKeeps, AddRefusalItemKeeps, AddReasoningKeeps, AddFunctionCallKeeps
<1>6. CASE Completed
  BY <1>6, CompletedKeeps
<1>7. CASE StreamFails
  BY <1>7, StreamFailsKeeps
<1> QED BY <1>1, <1>2, <1>3, <1>4, <1>5, <1>6, <1>7 DEF Next, HandleEvent

\* A new result has nothing.
LEMMA NewResultIsTyped == NewResult \in ResultRecord /\ NewResult.calls = <<>> /\ NewResult.textAt <= Len(NewResult.parts)
<1>1. <<>> \in PieceSeqs /\ <<>> \in Seq(Ids)
  BY DEF PieceSeqs
<1> QED BY <1>1 DEF NewResult, ResultRecord

\* Before the stream is read nothing was said and nothing gathered.
LEMMA StreamInvBegins ==
  ASSUME Init
  PROVE StreamInv
<1>1. PICK streams \in BOOLEAN, unary \in BOOLEAN :
        server = [streams |-> streams, unary |-> unary, done |-> <<>>, item |-> NoItem, completed |-> FALSE]
  BY DEF Init
<1>2. result = NewResult /\ yielded = <<>> /\ seen = {} /\ outcome = "reading"
  BY DEF Init
<1>3. /\ server.done = <<>> /\ <<>> \in Seq(Item) /\ server.item = NoItem
      /\ <<>> \in Seq(Ids) /\ <<>> \in Seq(PlaceIds) /\ <<>> \in Seq(Pieces) /\ PieceSeqs = Seq(Pieces)
  BY <1>1 DEF PieceSeqs, Pieces
<1>4. Served
  BY <1>1, <1>3 DEF Served, ServerRecord
<1>5. StreamTyped
  BY <1>2, <1>3, NewResultIsTyped DEF StreamTyped
<1>6. ~Begun /\ Underway("message") = <<>> /\ Underway("refusal") = <<>>
  BY <1>3, NothingUnderway DEF Kinds
<1>7. /\ SaidIn(server.done, "message") = <<>> /\ SaidIn(server.done, "refusal") = <<>>
      /\ CalledIn(server.done) = <<>> /\ OrderOf(server.done) = <<>> /\ FirstTextIn(server.done) = 0
  BY <1>3, GatheredIsTyped
<1>8. <<>> \o <<>> = <<>>
  OBVIOUS
<1>9. /\ result.text = <<>> /\ result.refusal = <<>> /\ result.calls = <<>> /\ result.parts = <<>>
      /\ result.sawTextDelta = FALSE /\ result.sawRefusal = FALSE /\ result.deltas = {}
  BY <1>2 DEF NewResult
<1>10. TextGathered /\ RefusalGathered
  BY <1>2, <1>6, <1>7, <1>8, <1>9 DEF TextGathered, RefusalGathered
<1>11. PartsGathered
  <2>1. Parts = <<>>
    BY <1>9 DEF Parts
  <2> QED BY <1>6, <1>7, <1>8, <1>9, <2>1 DEF PartsGathered
<1>12. SeenOnce
  BY <1>2, <1>9 DEF SeenOnce, HasToolDelta
<1>13. Answers
  BY <1>2 DEF Answers
<1> QED BY <1>4, <1>5, <1>10, <1>11, <1>12, <1>13 DEF StreamInv, Gathered

\* When the caller keeps the answer, the result of the stream is gone.
LEMMA KeepAnswerKeeps ==
  ASSUME StreamInv, NEW role, NEW state, NEW calls, KeepAnswer(role, state, calls)
  PROVE StreamInv'
<1>1. /\ outcome = "answered" /\ server.unary
      /\ server' = [server EXCEPT !.streams = FALSE]
      /\ result' = NewResult /\ seen' = {}
      /\ yielded' = yielded /\ outcome' = outcome /\ answer' = answer
  BY DEF KeepAnswer
<1>2. server \in ServerRecord /\ Served /\ StreamTyped /\ Answers
  BY DEF StreamInv, Served
<1>3. /\ server'.unary = server.unary /\ server'.done = server.done /\ server'.item = server.item
      /\ server'.completed = server.completed /\ server' \in ServerRecord
  BY <1>1, <1>2 DEF ServerRecord
<1>4. Served'
  BY <1>2, <1>3 DEF Served
<1>5. StreamTyped'
  BY <1>1, <1>2, NewResultIsTyped DEF StreamTyped
<1>6. Gathered'
  BY <1>1 DEF Gathered
<1>7. SeenOnce'
  <2>1. result'.calls = <<>> /\ result'.deltas = {}
    BY <1>1 DEF NewResult
  <2> QED BY <1>1, <2>1 DEF SeenOnce, HasToolDelta
<1>8. Answers'
  BY <1>1, <1>2, <1>3 DEF Answers
<1> QED BY <1>4, <1>5, <1>6, <1>7, <1>8 DEF StreamInv

\* A step that leaves the stream alone keeps what is known of it.
LEMMA StreamAlone ==
  ASSUME StreamInv, UNCHANGED vars
  PROVE StreamInv'
BY DEF StreamInv, Served, StreamTyped, Gathered, TextGathered, RefusalGathered, PartsGathered, SeenOnce,
       HasToolDelta, Answers, Underway, Begun, Parts, vars

-----------------------------------------------------------------------------
(* The stream, and the conversation around it *)

\* While a stream is read, each list of streamResult is what the finished items
\* hold of it and what the deltas of the item under way said; the sinks have
\* had the arguments of each gathered call in one way; and an answer is the
\* whole of a completed response (stream.go:105).
THEOREM StreamInvHolds == TurnsSpec => []StreamInv
<1>1. TurnsInit => StreamInv
  BY StreamInvBegins DEF TurnsInit
<1>2. StreamInv /\ [TurnsNext]_turnVars => StreamInv'
  <2> SUFFICES ASSUME StreamInv, [TurnsNext]_turnVars PROVE StreamInv'
    OBVIOUS
  <2>1. CASE Streams
    BY <2>1, StreamStepKeeps DEF Streams
  <2>2. CASE CallerNext
    <3>1. CASE \E role \in {"assistant", "user"}, state \in BOOLEAN, calls \in {"all", "edited", "none"} :
                 KeepAnswer(role, state, calls)
      BY <3>1, KeepAnswerKeeps
    <3>2. CASE \E message : FollowUp(message)
      <4>1. UNCHANGED vars
        BY <3>2 DEF FollowUp
      <4> QED BY <4>1, StreamAlone
    <3>3. CASE NextRequest
      <4>1. UNCHANGED vars
        BY <3>3 DEF NextRequest
      <4> QED BY <4>1, StreamAlone
    <3> QED BY <2>2, <3>1, <3>2, <3>3 DEF CallerNext
  <2>3. CASE UNCHANGED turnVars
    <3>1. UNCHANGED vars
      BY <2>3 DEF turnVars
    <3> QED BY <3>1, StreamAlone
  <2> QED BY <2>1, <2>2, <2>3 DEF TurnsNext
<1> QED BY <1>1, <1>2, PTL DEF TurnsSpec

\* An answer is the complete response: every piece of text and of a refusal is
\* in it once and in order although finished items repeat the deltas, every
\* call is there, the reasoning and the calls keep their place around the text,
\* and InvokeStream gave its consumer the same text (consumeStream,
\* stream.go:105; README.md:102).
THEOREM AnswersAreResponses == TurnsSpec => []AnswerIsTheResponse
<1>1. ASSUME StreamInv PROVE AnswerIsTheResponse
  <2>1. Served /\ StreamTyped /\ Answers
    BY <1>1 DEF StreamInv
  <2>2. TypeOK
    <3>1. server \in [streams : BOOLEAN, unary : BOOLEAN, done : Seq(Item), item : Item \cup {NoItem}, completed : BOOLEAN]
      BY <2>1 DEF Served, ServerRecord
    <3>2. PieceSeqs = Seq(Pieces)
      BY DEF PieceSeqs, Pieces
    <3>3. result.textAt \in 0..Len(result.parts)
      BY <2>1, ResultFields
    <3> QED BY <2>1, <3>1, <3>2, <3>3, ResultFields DEF TypeOK, StreamTyped
  <2> QED BY <2>1, <2>2, Unfolded DEF AnswerIsTheResponse, Answers
<1> QED BY <1>1, StreamInvHolds, PTL

\* The sinks get the arguments of a call once: in deltas or, when there were
\* none, from the finished item, whichever identifier the deltas carried
\* (addFunctionCall, stream.go:266-302).
THEOREM CallsAreSeenOnce == TurnsSpec => []ArgumentsAreSeenOnce
<1>1. ASSUME StreamInv PROVE ArgumentsAreSeenOnce
  <2> SUFFICES ASSUME NEW i \in DOMAIN result.calls
               PROVE Cardinality({e \in seen : e[1] = result.calls[i]}) = 1
    BY DEF ArgumentsAreSeenOnce
  <2> DEFINE c == result.calls[i]
  <2>1. SeenOnce /\ StreamTyped
    BY <1>1 DEF StreamInv
  <2>2. i \in 1..Len(result.calls)
    BY <2>1, ResultFields
  <2>3. <<c, "delta">> \in seen <=> <<c, "done">> \notin seen
    BY <2>1, <2>2 DEF SeenOnce
  <2>4. seen \subseteq Ids \X {"delta", "done"}
    BY <2>1 DEF StreamTyped
  <2> HIDE DEF c
  <2> DEFINE told == {e \in seen : e[1] = c}
  <2>5. \A e \in told : e = <<c, "delta">> \/ e = <<c, "done">>
    BY <2>4
  <2>6. <<c, "delta">>[1] = c /\ <<c, "done">>[1] = c /\ <<c, "delta">> # <<c, "done">>
    OBVIOUS
  <2>7. \E e : told = {e}
    <3>1. CASE <<c, "delta">> \in seen
      <4>1. told = {<<c, "delta">>}
        BY <2>3, <2>5, <2>6, <3>1
      <4> QED BY <4>1
    <3>2. CASE <<c, "delta">> \notin seen
      <4>1. told = {<<c, "done">>}
        BY <2>3, <2>5, <2>6, <3>2
      <4> QED BY <4>1
    <3> QED BY <3>1, <3>2
  <2> HIDE DEF told
  <2>8. Cardinality(told) = 1
    BY <2>7, FS_Singleton
  <2> QED BY <2>8 DEF told, c
<1> QED BY <1>1, StreamInvHolds, PTL
=============================================================================
