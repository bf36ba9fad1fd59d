------------------------- MODULE CodexCallsProofs -------------------------
(***************************************************************************)
(* Concurrent calls that share a Source: types, the mutual exclusion that  *)
(* Source.mu gives, that the Store is never behind, that a waiting caller  *)
(* is refused only when the valid refresh token is lost, and the bounds of *)
(* a call.                                                                 *)
(***************************************************************************)
EXTENDS CodexCalls, TLAPS

\* The states of a Token or Refresh call that holds Source.mu.
Holding == {"load", "post", "sent", "answered", "refused", "save"}

\* A call and the Source agree: a call that is not waiting for tokens is not in
\* the Source, and no call begins before the login is done.
CallsMatch ==
  \A c \in Callers :
    /\ call[c].at \notin {"token", "refresh"} => source[c].at = "idle"
    /\ login.at # "done" => call[c].at = "new"
    /\ call[c].at = "new" => call[c] = NewCall

\* The mutex is held by the caller that is between Lock and its return.
Mutex == \A c \in Callers : (mu = c) <=> (source[c].at \in Holding)

\* A request somebody waits for carries the refresh token its caller loaded.
Wire ==
  \A w \in wire : w.by # None => /\ source[w.by].at = "sent"
                                 /\ w.refresh = source[w.by].tokens.refresh

AtMost(a, b) == a.access <= b.access /\ a.refresh <= b.refresh

\* Part by part, what an answer changes is no older than what the Store holds.
NoOlder(answer, tokens) ==
  /\ answer.access = 0 \/ answer.access >= tokens.access
  /\ answer.refresh = 0 \/ answer.refresh >= tokens.refresh

\* The Store holds what the issuer gave out; what a caller loaded stays what the
\* Store holds until it saves; its answer, and then the merge, is no older.
Kept ==
  /\ store.access <= issuer.last /\ store.refresh <= issuer.last
  /\ \A c \in Callers :
       /\ source[c].at \in {"post", "sent", "answered", "refused"} => source[c].tokens = store
       /\ source[c].at = "answered" =>
            /\ NoOlder(source[c].answer, store)
            /\ source[c].answer.access <= issuer.last /\ source[c].answer.refresh <= issuer.last
       /\ source[c].at = "save" =>
            /\ AtMost(store, source[c].tokens)
            /\ source[c].tokens.access <= issuer.last /\ source[c].tokens.refresh <= issuer.last
       /\ source[c].at = "returned" => AtMost(source[c].tokens, store)
       /\ call[c].token <= store.access

\* A call counts one rotation from refreshAttempt on; it asks for tokens only
\* when an attempt, or the rotation, has a request left; its responses are
\* closed while it does.
CallBounds ==
  \A c \in Callers :
    /\ call[c].rotations = IF call[c].refreshed \/ call[c].at = "refresh" THEN 1 ELSE 0
    /\ call[c].at = "refresh" => ~call[c].refreshed
    /\ call[c].sends <= call[c].attempt + call[c].rotations
    /\ call[c].at \in {"token", "refresh"} => call[c].sends < call[c].attempt + call[c].rotations
    /\ call[c].at = "backoff" => call[c].attempt < MaxAttempts
    /\ open[c] <= 1
    /\ call[c].at \notin {"decide", "stream"} => open[c] = 0

Types == TokenTypeOK /\ CallTypeOK

IInv == Types /\ CallsMatch /\ Mutex /\ Wire /\ Kept /\ CallBounds

-----------------------------------------------------------------------------

\* The process starts without credentials and without calls.
LEMMA InitIInv == Init => IInv
<1> SUFFICES ASSUME Init PROVE IInv
  OBVIOUS
<1> USE TokenSourceAssumption, CodexCallsAssumption
    DEF Init, TokenInit, NewCall, IdleCall, NoTokens, NewLogin, NoResponse, None
<1>1. Types
  BY DEF Types, TokenTypeOK, CallTypeOK, Tokens, CallStates, SourceStates, LoginStates, Statuses
<1>2. CallsMatch /\ Mutex /\ Wire
  BY DEF CallsMatch, Mutex, Wire, Holding
<1>3. Kept /\ CallBounds
  BY DEF Kept, CallBounds, AtMost
<1> QED
  BY <1>1, <1>2, <1>3 DEF IInv

-----------------------------------------------------------------------------
(* Steps of the Source *)

\* What a step of the Source leaves of caller c: where it is, and its tokens.
Moved(c, at, tokens, answer) ==
  source' = [source EXCEPT ![c] = [at |-> at, op |-> source[c].op, tokens |-> tokens, answer |-> answer]]

\* The steps of the Source in terms of Moved.
LEMMA StepsMove ==
  ASSUME TokenTypeOK, NEW c \in Callers
  PROVE  /\ \A at \in SourceStates : SourceMoves(c, at) => Moved(c, at, source[c].tokens, source[c].answer)
         /\ SourceFails(c) => mu' = None /\ Moved(c, "failed", NoTokens, NoTokens)
         /\ \A tokens \in Tokens : Returns(c, tokens) => mu' = None /\ Moved(c, "returned", tokens, NoTokens)
<1> DEFINE s == source[c]
<1>1. s = [at |-> s.at, op |-> s.op, tokens |-> s.tokens, answer |-> s.answer]
  BY DEF TokenTypeOK
<1>2. \A at \in SourceStates : SourceMoves(c, at) => Moved(c, at, s.tokens, s.answer)
  BY <1>1 DEF SourceMoves, Moved, TokenTypeOK
<1>3. SourceFails(c) => mu' = None /\ Moved(c, "failed", NoTokens, NoTokens)
  BY <1>1 DEF SourceFails, Moved, TokenTypeOK
<1>4. \A tokens \in Tokens : Returns(c, tokens) => mu' = None /\ Moved(c, "returned", tokens, NoTokens)
  BY <1>1 DEF Returns, Moved, TokenTypeOK
<1> QED
  BY <1>2, <1>3, <1>4

\* A step of the Source keeps the invariant when the caller holds the mutex
\* before or takes it, when it keeps the Store no older, and when what it leaves
\* of the caller fits its new state.
LEMMA MovedKeeps ==
  ASSUME IInv, OfTokens, NEW c \in Callers,
         NEW at \in SourceStates \ {"idle"}, NEW tokens \in Tokens, NEW answer \in Tokens,
         Moved(c, at, tokens, answer),
         call[c].at \in {"token", "refresh"},
         mu \in {None, c}, mu' = IF at \in Holding THEN c ELSE None,
         UNCHANGED <<over, issuer, due, login>>,
         store' \in Tokens, AtMost(store, store'),
         store'.access <= issuer.last, store'.refresh <= issuer.last,
         wire' \subseteq [by : Callers \cup {None}, refresh : 0..MaxTokens],
         \A w \in wire' : w.by # None => \/ w.by # c /\ w \in wire
                                         \/ w.by = c /\ at = "sent" /\ w.refresh = tokens.refresh,
         at \in {"post", "sent", "answered", "refused"} => tokens = store',
         at = "answered" => /\ NoOlder(answer, store')
                            /\ answer.access <= issuer.last /\ answer.refresh <= issuer.last,
         at = "save" => /\ AtMost(store', tokens)
                        /\ tokens.access <= issuer.last /\ tokens.refresh <= issuer.last,
         at = "returned" => AtMost(tokens, store')
  PROVE  IInv'
<1> USE TokenSourceAssumption, CodexCallsAssumption DEF IInv, Types
<1>1. /\ source'[c] = [at |-> at, op |-> source[c].op, tokens |-> tokens, answer |-> answer]
      /\ \A d \in Callers : d # c => source'[d] = source[d]
      /\ DOMAIN source' = Callers
  BY DEF Moved, TokenTypeOK
<1>2. \A d \in Callers : d # c => source[d].at \notin Holding
  BY DEF Mutex
<1>3. TokenTypeOK'
  <2>1. source[c].op \in {"token", "refresh"}
    BY DEF TokenTypeOK
  <2>2. source' \in [Callers -> [at : SourceStates, op : {"token", "refresh"}, tokens : Tokens, answer : Tokens]]
    BY <2>1 DEF Moved, TokenTypeOK
  <2> QED
    BY <2>2 DEF TokenTypeOK
<1>4. CallTypeOK'
  BY DEF CallTypeOK, OfTokens
<1>5. CallsMatch'
  BY <1>1 DEF CallsMatch, OfTokens
<1>6. Mutex'
  BY <1>1, <1>2 DEF Mutex
<1>7. Wire'
  <2> SUFFICES ASSUME NEW w \in wire', w.by # None
               PROVE  source'[w.by].at = "sent" /\ w.refresh = source'[w.by].tokens.refresh
    BY DEF Wire
  <2> QED
    BY <1>1 DEF Wire, TokenTypeOK
<1>8. Kept'
  <2> SUFFICES ASSUME NEW d \in Callers
               PROVE  /\ source'[d].at \in {"post", "sent", "answered", "refused"} => source'[d].tokens = store'
                      /\ source'[d].at = "answered" =>
                           /\ NoOlder(source'[d].answer, store')
                           /\ source'[d].answer.access <= issuer.last /\ source'[d].answer.refresh <= issuer.last
                      /\ source'[d].at = "save" =>
                           /\ AtMost(store', source'[d].tokens)
                           /\ source'[d].tokens.access <= issuer.last /\ source'[d].tokens.refresh <= issuer.last
                      /\ source'[d].at = "returned" => AtMost(source'[d].tokens, store')
                      /\ call[d].token <= store'.access
    BY DEF Kept, OfTokens
  <2>1. call[d].token <= store'.access
    BY DEF Kept, AtMost, CallTypeOK, TokenTypeOK, Tokens
  <2>2. CASE d = c
    BY <1>1, <2>1, <2>2
  <2>3. CASE d # c
    <3>1. source'[d] = source[d] /\ source[d].at \notin Holding
      BY <1>1, <1>2, <2>3
    <3>2. source[d].at = "returned" => AtMost(source[d].tokens, store')
      BY DEF Kept, AtMost, TokenTypeOK, Tokens
    <3> QED
      BY <2>1, <3>1, <3>2 DEF Holding
  <2> QED
    BY <2>2, <2>3
<1>9. CallBounds'
  BY DEF CallBounds, OfTokens
<1> QED
  BY <1>3, <1>4, <1>5, <1>6, <1>7, <1>8, <1>9

\* The caller that holds the mutex, and what it loaded.
LEMMA HolderFacts ==
  ASSUME IInv, NEW c \in Callers
  PROVE  /\ source[c].at # "idle" => call[c].at \in {"token", "refresh"}
         /\ source[c].at \in Holding => mu = c
         /\ source[c].tokens \in Tokens /\ source[c].answer \in Tokens
         /\ store \in Tokens /\ AtMost(store, store)
         /\ store.access <= issuer.last /\ store.refresh <= issuer.last
         /\ NoTokens \in Tokens
         /\ \A w \in wire : w.by = c => source[c].at = "sent" /\ w.refresh = source[c].tokens.refresh
<1> USE TokenSourceAssumption DEF IInv, Types
<1>1. source[c].at # "idle" => call[c].at \in {"token", "refresh"}
  BY DEF CallsMatch
<1>2. source[c].at \in Holding => mu = c
  BY DEF Mutex
<1>3. /\ source[c].tokens \in Tokens /\ source[c].answer \in Tokens
      /\ store \in Tokens /\ NoTokens \in Tokens
  BY DEF TokenTypeOK, Tokens, NoTokens
<1>4. AtMost(store, store) /\ store.access <= issuer.last /\ store.refresh <= issuer.last
  BY <1>3 DEF Kept, AtMost, Tokens
<1>5. \A w \in wire : w.by = c => source[c].at = "sent" /\ w.refresh = source[c].tokens.refresh
  BY DEF Wire
<1> QED
  BY <1>1, <1>2, <1>3, <1>4, <1>5

\* Source.mu is taken by one caller at a time (source.go:73).
LEMMA LockKeeps ==
  ASSUME IInv, NEW c \in Callers, Lock(c), OfTokens
  PROVE  IInv'
<1>1. Moved(c, "load", source[c].tokens, source[c].answer)
  BY StepsMove DEF Lock, IInv, Types, SourceStates
<1>2. wire' = wire /\ source[c].at = "lock"
  BY DEF Lock, Moved
<1> QED
  BY <1>1, <1>2, HolderFacts, MovedKeeps DEF Lock, Holding, SourceStates, Types, IInv, TokenTypeOK

\* What is loaded is returned, or presented to the issuer, as the Store holds it.
LEMMA LoadKeeps ==
  ASSUME IInv, NEW c \in Callers, Load(c), OfTokens
  PROVE  IInv'
<1> DEFINE post == source' = [source EXCEPT ![c] = [@ EXCEPT !.at = "post", !.tokens = store]]
<1>1. \/ mu' = None /\ Moved(c, "failed", NoTokens, NoTokens)
      \/ mu' = None /\ Moved(c, "returned", store, NoTokens)
      \/ mu' = mu /\ Moved(c, "post", store, source[c].answer)
  <2>1. post => Moved(c, "post", store, source[c].answer)
    BY DEF Moved, IInv, Types, TokenTypeOK
  <2>2. SourceFails(c) \/ Returns(c, store) \/ (post /\ mu' = mu)
    BY DEF Load
  <2> QED
    BY <2>1, <2>2, StepsMove DEF IInv, Types, TokenTypeOK
<1>2. /\ source[c].at = "load" /\ store' = store /\ wire' = wire
      /\ UNCHANGED <<over, issuer, due, login>>
  BY DEF Load
<1> QED
  BY <1>1, <1>2, HolderFacts, MovedKeeps DEF Holding, SourceStates, Types, IInv, TokenTypeOK

\* The refresh token that is sent is the one that was loaded.
LEMMA PostKeeps ==
  ASSUME IInv, NEW c \in Callers, Post(c), OfTokens
  PROVE  IInv'
<1>1. /\ source[c].at = "post" /\ store' = store
      /\ UNCHANGED <<over, issuer, due, login>>
      /\ \/ SourceFails(c) /\ wire' = wire
         \/ SourceMoves(c, "sent") /\ mu' = mu /\ wire' = wire \cup {Request(c)}
  BY DEF Post
<1>2. \/ mu' = None /\ Moved(c, "failed", NoTokens, NoTokens) /\ wire' = wire
      \/ /\ mu' = mu /\ Moved(c, "sent", source[c].tokens, source[c].answer)
         /\ wire' = wire \cup {Request(c)}
  BY <1>1, StepsMove DEF IInv, Types, SourceStates
<1>3. /\ Request(c).by = c /\ Request(c).refresh = source[c].tokens.refresh
      /\ Request(c) \in [by : Callers \cup {None}, refresh : 0..MaxTokens]
  BY HolderFacts DEF Request, Tokens
<1>4. source[c].tokens = store /\ mu = c
  BY <1>1, HolderFacts DEF IInv, Kept, Holding
<1>5. wire' \subseteq [by : Callers \cup {None}, refresh : 0..MaxTokens]
  BY <1>2, <1>3 DEF Types, IInv, TokenTypeOK
<1>6. \A w \in wire : w.by # c
  BY <1>1, HolderFacts
<1> HIDE DEF Request
<1> QED
  BY <1>1, <1>2, <1>3, <1>4, <1>5, <1>6, HolderFacts, MovedKeeps DEF Holding, SourceStates

\* A request that is given up stays with the issuer, and nobody waits for it.
LEMMA GiveUpKeeps ==
  ASSUME IInv, NEW c \in Callers, GiveUp(c), OfTokens
  PROVE  IInv'
<1>1. /\ source[c].at = "sent" /\ SourceFails(c)
      /\ wire' = {IF w.by = c THEN [w EXCEPT !.by = None] ELSE w : w \in wire}
      /\ UNCHANGED <<store, over, issuer, due, login>>
  BY DEF GiveUp
<1>2. mu' = None /\ Moved(c, "failed", NoTokens, NoTokens)
  BY <1>1, StepsMove DEF IInv, Types
<1>3. /\ wire' \subseteq [by : Callers \cup {None}, refresh : 0..MaxTokens]
      /\ \A w \in wire' : w.by # None => w.by # c /\ w \in wire
  BY <1>1, TokenSourceAssumption DEF IInv, Types, TokenTypeOK
<1>4. call[c].at \in {"token", "refresh"} /\ mu = c /\ mu' = None
      /\ store' \in Tokens /\ AtMost(store, store') /\ NoTokens \in Tokens
      /\ store'.access <= issuer.last /\ store'.refresh <= issuer.last
  BY <1>1, <1>2, HolderFacts DEF Holding
<1>5. /\ "failed" \in SourceStates \ {"idle"} /\ "failed" \notin Holding
      /\ "failed" \notin {"post", "sent", "answered", "refused", "save", "returned"}
  BY DEF SourceStates, Holding
<1>6. \A w \in wire' : w.by # None => \/ w.by # c /\ w \in wire
                                      \/ w.by = c /\ "failed" = "sent" /\ w.refresh = NoTokens.refresh
  BY <1>3
<1> QED
  BY <1>1, <1>2, <1>3, <1>4, <1>5, <1>6, MovedKeeps

\* A refusal ends the call.
LEMMA RefusalReturnsKeeps ==
  ASSUME IInv, NEW c \in Callers, RefusalReturns(c), OfTokens
  PROVE  IInv'
<1>1. /\ source[c].at = "refused" /\ SourceFails(c)
      /\ UNCHANGED <<store, over, wire, issuer, due, login>>
  BY DEF RefusalReturns
<1>2. mu' = None /\ Moved(c, "failed", NoTokens, NoTokens)
  BY <1>1, StepsMove DEF IInv, Types
<1> QED
  BY <1>1, <1>2, HolderFacts, MovedKeeps DEF Holding, SourceStates, Types, IInv, TokenTypeOK

\* What mergeTokens returns: tokens, no older than what it was given, that the
\* issuer gave out.
LEMMA MergedIsNoOlder ==
  ASSUME NEW tokens \in Tokens, NEW answer \in Tokens, NoOlder(answer, tokens), NEW last \in Nat,
         tokens.access <= last, tokens.refresh <= last, answer.access <= last, answer.refresh <= last
  PROVE  /\ Merged(tokens, answer) \in Tokens
         /\ AtMost(tokens, Merged(tokens, answer))
         /\ Merged(tokens, answer).access <= last /\ Merged(tokens, answer).refresh <= last
  BY TokenSourceAssumption DEF Tokens, Merged, AtMost, NoOlder

\* The merge is no older than the Store, which still holds what was loaded.
LEMMA MergeKeeps ==
  ASSUME IInv, NEW c \in Callers, Merge(c), OfTokens
  PROVE  IInv'
<1> DEFINE merged == Merged(source[c].tokens, source[c].answer)
           save == source' = [source EXCEPT ![c] = [@ EXCEPT !.at = "save", !.answer = NoTokens,
                                !.tokens = Merged(source[c].tokens, source[c].answer)]]
<1>1. /\ source[c].at = "answered"
      /\ UNCHANGED <<store, over, wire, issuer, due, login>>
      /\ SourceFails(c) \/ (save /\ mu' = mu)
  BY DEF Merge
<1>2. save => Moved(c, "save", merged, NoTokens)
  <2> HIDE DEF merged
  <2>1. save => source' = [source EXCEPT ![c] = [@ EXCEPT !.at = "save", !.answer = NoTokens, !.tokens = merged]]
    BY DEF merged
  <2>2. source \in [Callers -> [at : SourceStates, op : {"token", "refresh"}, tokens : Tokens, answer : Tokens]]
    BY DEF IInv, Types, TokenTypeOK
  <2> HIDE DEF save
  <2> QED
    BY <2>1, <2>2 DEF Moved
<1>3. \/ mu' = None /\ Moved(c, "failed", NoTokens, NoTokens)
      \/ mu' = mu /\ Moved(c, "save", merged, NoTokens)
  BY <1>1, <1>2, StepsMove DEF IInv, Types
<1>4. /\ source[c].tokens = store /\ NoOlder(source[c].answer, store)
      /\ source[c].answer.access <= issuer.last /\ source[c].answer.refresh <= issuer.last
      /\ issuer.last \in Nat /\ mu = c
  BY <1>1, HolderFacts DEF IInv, Types, TokenTypeOK, Kept, Holding
<1>5. /\ merged \in Tokens /\ AtMost(store, merged)
      /\ merged.access <= issuer.last /\ merged.refresh <= issuer.last
  BY <1>4, HolderFacts, MergedIsNoOlder
<1> HIDE DEF merged, save
<1> QED
  BY <1>1, <1>3, <1>4, <1>5, HolderFacts, MovedKeeps DEF Holding, SourceStates, Types, IInv, TokenTypeOK

\* Save replaces what the Store holds by what is no older, or fails before or
\* after it did.
LEMMA SaveKeeps ==
  ASSUME IInv, NEW c \in Callers, Save(c), OfTokens
  PROVE  IInv'
<1> DEFINE saved == source[c].tokens
<1>1. /\ source[c].at = "save"
      /\ UNCHANGED <<over, wire, issuer, due, login>>
      /\ \/ store' = saved /\ Returns(c, saved)
         \/ store' \in {store, saved} /\ SourceFails(c)
  BY DEF Save
<1>2. /\ saved \in Tokens /\ AtMost(store, saved) /\ AtMost(saved, saved)
      /\ saved.access <= issuer.last /\ saved.refresh <= issuer.last /\ mu = c
  BY <1>1, HolderFacts DEF IInv, Kept, Holding, AtMost, Tokens
<1>3. \/ mu' = None /\ Moved(c, "failed", NoTokens, NoTokens) /\ store' \in {store, saved}
      \/ mu' = None /\ Moved(c, "returned", saved, NoTokens) /\ store' = saved
  BY <1>1, <1>2, StepsMove DEF IInv, Types
<1> HIDE DEF saved
<1> QED
  BY <1>1, <1>2, <1>3, HolderFacts, MovedKeeps DEF Holding, SourceStates, Types, IInv, TokenTypeOK

\* What an answer leaves of a call.
LEMMA AnsweredCall ==
  ASSUME NEW A, NEW O, NEW T, NEW s \in [at : A, op : O, tokens : T, answer : T], NEW at \in A, NEW p \in T
  PROVE  [s EXCEPT !.at = at, !.answer = p] \in [at : A, op : O, tokens : T, answer : T]
  OBVIOUS

-----------------------------------------------------------------------------
(* Steps of the issuer *)

\* The issuer's answer reaches the caller that waits for it: what it changes is
\* of the next generation.  An answer nobody waits for changes the issuer only.
LEMMA IssuerAnswersKeeps ==
  ASSUME IInv, OfTokens, NEW w \in wire, wire' = wire \ {w},
         NEW at \in {"answered", "refused"}, NEW p \in Tokens,
         IssuerAnswers(w, at, p),
         issuer' \in [refresh : 0..MaxTokens, last : 0..MaxTokens], issuer'.last >= issuer.last,
         p.access \in {0, issuer'.last}, p.refresh \in {0, issuer'.last},
         UNCHANGED <<store, mu, over, due, login>>
  PROVE  IInv'
<1> USE TokenSourceAssumption, CodexCallsAssumption DEF IInv, Types
<1>1. CASE w.by = None
  <2>1. source' = source
    BY <1>1 DEF IssuerAnswers
  <2>2. TokenTypeOK' /\ CallTypeOK'
    BY <2>1 DEF TokenTypeOK, CallTypeOK, OfTokens
  <2>3. CallsMatch' /\ Mutex' /\ Wire' /\ CallBounds'
    BY <2>1 DEF CallsMatch, Mutex, Wire, CallBounds, OfTokens
  <2>4. Kept'
    <3>1. \A n \in 0..MaxTokens : n <= issuer.last => n <= issuer'.last
      BY DEF TokenTypeOK
    <3>2. /\ store.access \in 0..MaxTokens /\ store.refresh \in 0..MaxTokens
          /\ \A c \in Callers :
               /\ source[c].tokens.access \in 0..MaxTokens /\ source[c].tokens.refresh \in 0..MaxTokens
               /\ source[c].answer.access \in 0..MaxTokens /\ source[c].answer.refresh \in 0..MaxTokens
      BY DEF TokenTypeOK, Tokens
    <3> QED
      BY <2>1, <3>1, <3>2 DEF Kept, OfTokens
  <2> QED
    BY <2>2, <2>3, <2>4
<1>2. CASE w.by # None
  <2> DEFINE c == w.by
  <2>1. /\ c \in Callers /\ source[c].at = "sent" /\ w.refresh = source[c].tokens.refresh
    BY <1>2 DEF Wire, TokenTypeOK
  <2>2. mu = c /\ source[c].tokens = store
    BY <2>1 DEF Mutex, Holding, Kept
  <2>3. /\ source'[c] = [source[c] EXCEPT !.at = at, !.answer = p]
        /\ \A d \in Callers : d # c => source'[d] = source[d]
        /\ DOMAIN source' = Callers
    BY <1>2, <2>1 DEF IssuerAnswers, TokenTypeOK
  <2>4. /\ source'[c].at = at /\ source'[c].answer = p /\ source'[c].tokens = store
        /\ source'[c].op = source[c].op
    BY <2>1, <2>2, <2>3 DEF TokenTypeOK
  <2>5. TokenTypeOK'
    <3>1. source[c] \in [at : SourceStates, op : {"token", "refresh"}, tokens : Tokens, answer : Tokens]
      BY <2>1 DEF TokenTypeOK
    <3>2. [source[c] EXCEPT !.at = at, !.answer = p]
            \in [at : SourceStates, op : {"token", "refresh"}, tokens : Tokens, answer : Tokens]
      BY <3>1, AnsweredCall DEF SourceStates
    <3>3. source' = [source EXCEPT ![c] = [source[c] EXCEPT !.at = at, !.answer = p]]
      BY <1>2 DEF IssuerAnswers
    <3>4. source' \in [Callers -> [at : SourceStates, op : {"token", "refresh"}, tokens : Tokens, answer : Tokens]]
      BY <2>1, <3>2, <3>3 DEF TokenTypeOK
    <3> QED
      BY <3>4 DEF TokenTypeOK
  <2>6. CallTypeOK'
    BY DEF CallTypeOK, OfTokens
  <2>7. CallsMatch'
    BY <2>1, <2>3, <2>4 DEF CallsMatch, OfTokens
  <2>8. Mutex'
    BY <2>1, <2>2, <2>3, <2>4 DEF Mutex, Holding
  <2>9. Wire'
    <3>1. \A v \in wire' : v.by # c
      BY <2>1, <2>2 DEF Wire, TokenTypeOK
    <3> QED
      BY <2>3, <3>1 DEF Wire, TokenTypeOK
  <2>10. Kept'
    <3>1. \A n \in 0..MaxTokens : n <= issuer.last => n <= issuer'.last
      BY DEF TokenTypeOK
    <3>2. /\ store.access \in 0..MaxTokens /\ store.refresh \in 0..MaxTokens
          /\ p.access \in 0..MaxTokens /\ p.refresh \in 0..MaxTokens
          /\ issuer'.last \in 0..MaxTokens
      BY DEF TokenTypeOK, Tokens
    <3>3. NoOlder(p, store)
      BY <3>1, <3>2 DEF NoOlder, Kept
    <3>4. \A d \in Callers : d # c => source[d].at \notin Holding
      BY <2>2 DEF Mutex
    <3>5. store.access <= issuer'.last /\ store.refresh <= issuer'.last
      BY <3>1, <3>2 DEF Kept
    <3>6. \A d \in Callers : source'[d].at \in Holding => d = c
      BY <2>3, <3>4
    <3>7. \A d \in Callers : source'[d].at = "returned" => AtMost(source'[d].tokens, store)
      BY <2>3, <2>4 DEF Kept
    <3>8. \A d \in Callers : call[d].token <= store.access
      BY DEF Kept
    <3>9. source'[c].answer.access <= issuer'.last /\ source'[c].answer.refresh <= issuer'.last
      BY <2>4, <3>2
    <3> QED
      BY <2>4, <3>3, <3>5, <3>6, <3>7, <3>8, <3>9 DEF Kept, Holding, OfTokens
  <2>11. CallBounds'
    BY DEF CallBounds, OfTokens
  <2> QED
    BY <2>5, <2>6, <2>7, <2>8, <2>9, <2>10, <2>11
<1> QED
  BY <1>1, <1>2

\* The issuer rotates or refuses.
LEMMA IssuerStepKeeps ==
  ASSUME IInv, IssuerStep, OfTokens
  PROVE  IInv'
<1>1. PICK w \in wire : IssuerRotates(w) \/ IssuerRefuses(w)
  BY DEF IssuerStep
<1>2. CASE IssuerRotates(w)
  <2>1. PICK p \in Responses(issuer.last + 1) : Rotates(w, p) /\ IssuerAnswers(w, "answered", p)
    BY <1>2 DEF IssuerRotates
  <2>2. issuer.refresh \in 0..MaxTokens /\ issuer.last \in 0..MaxTokens
        /\ issuer = [refresh |-> issuer.refresh, last |-> issuer.last] /\ MaxTokens \in Nat
    BY TokenSourceAssumption DEF IInv, Types, TokenTypeOK
  <2>3. p.access \in {0, issuer.last + 1} /\ p.refresh \in {0, issuer.last + 1}
        /\ p = [access |-> p.access, refresh |-> p.refresh]
    BY DEF Responses
  <2>4. /\ issuer' \in [refresh : 0..MaxTokens, last : 0..MaxTokens]
        /\ issuer'.last >= issuer.last
        /\ p.access \in {0, issuer'.last} /\ p.refresh \in {0, issuer'.last}
    BY <2>1, <2>2, <2>3 DEF Rotates
  <2>5. p \in Tokens
    BY <2>2, <2>3, <2>4 DEF Tokens
  <2> QED
    BY <1>2, <2>1, <2>4, <2>5, IssuerAnswersKeeps DEF IssuerRotates
<1>3. CASE IssuerRefuses(w)
  <2>1. /\ NoTokens \in Tokens /\ NoTokens.access = 0 /\ NoTokens.refresh = 0
        /\ issuer \in [refresh : 0..MaxTokens, last : 0..MaxTokens] /\ issuer.last >= issuer.last
    BY TokenSourceAssumption DEF NoTokens, Tokens, IInv, Types, TokenTypeOK
  <2> QED
    BY <1>3, <2>1, IssuerAnswersKeeps DEF IssuerRefuses
<1> QED
  BY <1>1, <1>2, <1>3

-----------------------------------------------------------------------------
(* Steps of the login, of the clock and of a context *)

\* What only moves a login that is not done, or a context, or the clock, leaves
\* the Source and the calls as they are.
LEMMA AsideKeeps ==
  ASSUME IInv, OfTokens, UNCHANGED <<store, mu, source, wire, issuer>>,
         over' \subseteq Callers, due' \subseteq 1..MaxTokens,
         login' \in [at : LoginStates, approved : BOOLEAN, expired : BOOLEAN, over : BOOLEAN],
         login.at = "done" => login'.at = "done"
  PROVE  IInv'
<1> USE DEF IInv, Types, OfTokens
<1>1. TokenTypeOK' /\ CallTypeOK'
  BY DEF TokenTypeOK, CallTypeOK
<1>2. CallsMatch' /\ Mutex' /\ Wire' /\ Kept' /\ CallBounds'
  BY DEF CallsMatch, Mutex, Wire, Kept, CallBounds
<1> QED
  BY <1>1, <1>2

\* A login, until its exchange is answered.
LEMMA LoginMovesKeeps ==
  ASSUME IInv, OfTokens, LoginStep \/ UserApproves \/ CodeExpires \/ LoginCanceled,
         ~ExchangeReturns
  PROVE  IInv'
<1>1. UNCHANGED <<store, mu, source, over, wire, issuer, due>>
  BY DEF LoginStep, Start, Poll, PollReturns, PollTimerFires, WaitIsCanceled, Exchange, UserApproves,
         CodeExpires, LoginCanceled
<1>2. login.at # "done"
  BY DEF LoginStep, Start, Poll, PollReturns, PollTimerFires, WaitIsCanceled, Exchange, UserApproves,
         CodeExpires, LoginCanceled
<1>3. login' \in [at : LoginStates, approved : BOOLEAN, expired : BOOLEAN, over : BOOLEAN]
  <2>1. login \in [at : LoginStates, approved : BOOLEAN, expired : BOOLEAN, over : BOOLEAN]
    BY DEF IInv, Types, TokenTypeOK
  <2>2. \/ \E at \in LoginStates : LoginMoves(at)
        \/ login' = [login EXCEPT !.approved = TRUE]
        \/ login' = [login EXCEPT !.expired = TRUE]
        \/ login' = [login EXCEPT !.over = TRUE]
    BY DEF LoginStep, Start, Poll, PollReturns, PollTimerFires, WaitIsCanceled, Exchange, UserApproves,
           CodeExpires, LoginCanceled, LoginPost, LoginStates
  <2> QED
    BY <2>1, <2>2 DEF LoginMoves
<1> QED
  BY <1>1, <1>2, <1>3, AsideKeeps DEF IInv, Types, TokenTypeOK

\* The first tokens: no call has begun, so nobody holds older ones.
LEMMA ExchangeReturnsKeeps ==
  ASSUME IInv, OfTokens, ExchangeReturns
  PROVE  IInv'
<1> USE TokenSourceAssumption, CodexCallsAssumption
<1>1. login.at = "exchanging" /\ UNCHANGED <<mu, source, over, wire, due>>
  BY DEF ExchangeReturns
<1>2. CASE LoginMoves("failed") /\ UNCHANGED <<store, issuer>>
  <2>1. login' \in [at : LoginStates, approved : BOOLEAN, expired : BOOLEAN, over : BOOLEAN]
    BY <1>2 DEF LoginMoves, LoginStates, IInv, Types, TokenTypeOK
  <2> QED
    BY <1>1, <1>2, <2>1, AsideKeeps DEF IInv, Types, TokenTypeOK
<1>3. ASSUME NEW p \in Responses(1), Complete(Merged(NoTokens, p)), store' = Merged(NoTokens, p),
             issuer' = [refresh |-> 1, last |-> 1], login' = [NewLogin EXCEPT !.at = "done"]
      PROVE  IInv'
  <2>1. store' = [access |-> 1, refresh |-> 1]
    BY <1>3 DEF Responses, Complete, Merged, NoTokens
  <2>2. \A c \in Callers : /\ call[c].at = "new" /\ call[c].token = 0
                          /\ source[c].at = "idle"
    BY <1>1 DEF IInv, CallsMatch, NewCall
  <2> USE DEF IInv, Types
  <2>3. TokenTypeOK'
    <3>1. login' \in [at : LoginStates, approved : BOOLEAN, expired : BOOLEAN, over : BOOLEAN]
      BY <1>3 DEF NewLogin, LoginStates
    <3>2. store' \in Tokens /\ issuer' \in [refresh : 0..MaxTokens, last : 0..MaxTokens]
      BY <1>3, <2>1 DEF Tokens
    <3> QED
      BY <1>1, <3>1, <3>2 DEF TokenTypeOK
  <2>4. CallTypeOK' /\ CallBounds'
    BY DEF CallTypeOK, CallBounds, OfTokens
  <2>5. CallsMatch' /\ Mutex' /\ Wire'
    BY <1>1, <1>3 DEF CallsMatch, Mutex, Wire, NewLogin, OfTokens
  <2>6. Kept'
    BY <1>1, <1>3, <2>1, <2>2 DEF Kept, OfTokens
  <2> QED
    BY <2>3, <2>4, <2>5, <2>6
<1> QED
  BY <1>2, <1>3 DEF ExchangeReturns

\* An access token comes due; a context ends.
LEMMA TimePassesKeeps ==
  ASSUME IInv, OfTokens,
         \/ \E g \in 1..MaxTokens : ComesDue(g)
         \/ \E c \in Callers : ContextEnds(c)
  PROVE  IInv'
<1>1. over' \subseteq Callers /\ due' \subseteq 1..MaxTokens
  BY DEF ComesDue, ContextEnds, IInv, Types, TokenTypeOK
<1>2. UNCHANGED <<store, mu, source, wire, issuer, login>>
  BY DEF ComesDue, ContextEnds
<1>3. login \in [at : LoginStates, approved : BOOLEAN, expired : BOOLEAN, over : BOOLEAN]
  BY DEF IInv, Types, TokenTypeOK
<1> QED
  BY <1>1, <1>2, <1>3, AsideKeeps

-----------------------------------------------------------------------------
(* Steps of a call *)

CallRecord == [at : CallStates, attempt : 0..MaxAttempts, refreshed : BOOLEAN, token : 0..MaxTokens,
               got : Statuses \cup {NoResponse}, sends : Nat, rotations : Nat]

\* The bounds of one call, for the values its step leaves.
Bounded(row, bodies) ==
  /\ row.rotations = IF row.refreshed \/ row.at = "refresh" THEN 1 ELSE 0
  /\ row.at = "refresh" => ~row.refreshed
  /\ row.sends <= row.attempt + row.rotations
  /\ row.at \in {"token", "refresh"} => row.sends < row.attempt + row.rotations
  /\ row.at = "backoff" => row.attempt < MaxAttempts
  /\ bodies <= 1
  /\ row.at \notin {"decide", "stream"} => bodies = 0

\* What a step leaves of a call: its record, and the bodies it did not close.
CallLeaves(c, row, bodies) ==
  /\ call' = [call EXCEPT ![c] = row]
  /\ open' = [open EXCEPT ![c] = bodies]

\* A step of a call keeps the invariant when it enters the Source as it starts to
\* wait for tokens, leaves it with what was returned, and stays in its bounds.
LEMMA CallKeeps ==
  ASSUME IInv, NEW c \in Callers, NEW row \in CallRecord, NEW bodies \in Nat,
         CallLeaves(c, row, bodies),
         \/ CallSource(c, "token") \/ CallSource(c, "refresh")
         \/ source' = [source EXCEPT ![c] = IdleCall]
         \/ source' = source,
         source[c].at \in {"idle", "returned", "failed"},
         row.at \notin {"token", "refresh"} =>
           source' = [source EXCEPT ![c] = IdleCall] \/ (source' = source /\ source[c].at = "idle"),
         login.at = "done", row.at # "new",
         row.token <= store.access, Bounded(row, bodies),
         over' \subseteq Callers,
         UNCHANGED <<store, mu, wire, issuer, due, login, refused, crashes>>
  PROVE  IInv'
<1> USE TokenSourceAssumption, CodexCallsAssumption DEF IInv, Types, CallLeaves
<1> DEFINE lock(op) == [at |-> "lock", op |-> op, tokens |-> NoTokens, answer |-> NoTokens]
<1>1. /\ call'[c] = row /\ open'[c] = bodies
      /\ \A d \in Callers : d # c => call'[d] = call[d] /\ open'[d] = open[d]
  BY DEF CallTypeOK
<1>2. /\ \/ \E op \in {"token", "refresh"} : source' = [source EXCEPT ![c] = lock(op)]
         \/ source' = [source EXCEPT ![c] = IdleCall]
         \/ source' = source
      /\ DOMAIN source = Callers
  <2>1. \A op \in {"token", "refresh"} : CallSource(c, op) => source' = [source EXCEPT ![c] = lock(op)]
    BY DEF CallSource, IdleCall
  <2>2. DOMAIN source = Callers
    BY DEF TokenTypeOK
  <2> HIDE DEF lock, IInv, Types
  <2> QED BY <2>1, <2>2
<1>3. /\ \A d \in Callers : d # c => source'[d] = source[d]
      /\ source'[c].at \in {"idle", "lock", "returned", "failed"}
      /\ source'[c] # source[c] => source'[c].at \in {"idle", "lock"}
  BY <1>2 DEF IdleCall
<1>4. TokenTypeOK'
  <2>1. /\ IdleCall \in [at : SourceStates, op : {"token", "refresh"}, tokens : Tokens, answer : Tokens]
        /\ \A op \in {"token", "refresh"} :
             lock(op) \in [at : SourceStates, op : {"token", "refresh"}, tokens : Tokens, answer : Tokens]
    BY DEF IdleCall, NoTokens, Tokens, SourceStates
  <2> HIDE DEF lock
  <2>2. source' \in [Callers -> [at : SourceStates, op : {"token", "refresh"}, tokens : Tokens, answer : Tokens]]
    BY <1>2, <2>1 DEF TokenTypeOK
  <2> QED
    BY <2>2 DEF TokenTypeOK
<1>5. CallTypeOK'
  <2>1. call' \in [Callers -> CallRecord] /\ open' \in [Callers -> Nat]
    BY DEF CallTypeOK, CallRecord
  <2> QED
    BY <2>1 DEF CallTypeOK, CallRecord
<1>6. CallsMatch'
  <2>1. row.at \notin {"token", "refresh"} => source'[c].at = "idle"
    BY DEF TokenTypeOK, IdleCall
  <2> QED
    BY <1>1, <1>3, <2>1 DEF CallsMatch
<1>7. Mutex'
  BY <1>3 DEF Mutex, Holding
<1>8. Wire'
  <2>1. \A w \in wire : w.by # c
    BY DEF Wire
  <2> QED
    BY <1>3, <2>1 DEF Wire, TokenTypeOK
<1>9. Kept'
  BY <1>1, <1>3 DEF Kept
<1>10. CallBounds'
  BY <1>1 DEF CallBounds, Bounded
<1> QED
  BY <1>4, <1>5, <1>6, <1>7, <1>8, <1>9, <1>10

\* What is known of a call that has begun.
LEMMA BegunFacts ==
  ASSUME IInv, NEW c \in Callers
  PROVE  /\ call[c] \in CallRecord /\ open[c] \in Nat /\ Bounded(call[c], open[c])
         /\ call[c].token <= store.access /\ 0 <= store.access
         /\ call[c].at # "new" => login.at = "done"
         /\ call[c].at \notin {"token", "refresh"} => source[c].at = "idle"
         /\ call[c].at = "new" => call[c] = NewCall
<1>1. call[c] \in CallRecord /\ open[c] \in Nat
  BY DEF IInv, Types, CallTypeOK, CallRecord
<1>2. Bounded(call[c], open[c])
  BY DEF IInv, CallBounds, Bounded
<1>3. call[c].token <= store.access /\ 0 <= store.access
  BY DEF IInv, Types, TokenTypeOK, Tokens, Kept
<1> QED
  BY <1>1, <1>2, <1>3 DEF IInv, CallsMatch

\* The records that the steps of a call leave.
Attempting(s, k) == [s EXCEPT !.at = "token", !.attempt = k]
Rotating(s, n) == [s EXCEPT !.at = "refresh", !.got = NoResponse, !.token = 0, !.rotations = n]
WithToken(s, token, b) == [s EXCEPT !.token = token, !.refreshed = b]
SentOff(s, n) == [s EXCEPT !.at = "sent", !.sends = n]
Stopped(s) == [s EXCEPT !.at = "decide", !.got = NoResponse]
MovedOn(s, at, got, token) == [s EXCEPT !.at = at, !.got = got, !.token = token]

\* A record of a call, by the fields that its bounds are about.
Row(row, at, attempt, refreshed, token, sends, rotations) ==
  /\ row \in CallRecord /\ row.at = at /\ row.attempt = attempt
  /\ row.refreshed = refreshed /\ row.token = token
  /\ row.sends = sends /\ row.rotations = rotations

\* Each of these records is a call's, with the fields named changed.
LEMMA RowsOfSteps ==
  ASSUME NEW s \in CallRecord
  PROVE  /\ \A k \in 0..MaxAttempts :
              Row(Attempting(s, k), "token", k, s.refreshed, s.token, s.sends, s.rotations)
         /\ \A n \in Nat : Row(Rotating(s, n), "refresh", s.attempt, s.refreshed, 0, s.sends, n)
         /\ \A token \in 0..MaxTokens, b \in BOOLEAN :
              Row(WithToken(s, token, b), s.at, s.attempt, b, token, s.sends, s.rotations)
         /\ \A n \in Nat : Row(SentOff(s, n), "sent", s.attempt, s.refreshed, s.token, n, s.rotations)
         /\ Row(Stopped(s), "decide", s.attempt, s.refreshed, s.token, s.sends, s.rotations)
         /\ \A at \in CallStates, got \in Statuses \cup {NoResponse}, token \in 0..MaxTokens :
              Row(MovedOn(s, at, got, token), at, s.attempt, s.refreshed, token, s.sends, s.rotations)
<1>1. /\ "refresh" \in CallStates /\ "decide" \in CallStates /\ "sent" \in CallStates
      /\ "token" \in CallStates /\ NoResponse \in Statuses \cup {NoResponse} /\ 0 \in 0..MaxTokens
  BY TokenSourceAssumption DEF CallStates
<1>2. ASSUME NEW k \in 0..MaxAttempts
      PROVE  Row(Attempting(s, k), "token", k, s.refreshed, s.token, s.sends, s.rotations)
  BY <1>1 DEF CallRecord, Row, Attempting
<1>3. ASSUME NEW n \in Nat
      PROVE  Row(Rotating(s, n), "refresh", s.attempt, s.refreshed, 0, s.sends, n)
  BY <1>1 DEF CallRecord, Row, Rotating
<1>4. ASSUME NEW token \in 0..MaxTokens, NEW b \in BOOLEAN
      PROVE  Row(WithToken(s, token, b), s.at, s.attempt, b, token, s.sends, s.rotations)
  BY DEF CallRecord, Row, WithToken
<1>5. ASSUME NEW n \in Nat
      PROVE  Row(SentOff(s, n), "sent", s.attempt, s.refreshed, s.token, n, s.rotations)
  BY <1>1 DEF CallRecord, Row, SentOff
<1>6. Row(Stopped(s), "decide", s.attempt, s.refreshed, s.token, s.sends, s.rotations)
  BY <1>1 DEF CallRecord, Row, Stopped
<1>7. ASSUME NEW at \in CallStates, NEW got \in Statuses \cup {NoResponse}, NEW token \in 0..MaxTokens
      PROVE  Row(MovedOn(s, at, got, token), at, s.attempt, s.refreshed, token, s.sends, s.rotations)
  BY DEF CallRecord, Row, MovedOn
<1> QED
  BY <1>2, <1>3, <1>4, <1>5, <1>6, <1>7

\* A call that ended is within its bounds.
LEMMA EndedRow ==
  /\ EndedCall \in CallRecord /\ EndedCall.at = "ended" /\ EndedCall.token = 0
  /\ Bounded(EndedCall, 0)
<1>1. NewCall \in CallRecord
  BY TokenSourceAssumption, CodexCallsAssumption DEF NewCall, CallRecord, CallStates
<1>2. \A s \in CallRecord : LET row == [s EXCEPT !.at = "ended"]
        IN /\ row \in CallRecord /\ row.at = "ended" /\ row.attempt = s.attempt
           /\ row.refreshed = s.refreshed /\ row.token = s.token
           /\ row.sends = s.sends /\ row.rotations = s.rotations
  BY DEF CallRecord, CallStates
<1>3. /\ EndedCall \in CallRecord /\ EndedCall.at = "ended" /\ EndedCall.attempt = NewCall.attempt
      /\ EndedCall.refreshed = NewCall.refreshed /\ EndedCall.token = NewCall.token
      /\ EndedCall.sends = NewCall.sends /\ EndedCall.rotations = NewCall.rotations
  BY <1>1, <1>2 DEF EndedCall
<1> HIDE DEF EndedCall
<1> QED
  BY <1>3 DEF Bounded, NewCall

\* The call of an attempt asks the Source for tokens, with a request left.
LEMMA NextAttemptKeeps ==
  ASSUME IInv, NEW c \in Callers, Begin(c) \/ Retry(c)
  PROVE  IInv'
<1> DEFINE s == call[c]
           row == Attempting(s, s.attempt + 1)
<1>1. /\ CallLeaves(c, row, open[c]) /\ CallSource(c, "token") /\ over' \subseteq Callers
      /\ UNCHANGED <<store, mu, wire, issuer, due, login, refused, crashes>>
      /\ \/ s.at = "new" /\ login.at = "done"
         \/ s.at = "backoff"
  BY DEF Begin, Retry, NextAttempt, Attempting, CallLeaves, IInv, Types, CallTypeOK, TokenTypeOK
<1>2. s \in CallRecord /\ Bounded(s, open[c])
  BY BegunFacts
<1>3. s.attempt < MaxAttempts /\ login.at = "done" /\ open[c] = 0 /\ source[c].at = "idle"
  BY <1>1, <1>2, BegunFacts, CodexCallsAssumption DEF NewCall, Bounded
<1>4. s.attempt + 1 \in 0..MaxAttempts
  BY <1>2, <1>3, CodexCallsAssumption DEF CallRecord
<1>5. Row(row, "token", s.attempt + 1, s.refreshed, s.token, s.sends, s.rotations)
  BY <1>2, <1>4, RowsOfSteps
<1> HIDE DEF row
<1>6. Bounded(row, open[c])
  BY <1>1, <1>2, <1>3, <1>5, CodexCallsAssumption DEF Bounded, Row, CallRecord
<1> QED
  BY <1>1, <1>3, <1>5, <1>6, BegunFacts, CallKeeps DEF Row

\* A call that ends leaves nothing open; nothing is known of it any more.
LEMMA EndedKeeps ==
  ASSUME IInv, NEW c \in Callers, call[c].at # "new", CallEnds(c), Close(c),
         \/ source' = source /\ source[c].at = "idle"
         \/ source' = [source EXCEPT ![c] = IdleCall] /\ source[c].at = "failed",
         UNCHANGED <<store, mu, wire, issuer, due, login, refused, crashes>>
  PROVE  IInv'
<1>1. /\ EndedCall \in CallRecord /\ EndedCall.at = "ended" /\ EndedCall.token = 0
      /\ Bounded(EndedCall, 0)
  BY EndedRow
<1>2. CallLeaves(c, EndedCall, 0) /\ over' \subseteq Callers
  BY DEF CallLeaves, CallEnds, Close, IInv, Types, TokenTypeOK
<1>3. source[c].at \in {"idle", "failed"} /\ login.at = "done"
  BY BegunFacts
<1> HIDE DEF EndedCall
<1> QED
  BY <1>1, <1>2, <1>3, BegunFacts, CallKeeps

\* The steps that end a call.
LEMMA EndsKeep ==
  ASSUME IInv, NEW c \in Callers, SourceFailed(c) \/ AttemptFails(c) \/ WaitRetryEnds(c) \/ StreamEnds(c)
  PROVE  IInv'
<1>1. CASE AttemptFails(c) \/ StreamEnds(c)
  BY <1>1, EndedKeeps, BegunFacts DEF AttemptFails, StreamEnds
<1>2. CASE SourceFailed(c) \/ WaitRetryEnds(c)
  <2>1. open[c] = 0 /\ open' = open
    BY <1>2, BegunFacts DEF SourceFailed, WaitRetryEnds, Bounded
  <2>2. Close(c)
    BY <2>1 DEF Close, IInv, Types, CallTypeOK
  <2> QED
    BY <1>2, <2>2, EndedKeeps, BegunFacts DEF SourceFailed, WaitRetryEnds
<1> QED
  BY <1>1, <1>2

\* A request is sent with what the Source returned, unless the context is done.
LEMMA SendKeeps ==
  ASSUME IInv, NEW c \in Callers, Send(c)
  PROVE  IInv'
<1> DEFINE s == call[c]
           token == source[c].tokens.access
           sent == [s EXCEPT !.token = token, !.refreshed = @ \/ s.at = "refresh"]
<1>1. /\ s.at \in {"token", "refresh"} /\ source[c].at = "returned"
      /\ CallLeaves(c, Stopped(sent), open[c]) \/ CallLeaves(c, SentOff(sent, sent.sends + 1), open[c])
      /\ source' = [source EXCEPT ![c] = IdleCall] /\ over' \subseteq Callers
      /\ UNCHANGED <<store, mu, wire, issuer, due, login, refused, crashes>>
  BY DEF Send, Stopped, SentOff, CallLeaves, IInv, Types, CallTypeOK, TokenTypeOK
<1>2. /\ token \in 0..MaxTokens /\ token <= store.access
      /\ s \in CallRecord /\ Bounded(s, open[c]) /\ login.at = "done" /\ open[c] \in Nat
  BY <1>1, BegunFacts DEF IInv, Types, TokenTypeOK, Tokens, Kept, AtMost
<1>3. PICK b \in BOOLEAN : (b <=> s.refreshed \/ s.at = "refresh") /\ sent = WithToken(s, token, b)
  BY DEF WithToken
<1>4. Row(sent, s.at, s.attempt, b, token, s.sends, s.rotations)
  BY <1>2, <1>3, RowsOfSteps, CodexCallsAssumption
<1> HIDE DEF sent
<1>5. sent.sends + 1 \in Nat /\ sent \in CallRecord
  BY <1>4 DEF Row, CallRecord
<1>6. /\ Row(Stopped(sent), "decide", sent.attempt, sent.refreshed, sent.token, sent.sends, sent.rotations)
      /\ Row(SentOff(sent, sent.sends + 1), "sent", sent.attempt, sent.refreshed, sent.token,
             sent.sends + 1, sent.rotations)
  BY <1>5, RowsOfSteps
<1>7. /\ s.sends \in Nat /\ s.attempt \in Nat /\ s.rotations \in Nat
      /\ s.sends < s.attempt + s.rotations /\ open[c] = 0
      /\ s.rotations = IF b THEN 1 ELSE 0
  BY <1>1, <1>2, <1>3, CodexCallsAssumption DEF CallRecord, Bounded
<1>8. Bounded(Stopped(sent), open[c]) /\ Bounded(SentOff(sent, sent.sends + 1), open[c])
  BY <1>4, <1>6, <1>7 DEF Bounded, Row
<1> QED
  BY <1>1, <1>2, <1>4, <1>6, <1>8, BegunFacts, CallKeeps DEF Row

\* A step of a call that the Source does not see: to at, with a new answer and
\* the token kept or dropped.
LEMMA MoveKeeps ==
  ASSUME IInv, NEW c \in Callers, call[c].at \in {"sent", "decide"},
         NEW at \in {"decide", "stream", "backoff"}, NEW got \in Statuses \cup {NoResponse},
         NEW token \in {0, call[c].token}, NEW bodies \in {0, 1},
         CallLeaves(c, MovedOn(call[c], at, got, token), bodies),
         at = "backoff" => call[c].attempt < MaxAttempts /\ bodies = 0,
         UNCHANGED <<tokenVars, refused, crashes>>
  PROVE  IInv'
<1> DEFINE s == call[c]
           row == MovedOn(s, at, got, token)
<1>1. /\ source[c].at = "idle" /\ login.at = "done"
      /\ UNCHANGED <<store, mu, source, over, wire, issuer, due, login, refused, crashes>>
      /\ over' \subseteq Callers
  BY BegunFacts DEF tokenVars, IInv, Types, TokenTypeOK
<1>2. s \in CallRecord /\ Bounded(s, open[c]) /\ token \in 0..MaxTokens /\ at \in CallStates
  BY BegunFacts, TokenSourceAssumption DEF CallRecord, CallStates
<1>3. Row(row, at, s.attempt, s.refreshed, token, s.sends, s.rotations)
  BY <1>2, RowsOfSteps, CodexCallsAssumption
<1> HIDE DEF row
<1>4. Bounded(row, bodies) /\ bodies \in Nat
  BY <1>2, <1>3 DEF Bounded, Row
<1>5. row.token <= store.access /\ row.at \notin {"token", "refresh", "new"}
  BY <1>3, BegunFacts DEF Row
<1> QED
  BY <1>1, <1>3, <1>4, <1>5, CallKeeps DEF Row, row

\* The request is answered, or not; the response is kept or dropped.
LEMMA AnswerKeeps ==
  ASSUME IInv, NEW c \in Callers,
         (\E status \in Statuses : Respond(c, status)) \/ SendFails(c) \/ Opened(c) \/ BackOff(c)
  PROVE  IInv'
<1> DEFINE s == call[c]
<1>1. /\ s \in CallRecord /\ open[c] \in {0, 1}
      /\ s.at # "decide" /\ s.at # "stream" => open[c] = 0
  BY BegunFacts DEF Bounded
<1>2. \A at, got : [s EXCEPT !.at = at, !.got = got] = MovedOn(s, at, got, s.token)
  BY <1>1 DEF CallRecord, MovedOn
<1>3. open = [open EXCEPT ![c] = open[c]]
  BY DEF IInv, Types, CallTypeOK
<1>4. ASSUME NEW status \in Statuses, Respond(c, status) PROVE IInv'
  <2>1. /\ CallLeaves(c, MovedOn(s, "decide", status, s.token), 1)
        /\ s.at = "sent" /\ UNCHANGED <<tokenVars, refused, crashes>>
    <3>1. s.at = "sent"
      BY <1>4 DEF Respond
    <3>2. open[c] = 0
      BY <1>1, <3>1
    <3>3. open' = [open EXCEPT ![c] = 1]
      <4>1. open[c] + 1 = 1
        BY <3>2
      <4> QED
        BY <1>4, <4>1 DEF Respond
    <3> QED
      BY <1>2, <1>4, <3>1, <3>3 DEF Respond, CallLeaves
  <2> QED
    BY <2>1, MoveKeeps
<1>5. CASE SendFails(c)
  <2>1. /\ CallLeaves(c, MovedOn(s, "decide", NoResponse, s.token), open[c])
        /\ s.at = "sent" /\ UNCHANGED <<tokenVars, refused, crashes>>
    BY <1>2, <1>3, <1>5 DEF SendFails, CallLeaves
  <2> QED
    BY <1>1, <2>1, MoveKeeps
<1>6. CASE Opened(c)
  <2>1. /\ CallLeaves(c, MovedOn(s, "stream", NoResponse, 0), open[c])
        /\ s.at = "decide" /\ UNCHANGED <<tokenVars, refused, crashes>>
    BY <1>3, <1>6 DEF Opened, CallMoves, MovedOn, CallLeaves
  <2> QED
    BY <1>1, <2>1, MoveKeeps
<1>7. CASE BackOff(c)
  <2>1. /\ CallLeaves(c, MovedOn(s, "backoff", NoResponse, 0), 0)
        /\ s.at = "decide" /\ UNCHANGED <<tokenVars, refused, crashes>>
        /\ s.attempt < MaxAttempts
    BY <1>7 DEF BackOff, CallMoves, Close, MovedOn, CallLeaves
  <2> QED
    BY <2>1, MoveKeeps
<1> QED
  BY <1>4, <1>5, <1>6, <1>7

\* A rotation is forced once: refreshAttempt closes what it was answered.
LEMMA RefreshAttemptKeeps ==
  ASSUME IInv, NEW c \in Callers, RefreshAttempt(c)
  PROVE  IInv'
<1> DEFINE s == call[c]
           row == Rotating(s, s.rotations + 1)
<1>1. /\ CallLeaves(c, row, 0) /\ over' \subseteq Callers
      /\ CallSource(c, "refresh") /\ s.at = "decide" /\ ~s.refreshed
      /\ UNCHANGED <<store, mu, over, wire, issuer, due, login, refused, crashes>>
  BY DEF CallLeaves, RefreshAttempt, Close, NeedsRefresh, Rotating, IInv, Types, TokenTypeOK
<1>2. s \in CallRecord /\ Bounded(s, open[c]) /\ s.rotations + 1 \in Nat /\ s.sends \in Nat
      /\ s.attempt \in Nat
  BY BegunFacts, CodexCallsAssumption DEF CallRecord
<1>3. Row(row, "refresh", s.attempt, s.refreshed, 0, s.sends, s.rotations + 1)
  BY <1>2, RowsOfSteps, TokenSourceAssumption, CodexCallsAssumption DEF CallStates
<1> HIDE DEF row
<1>4. Bounded(row, 0)
  BY <1>1, <1>2, <1>3 DEF Bounded, Row
<1>5. source[c].at = "idle" /\ login.at = "done" /\ row.token <= store.access
  BY <1>1, <1>3, BegunFacts DEF Row
<1> QED
  BY <1>1, <1>3, <1>4, <1>5, CallKeeps DEF Row

\* The backend refuses a token from now on.
LEMMA RevokeKeeps ==
  ASSUME IInv, NEW g \in 1..MaxTokens, Revoke(g)
  PROVE  IInv'
<1> USE DEF IInv, Types
<1>1. UNCHANGED <<tokenVars, call, open, crashes>> /\ refused' = refused \cup {g}
  BY DEF Revoke
<1>2. TokenTypeOK' /\ CallTypeOK'
  BY <1>1 DEF TokenTypeOK, CallTypeOK, tokenVars
<1>3. CallsMatch' /\ Mutex' /\ Wire' /\ Kept' /\ CallBounds'
  BY <1>1 DEF CallsMatch, Mutex, Wire, Kept, CallBounds, tokenVars
<1> QED
  BY <1>2, <1>3

\* What the process held is gone; requests it sent stay with the issuer.
LEMMA CrashKeeps ==
  ASSUME IInv, Crash
  PROVE  IInv'
<1> USE TokenSourceAssumption, CodexCallsAssumption DEF IInv, Types
<1>1. /\ crashes < MaxCrashes /\ crashes' = crashes + 1 /\ mu' = None /\ over' = {}
      /\ source' = [c \in Callers |-> IdleCall] /\ open' = [c \in Callers |-> 0]
      /\ wire' = {[w EXCEPT !.by = None] : w \in wire}
      /\ call' = [c \in Callers |-> IF Running(c) THEN EndedCall ELSE call[c]]
      /\ UNCHANGED <<store, issuer, due, login, refused>>
  BY DEF Crash
<1>2. /\ EndedCall \in CallRecord /\ EndedCall.at = "ended" /\ EndedCall.token = 0
      /\ Bounded(EndedCall, 0)
  BY EndedRow
<1>3. \A c \in Callers :
        /\ call'[c] \in CallRecord /\ Bounded(call'[c], 0)
        /\ call'[c].at \in {"new", "ended"}
        /\ call[c].at = "new" => call'[c] = call[c]
        /\ call'[c].at = "new" => call[c].at = "new"
        /\ call'[c].token <= store.access
        /\ source'[c].at = "idle" /\ open'[c] = 0
  <2> SUFFICES ASSUME NEW c \in Callers
               PROVE  /\ call'[c] \in CallRecord /\ Bounded(call'[c], 0)
                      /\ call'[c].at \in {"new", "ended"}
                      /\ call[c].at = "new" => call'[c] = call[c]
                      /\ call'[c].at = "new" => call[c].at = "new"
                      /\ call'[c].token <= store.access
                      /\ source'[c].at = "idle" /\ open'[c] = 0
    OBVIOUS
  <2>1. call'[c] = IF Running(c) THEN EndedCall ELSE call[c]
    BY <1>1
  <2>2. source'[c].at = "idle" /\ open'[c] = 0
    BY <1>1 DEF IdleCall
  <2>3. call[c].at \in {"new", "ended"} => Bounded(call[c], 0)
    BY BegunFacts DEF Bounded
  <2> QED
    BY <1>2, <2>1, <2>2, <2>3, BegunFacts DEF Running
<1>4. TokenTypeOK'
  <2>1. IdleCall \in [at : SourceStates, op : {"token", "refresh"}, tokens : Tokens, answer : Tokens]
    BY DEF IdleCall, NoTokens, Tokens, SourceStates
  <2>2. wire' \subseteq [by : Callers \cup {None}, refresh : 0..MaxTokens]
    BY <1>1 DEF TokenTypeOK
  <2> QED
    BY <1>1, <2>1, <2>2 DEF TokenTypeOK
<1>5. CallTypeOK'
  <2>1. call' \in [Callers -> CallRecord]
    <3>1. \A c \in Callers : (IF Running(c) THEN EndedCall ELSE call[c]) \in CallRecord
      BY <1>2, BegunFacts
    <3> QED
      BY <1>1, <3>1
  <2>2. open' \in [Callers -> Nat]
    BY <1>1
  <2>3. crashes' \in 0..MaxCrashes
    BY <1>1 DEF CallTypeOK
  <2> QED
    BY <1>1, <2>1, <2>2, <2>3 DEF CallTypeOK, CallRecord
<1>6. CallsMatch'
  <2>1. \A c \in Callers : /\ login.at # "done" => call[c].at = "new"
                           /\ call[c].at = "new" => call[c] = NewCall
    BY DEF CallsMatch
  <2> QED
    BY <1>1, <1>3, <2>1 DEF CallsMatch
<1>7. Mutex' /\ Wire'
  <2>1. \A w \in wire' : w.by = None
    BY <1>1 DEF TokenTypeOK
  <2> QED
    BY <1>1, <1>3, <2>1 DEF Mutex, Wire, Holding
<1>8. Kept'
  BY <1>1, <1>3 DEF Kept
<1>9. CallBounds'
  BY <1>1, <1>3 DEF CallBounds, Bounded
<1> QED
  BY <1>4, <1>5, <1>6, <1>7, <1>8, <1>9

\* Every step keeps the invariant.
LEMMA NextIInv ==
  ASSUME IInv, [Next]_vars
  PROVE  IInv'
<1>1. CASE (LoginStep \/ UserApproves \/ CodeExpires \/ LoginCanceled) /\ OfTokens
  BY <1>1, LoginMovesKeeps, ExchangeReturnsKeeps
<1>2. CASE IssuerStep /\ OfTokens
  BY <1>2, IssuerStepKeeps
<1>3. ASSUME NEW c \in Callers, SourceStep(c) \/ GiveUp(c), OfTokens PROVE IInv'
  BY <1>3, LockKeeps, LoadKeeps, PostKeeps, RefusalReturnsKeeps, MergeKeeps, SaveKeeps, GiveUpKeeps
     DEF SourceStep
<1>4. ASSUME NEW c \in Callers, Begin(c) \/ CallStep(c) \/ SendFails(c) PROVE IInv'
  BY <1>4, NextAttemptKeeps, EndsKeep, SendKeeps, AnswerKeeps, RefreshAttemptKeeps DEF CallStep
<1>5. ASSUME NEW c \in Callers, NEW status \in Statuses, Respond(c, status) PROVE IInv'
  BY <1>5, AnswerKeeps
<1>6. ASSUME NEW c \in Callers, ContextEnds(c), OfTokens PROVE IInv'
  BY <1>6, TimePassesKeeps
<1>7. ASSUME NEW g \in 1..MaxTokens, (ComesDue(g) /\ OfTokens) \/ Revoke(g) PROVE IInv'
  BY <1>7, TimePassesKeeps, RevokeKeeps
<1>8. CASE Crash
  BY <1>8, CrashKeeps
<1>9. CASE UNCHANGED vars
  <2> USE DEF IInv, Types
  <2>1. TokenTypeOK' /\ CallTypeOK'
    BY <1>9 DEF vars, tokenVars, TokenTypeOK, CallTypeOK
  <2>2. CallsMatch' /\ Mutex' /\ Wire' /\ Kept' /\ CallBounds'
    BY <1>9 DEF vars, tokenVars, CallsMatch, Mutex, Wire, Kept, CallBounds
  <2> QED
    BY <2>1, <2>2
<1> QED
  BY <1>1, <1>2, <1>3, <1>4, <1>5, <1>6, <1>7, <1>8, <1>9 DEF Next

\* The invariant holds in every behaviour.
LEMMA SpecIInv == Spec => []IInv
  BY InitIInv, NextIInv, PTL DEF Spec

-----------------------------------------------------------------------------
(* What follows *)

\* Only the issuer's refusal of its request refuses a caller that waits.
LEMMA RefusalComesFromIssuer ==
  ASSUME IInv, [Next]_vars, NEW c \in Callers, source[c].at = "sent", source'[c].at = "refused"
  PROVE  \E w \in wire : IssuerRefuses(w) /\ w.by = c
<1>1. source' # source
  OBVIOUS
<1>2. ~(LoginStep \/ UserApproves \/ CodeExpires \/ LoginCanceled)
  BY <1>1 DEF LoginStep, Start, Poll, PollReturns, PollTimerFires, WaitIsCanceled, Exchange,
              ExchangeReturns, UserApproves, CodeExpires, LoginCanceled
<1>0. source \in [Callers -> [at : SourceStates, op : {"token", "refresh"}, tokens : Tokens, answer : Tokens]]
  BY DEF IInv, Types, TokenTypeOK
<1>3. ASSUME NEW d \in Callers PROVE ~(SourceStep(d) \/ GiveUp(d))
  <2>1. ~(Lock(d) \/ Post(d))
    BY <1>0 DEF Lock, Post, SourceMoves, SourceFails
  <2>2. ~Load(d)
    BY <1>0 DEF Load, Returns, SourceFails
  <2>3. ~(RefusalReturns(d) \/ GiveUp(d))
    BY <1>0 DEF RefusalReturns, GiveUp, SourceFails
  <2>4. ~Merge(d)
    BY <1>0 DEF Merge, SourceFails
  <2>5. ~Save(d)
    BY <1>0 DEF Save, Returns, SourceFails
  <2> QED BY <2>1, <2>2, <2>3, <2>4, <2>5 DEF SourceStep
<1>4. ASSUME NEW d \in Callers PROVE ~(Begin(d) \/ CallStep(d) \/ SendFails(d) \/ ContextEnds(d))
  <2>1. ~(Opened(d) \/ BackOff(d) \/ SendFails(d) \/ ContextEnds(d))
    BY <1>1 DEF Opened, BackOff, SendFails, ContextEnds, tokenVars
  <2>2. ~(AttemptFails(d) \/ WaitRetryEnds(d) \/ StreamEnds(d))
    BY <1>1 DEF AttemptFails, WaitRetryEnds, StreamEnds
  <2>3. ~(Begin(d) \/ Retry(d) \/ RefreshAttempt(d))
    BY <1>0 DEF Begin, Retry, RefreshAttempt, NextAttempt, CallSource, IdleCall
  <2>4. ~(SourceFailed(d) \/ Send(d))
    BY <1>0 DEF SourceFailed, Send, IdleCall
  <2> QED BY <2>1, <2>2, <2>3, <2>4 DEF CallStep
<1>5. ASSUME NEW d \in Callers, NEW status \in Statuses PROVE ~Respond(d, status)
  BY <1>1 DEF Respond, tokenVars
<1>6. ASSUME NEW g \in 1..MaxTokens PROVE ~(ComesDue(g) \/ Revoke(g))
  BY <1>1 DEF ComesDue, Revoke, tokenVars
<1>7. ~Crash
  BY DEF Crash, IdleCall
<1>8. IssuerStep
  <2>1. ~UNCHANGED vars
    BY <1>1 DEF vars, tokenVars
  <2> QED
    BY <1>2, <1>3, <1>4, <1>5, <1>6, <1>7, <2>1 DEF Next
<1>9. ASSUME NEW w \in wire, IssuerRotates(w) PROVE FALSE
  <2>1. PICK p : IssuerAnswers(w, "answered", p)
    BY <1>9 DEF IssuerRotates
  <2>2. \/ source' = source
        \/ source' = [source EXCEPT ![w.by] = [@ EXCEPT !.at = "answered", !.answer = p]]
    BY <2>1 DEF IssuerAnswers
  <2>3. /\ source[c] \in [at : SourceStates, op : {"token", "refresh"}, tokens : Tokens, answer : Tokens]
        /\ DOMAIN source = Callers
    BY DEF IInv, Types, TokenTypeOK
  <2>4. CASE w.by = c
    <3>1. source'[c] = [source[c] EXCEPT !.at = "answered", !.answer = p]
      BY <1>1, <2>2, <2>3, <2>4
    <3> QED
      BY <2>3, <3>1
  <2>5. CASE w.by # c
    <3>1. source'[c] = source[c]
      BY <2>2, <2>3, <2>5
    <3> QED
      BY <3>1
  <2> QED
    BY <2>4, <2>5
<1>10. ASSUME NEW w \in wire, IssuerRefuses(w) PROVE w.by = c
  BY <1>10 DEF IssuerRefuses, IssuerAnswers, IInv, Types, TokenTypeOK
<1> QED
  BY <1>8, <1>9, <1>10 DEF IssuerStep

\* The Store is never behind what a call uses: every token a call sends, and all
\* tokens the Source returned, are no newer than what is persisted, whatever the
\* callers, the issuer and a crash do (source.go:73-128).
THEOREM StoreNeverBehind == Spec => []StoreKeepsTheNewest
<1>1. IInv => StoreKeepsTheNewest
  BY DEF IInv, Types, Kept, AtMost, StoreKeepsTheNewest
<1> QED
  BY <1>1, SpecIInv, PTL

\* A call forces at most one rotation, sends at most one request for each attempt
\* and one for the rotation, and has no response open while it waits for a
\* request or when it ended (openStream, codex.go:329-406).
THEOREM CallsAreBounded == Spec => []CallsStayInBounds
<1>1. IInv => CallsStayInBounds
  <2> SUFFICES ASSUME IInv, NEW c \in Callers
               PROVE  /\ call[c].rotations <= 1
                      /\ call[c].sends <= MaxAttempts + call[c].rotations
                      /\ open[c] <= 1
                      /\ call[c].at \in {"token", "refresh", "sent", "backoff", "ended"} => open[c] = 0
    BY DEF CallsStayInBounds, IInv, Types
  <2> QED
    BY BegunFacts, CodexCallsAssumption DEF Bounded, CallRecord
<1> QED
  BY <1>1, SpecIInv, PTL

\* A waiting caller is refused only when the valid refresh token is lost: its
\* request carries what the Store holds, and nobody else is about to save
\* (Source.mu, source.go:73-128).
THEOREM RefusedOnlyForLostTokens == Spec => RefusedOnlyWhenLost
<1> DEFINE A == \A c \in Callers : source[c].at = "sent" /\ source'[c].at = "refused" => ~InReach(issuer.refresh)
<1>1. ASSUME IInv, [Next]_vars, NEW c \in Callers, source[c].at = "sent", source'[c].at = "refused"
      PROVE  ~InReach(issuer.refresh)
  <2>1. PICK w \in wire : IssuerRefuses(w) /\ w.by = c
    BY <1>1, RefusalComesFromIssuer
  <2>2. w.refresh # issuer.refresh /\ w.refresh = store.refresh /\ mu = c
    BY <1>1, <2>1, TokenSourceAssumption DEF IssuerRefuses, IInv, Wire, Kept, Mutex, Holding
  <2>3. \A d \in Callers : source[d].at \notin {"answered", "save"}
    BY <1>1, <2>2 DEF IInv, Mutex, Holding
  <2> QED
    BY <2>2, <2>3 DEF InReach
<1>2. IInv /\ [Next]_vars => [A]_tokenVars
  BY <1>1
<1> QED
  BY <1>2, SpecIInv, PTL DEF Spec, RefusedOnlyWhenLost
=============================================================================
