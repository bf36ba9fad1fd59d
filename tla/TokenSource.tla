---------------------------- MODULE TokenSource ----------------------------
(***************************************************************************)
(* models/openai/codexauth: the credentials of one account.  A device      *)
(* login obtains them, a Source in one process loads, rotates and saves    *)
(* them for its callers, and the issuer voids a refresh token when it      *)
(* rotates it.                                                             *)
(*                                                                         *)
(* The issuer, the application's Store and the network are external: a     *)
(* request may be handled late, when its sender no longer waits, and the   *)
(* answer may leave out what did not change.                               *)
(***************************************************************************)
EXTENDS Integers, FiniteSets

CONSTANTS
  Callers,      \* goroutines that use the Source
  MaxTokens     \* bound on the generations of tokens the issuer gives out

\* Nobody: the mutex is free, or a request that nobody waits for.
None == "none"

ASSUME TokenSourceAssumption ==
  /\ MaxTokens \in Nat \ {0}
  /\ None \notin Callers

VARIABLES
  store,    \* what the Store holds
  mu,       \* the caller that holds Source.mu
  source,   \* caller -> its Token or Refresh call
  over,     \* callers whose context is done
  wire,     \* refresh requests the issuer has not handled
  issuer,   \* the refresh token that is valid, and the last generation given out
  due,      \* access tokens within the refresh window, or past it
  login     \* the device login and what the issuer knows of it

sourceVars == <<mu, source, wire>>
tokenVars == <<store, mu, source, over, wire, issuer, due, login>>

\* Tokens, and the payload of a response: generations 1, 2, ... of access and
\* refresh tokens, 0 is the empty string.  The id token has no generation: one
\* that does not decode, or is missing, makes a response unusable.
Tokens == [access : 0..MaxTokens, refresh : 0..MaxTokens]
NoTokens == [access |-> 0, refresh |-> 0]

IdleCall == [at |-> "idle", op |-> "token", tokens |-> NoTokens, answer |-> NoTokens]
NewLogin == [at |-> "start", approved |-> FALSE, expired |-> FALSE, over |-> FALSE]

TokenInit ==
  /\ store = NoTokens
  /\ mu = None
  /\ source = [c \in Callers |-> IdleCall]
  /\ over = {}
  /\ wire = {}
  /\ issuer = [refresh |-> 0, last |-> 0]
  /\ due = {}
  /\ login = NewLogin

-----------------------------------------------------------------------------
(* mergeTokens *)

\* What a response changes; the rest is kept.
Merged(current, payload) ==
  [access |-> IF payload.access # 0 THEN payload.access ELSE current.access,
   refresh |-> IF payload.refresh # 0 THEN payload.refresh ELSE current.refresh]

\* Nothing is missing.
Complete(tokens) == tokens.access # 0 /\ tokens.refresh # 0

\* What an issuer may answer, with tokens of generation g.
Responses(g) == [access : {0, g}, refresh : {0, g}]

-----------------------------------------------------------------------------
(* Start and Wait *)

LoginMoves(at) == login' = [login EXCEPT !.at = at]

\* post, of a login: the request is sent unless its context is done.
LoginPost(done, at) == LoginMoves(IF done THEN "failed" ELSE at)

Start ==
  /\ login.at = "start"
  /\ \/ ~login.over /\ LoginMoves("poll")
     \/ LoginMoves("failed")
  /\ UNCHANGED <<store, mu, source, over, wire, issuer, due>>

\* (mutant) a poll that only the caller's context ends
PollOutlivingCode ==
  /\ login.at = "poll"
  /\ LoginPost(login.over, "polling")
  /\ UNCHANGED <<store, mu, source, over, wire, issuer, due>>

Poll ==
  /\ login.at = "poll"
  /\ LoginPost(login.over \/ login.expired, "polling")
  /\ UNCHANGED <<store, mu, source, over, wire, issuer, due>>

\* The issuer's answer to a poll; 403 and 404 mean that the user did not yet
\* authorize the code.  Anything that is no such answer ends the login.
PollReturns ==
  /\ login.at = "polling"
  /\ \/ LoginMoves("failed")
     \/ login.approved /\ LoginMoves("exchange")
     \/ ~login.approved /\ LoginMoves("pending")
  /\ UNCHANGED <<store, mu, source, over, wire, issuer, due>>

\* waitForPoll: when the timer fired and the context is done, select takes
\* either.
PollTimerFires ==
  /\ login.at = "pending"
  /\ LoginMoves("poll")
  /\ UNCHANGED <<store, mu, source, over, wire, issuer, due>>

WaitIsCanceled ==
  /\ login.at = "pending"
  /\ login.over \/ login.expired
  /\ LoginMoves("failed")
  /\ UNCHANGED <<store, mu, source, over, wire, issuer, due>>

\* The exchange runs under the caller's context: an authorization that came
\* in time may be exchanged after the device code expired.
Exchange ==
  /\ login.at = "exchange"
  /\ LoginPost(login.over, "exchanging")
  /\ UNCHANGED <<store, mu, source, over, wire, issuer, due>>

\* The answer to the exchange; the application saves the tokens Wait returns.
ExchangeReturns ==
  /\ login.at = "exchanging"
  /\ \/ /\ LoginMoves("failed")
        /\ UNCHANGED <<store, issuer>>
     \/ \E p \in Responses(1) :
          /\ Complete(Merged(NoTokens, p))
          /\ store' = Merged(NoTokens, p)
          /\ issuer' = [refresh |-> 1, last |-> 1]
          /\ login' = [NewLogin EXCEPT !.at = "done"]
  /\ UNCHANGED <<mu, source, over, wire, due>>

\* The user authorizes the code, the code expires, the application cancels.
UserApproves ==
  /\ login.at \notin {"start", "done", "failed"}
  /\ ~login.approved
  /\ login' = [login EXCEPT !.approved = TRUE]
  /\ UNCHANGED <<store, mu, source, over, wire, issuer, due>>

CodeExpires ==
  /\ login.at \notin {"start", "done", "failed"}
  /\ ~login.expired
  /\ login' = [login EXCEPT !.expired = TRUE]
  /\ UNCHANGED <<store, mu, source, over, wire, issuer, due>>

LoginCanceled ==
  /\ login.at \notin {"done", "failed"}
  /\ ~login.over
  /\ login' = [login EXCEPT !.over = TRUE]
  /\ UNCHANGED <<store, mu, source, over, wire, issuer, due>>

LoginStep == \/ Start \/ Poll \/ PollReturns \/ PollTimerFires \/ WaitIsCanceled
             \/ Exchange \/ ExchangeReturns

-----------------------------------------------------------------------------
(* Source.Token and Source.Refresh *)

SourceMoves(c, at) == source' = [source EXCEPT ![c].at = at]

\* The call returns tokens, or fails, and gives the mutex back.
Returns(c, tokens) ==
  /\ mu' = None
  /\ source' = [source EXCEPT ![c] = [@ EXCEPT !.at = "returned", !.tokens = tokens, !.answer = NoTokens]]

SourceFails(c) ==
  /\ mu' = None
  /\ source' = [source EXCEPT ![c] = [@ EXCEPT !.at = "failed", !.tokens = NoTokens, !.answer = NoTokens]]

CallSource(c, op) ==
  source' = [source EXCEPT ![c] = [IdleCall EXCEPT !.at = "lock", !.op = op]]

\* (mutant) the mutex is not taken
EntersUnlocked(c) ==
  /\ source[c].at = "lock"
  /\ mu' = c
  /\ SourceMoves(c, "load")
  /\ UNCHANGED <<store, over, wire, issuer, due, login>>

\* Lock does not look at the context.
Lock(c) ==
  /\ source[c].at = "lock"
  /\ mu = None
  /\ mu' = c
  /\ SourceMoves(c, "load")
  /\ UNCHANGED <<store, over, wire, issuer, due, login>>

\* Token rotates only when the access token is about to expire.
Due(tokens) == tokens.access \in due

Load(c) ==
  /\ source[c].at = "load"
  /\ \/ SourceFails(c)
     \/ /\ store.access # 0
        /\ IF source[c].op = "token" /\ ~Due(store)
           THEN Returns(c, store)
           ELSE /\ source' = [source EXCEPT ![c] = [@ EXCEPT !.at = "post", !.tokens = store]]
                /\ UNCHANGED mu
  /\ UNCHANGED <<store, over, wire, issuer, due, login>>

Request(c) == [by |-> c, refresh |-> source[c].tokens.refresh]

\* Client.Refresh sends the refresh token; not when the context is done.
Post(c) ==
  /\ source[c].at = "post"
  /\ IF c \in over
     THEN SourceFails(c) /\ UNCHANGED wire
     ELSE /\ wire' = wire \cup {Request(c)}
          /\ SourceMoves(c, "sent")
          /\ UNCHANGED mu
  /\ UNCHANGED <<store, over, issuer, due, login>>

\* The request times out, its context ends or the connection breaks: nobody
\* waits for it any more, the issuer may handle it all the same.
GiveUp(c) ==
  /\ source[c].at = "sent"
  /\ SourceFails(c)
  /\ wire' = {IF w.by = c THEN [w EXCEPT !.by = None] ELSE w : w \in wire}
  /\ UNCHANGED <<store, over, issuer, due, login>>

\* The issuer rotates the refresh token it was sent if it still is the valid
\* one, and refuses every other.
Rotates(w, p) ==
  /\ w.refresh = issuer.refresh
  /\ IF p.refresh # 0 \/ p.access # 0
     THEN /\ issuer.last < MaxTokens
          /\ issuer' = [refresh |-> IF p.refresh # 0 THEN p.refresh ELSE issuer.refresh,
                        last |-> issuer.last + 1]
     ELSE UNCHANGED issuer

IssuerAnswers(w, at, p) ==
  IF w.by = None THEN UNCHANGED source
  ELSE source' = [source EXCEPT ![w.by] = [@ EXCEPT !.at = at, !.answer = p]]

IssuerRotates(w) ==
  /\ w \in wire
  /\ wire' = wire \ {w}
  /\ \E p \in Responses(issuer.last + 1) : Rotates(w, p) /\ IssuerAnswers(w, "answered", p)
  /\ UNCHANGED <<store, mu, over, due, login>>

IssuerRefuses(w) ==
  /\ w \in wire
  /\ w.refresh # issuer.refresh
  /\ wire' = wire \ {w}
  /\ IssuerAnswers(w, "refused", NoTokens)
  /\ UNCHANGED <<store, mu, over, issuer, due, login>>

\* Anything but a success ends the call.
RefusalReturns(c) ==
  /\ source[c].at = "refused"
  /\ SourceFails(c)
  /\ UNCHANGED <<store, over, wire, issuer, due, login>>

\* (mutant) the replacement is returned although it was not saved
MergeUnsaved(c) ==
  /\ source[c].at = "answered"
  /\ Complete(Merged(source[c].tokens, source[c].answer))
  /\ Returns(c, Merged(source[c].tokens, source[c].answer))
  /\ UNCHANGED <<store, over, wire, issuer, due, login>>

\* decodeResponse and mergeTokens: the body may be unreadable, or its id token
\* not decode; the tokens it carries are dropped then, rotated or not.
Merge(c) ==
  /\ source[c].at = "answered"
  /\ \/ SourceFails(c)
     \/ /\ source[c].answer # NoTokens
        /\ Complete(Merged(source[c].tokens, source[c].answer))
        /\ source' = [source EXCEPT ![c] = [@ EXCEPT !.at = "save", !.answer = NoTokens,
                                !.tokens = Merged(source[c].tokens, source[c].answer)]]
        /\ UNCHANGED mu
  /\ UNCHANGED <<store, over, wire, issuer, due, login>>

\* A Save that fails may have replaced the tokens or not.
Save(c) ==
  /\ source[c].at = "save"
  /\ \/ store' = source[c].tokens /\ Returns(c, source[c].tokens)
     \/ store' \in {store, source[c].tokens} /\ SourceFails(c)
  /\ UNCHANGED <<over, wire, issuer, due, login>>

SourceStep(c) ==
  \/ Lock(c) \/ Load(c) \/ Post(c) \/ RefusalReturns(c) \/ Merge(c) \/ Save(c)

IssuerStep == \E w \in wire : IssuerRotates(w) \/ IssuerRefuses(w)

\* Time passes: an access token comes within the refresh window, unless its
\* expiry is unknown.
ComesDue(g) ==
  /\ g = store.access
  /\ g \notin due
  /\ due' = due \cup {g}
  /\ UNCHANGED <<store, mu, source, over, wire, issuer, login>>

\* The context of a caller ends.
ContextEnds(c) ==
  /\ c \notin over
  /\ over' = over \cup {c}
  /\ UNCHANGED <<store, mu, source, wire, issuer, due, login>>

-----------------------------------------------------------------------------

LoginStates == {"start", "poll", "polling", "pending", "exchange", "exchanging", "done", "failed"}
SourceStates == {"idle", "lock", "load", "post", "sent", "answered", "refused", "save", "returned", "failed"}

TokenTypeOK ==
  /\ store \in Tokens
  /\ mu \in Callers \cup {None}
  /\ source \in [Callers -> [at : SourceStates, op : {"token", "refresh"},
                             tokens : Tokens, answer : Tokens]]
  /\ over \subseteq Callers
  /\ wire \subseteq [by : Callers \cup {None}, refresh : 0..MaxTokens]
  /\ issuer \in [refresh : 0..MaxTokens, last : 0..MaxTokens]
  /\ due \subseteq 1..MaxTokens
  /\ login \in [at : LoginStates, approved : BOOLEAN, expired : BOOLEAN, over : BOOLEAN]

\* Where the valid refresh token can be found: in the Store, or with the
\* caller that is about to save it.
InReach(refresh) ==
  \/ store.refresh = refresh
  \/ \E c \in Callers : /\ source[c].at \in {"answered", "save"}
                       /\ refresh \in {source[c].tokens.refresh, source[c].answer.refresh}

\* The issuer refuses a caller that still waits only when the valid refresh
\* token is lost - its answer was lost or unusable, or could not be saved.
\* One process never makes its own rotation void by presenting a token that
\* another of its calls has rotated already (Source.mu, source.go:73-128).
RefusedOnlyWhenLost ==
  [][\A c \in Callers :
       source[c].at = "sent" /\ source'[c].at = "refused" => ~InReach(issuer.refresh)]_tokenVars

=============================================================================
