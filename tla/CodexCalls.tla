---------------------------- MODULE CodexCalls ----------------------------
(***************************************************************************)
(* models/openai/codex/codex.go: concurrent model calls of one process     *)
(* that share a Source (module TokenSource), from openStream until the     *)
(* stream is closed.  What the stream carries is module CodexStream.       *)
(***************************************************************************)
EXTENDS TokenSource

CONSTANTS
  MaxAttempts,  \* WithMaxAttempts
  MaxCrashes    \* bound on the ends of the process

ASSUME CodexCallsAssumption ==
  /\ MaxAttempts \in Nat \ {0}
  /\ MaxCrashes \in Nat

VARIABLES
  call,     \* caller -> where its Invoke is
  open,     \* caller -> response bodies it did not close
  refused,  \* access tokens the backend does not accept any more
  crashes   \* ends of the process so far

callVars == <<call, open>>
vars == <<tokenVars, call, open, refused, crashes>>

\* What became of a request: a status, or no response.
Statuses == {"ok", "unauthorized", "retry", "fail"}
NoResponse == "error"

\* sends and rotations count requests and forced refreshes, for the properties.
NewCall == [at |-> "new", attempt |-> 0, refreshed |-> FALSE, token |-> 0, got |-> NoResponse,
            sends |-> 0, rotations |-> 0]

Init ==
  /\ TokenInit
  /\ call = [c \in Callers |-> NewCall]
  /\ open = [c \in Callers |-> 0]
  /\ refused = {}
  /\ crashes = 0

Running(c) == call[c].at \notin {"new", "ended"}

\* The response, and the token that was used, are dropped.
CallMoves(c, at) == call' = [call EXCEPT ![c] = [@ EXCEPT !.at = at, !.got = NoResponse, !.token = 0]]

EndedCall == [NewCall EXCEPT !.at = "ended"]

\* Invoke returns: its context is released.
CallEnds(c) ==
  /\ call' = [call EXCEPT ![c] = EndedCall]
  /\ over' = over \ {c}

\* closeResponse
Close(c) == open' = [open EXCEPT ![c] = 0]

-----------------------------------------------------------------------------
(* openStream *)

\* requestAttempt asks the Source for tokens.
NextAttempt(c) ==
  /\ call' = [call EXCEPT ![c] = [@ EXCEPT !.at = "token", !.attempt = call[c].attempt + 1]]
  /\ CallSource(c, "token")

\* The application uses the model when it is logged in.
Begin(c) ==
  /\ call[c].at = "new"
  /\ login.at = "done"
  /\ NextAttempt(c)
  /\ UNCHANGED <<store, mu, over, wire, issuer, due, login, open, refused, crashes>>

SourceFailed(c) ==
  /\ call[c].at \in {"token", "refresh"}
  /\ source[c].at = "failed"
  /\ source' = [source EXCEPT ![c] = IdleCall]
  /\ CallEnds(c)
  /\ UNCHANGED <<store, mu, wire, issuer, due, login, open, refused, crashes>>

\* send: not when the context is done.
Send(c) ==
  /\ call[c].at \in {"token", "refresh"}
  /\ source[c].at = "returned"
  /\ LET sent == [call[c] EXCEPT !.token = source[c].tokens.access,
                                 !.refreshed = @ \/ call[c].at = "refresh"]
     IN call' = [call EXCEPT ![c] = IF c \in over
                                    THEN [sent EXCEPT !.at = "decide", !.got = NoResponse]
                                    ELSE [sent EXCEPT !.at = "sent", !.sends = @ + 1]]
  /\ source' = [source EXCEPT ![c] = IdleCall]
  /\ UNCHANGED <<store, mu, over, wire, issuer, due, login, open, refused, crashes>>

\* The backend answers; 401 says that it does not accept the access token.
Respond(c, status) ==
  /\ call[c].at = "sent"
  /\ (status = "unauthorized") <=> (call[c].token \in refused)
  /\ call' = [call EXCEPT ![c] = [@ EXCEPT !.at = "decide", !.got = status]]
  /\ open' = [open EXCEPT ![c] = @ + 1]
  /\ UNCHANGED <<tokenVars, refused, crashes>>

\* The connection breaks or the context ends.
SendFails(c) ==
  /\ call[c].at = "sent"
  /\ call' = [call EXCEPT ![c] = [@ EXCEPT !.at = "decide", !.got = NoResponse]]
  /\ UNCHANGED <<tokenVars, open, refused, crashes>>

\* (mutant) what refreshAttempt did is forgotten
NeedsRefreshAgain(c) == call[c].got = "unauthorized"

NeedsRefresh(c) == call[c].got = "unauthorized" /\ ~call[c].refreshed

Retryable(c) == call[c].got \in {NoResponse, "retry"}

\* refreshAttempt closes the response and forces a rotation, once in a call.
RefreshAttempt(c) ==
  /\ call[c].at = "decide"
  /\ NeedsRefresh(c)
  /\ Close(c)
  /\ call' = [call EXCEPT ![c] = [@ EXCEPT !.at = "refresh", !.got = NoResponse, !.token = 0,
                                          !.rotations = call[c].rotations + 1]]
  /\ CallSource(c, "refresh")
  /\ UNCHANGED <<store, mu, over, wire, issuer, due, login, refused, crashes>>

Opened(c) ==
  /\ call[c].at = "decide"
  /\ call[c].got = "ok"
  /\ CallMoves(c, "stream")
  /\ UNCHANGED <<tokenVars, open, refused, crashes>>

\* Neither success nor refresh: attemptError, which closes the response, or
\* another attempt after a delay.
AttemptFails(c) ==
  /\ call[c].at = "decide"
  /\ call[c].got # "ok"
  /\ ~NeedsRefresh(c)
  /\ ~Retryable(c) \/ call[c].attempt = MaxAttempts \/ c \in over
  /\ Close(c)
  /\ CallEnds(c)
  /\ UNCHANGED <<store, mu, source, wire, issuer, due, login, refused, crashes>>

BackOff(c) ==
  /\ call[c].at = "decide"
  /\ Retryable(c)
  /\ call[c].attempt < MaxAttempts
  /\ c \notin over
  /\ Close(c)
  /\ CallMoves(c, "backoff")
  /\ UNCHANGED <<tokenVars, refused, crashes>>

\* waitRetry: when both are ready, select takes either.
Retry(c) ==
  /\ call[c].at = "backoff"
  /\ NextAttempt(c)
  /\ UNCHANGED <<store, mu, over, wire, issuer, due, login, open, refused, crashes>>

WaitRetryEnds(c) ==
  /\ call[c].at = "backoff"
  /\ c \in over
  /\ CallEnds(c)
  /\ UNCHANGED <<store, mu, source, wire, issuer, due, login, open, refused, crashes>>

\* execute closes the response whatever consumeStream returns.
StreamEnds(c) ==
  /\ call[c].at = "stream"
  /\ Close(c)
  /\ CallEnds(c)
  /\ UNCHANGED <<store, mu, source, wire, issuer, due, login, refused, crashes>>

CallStep(c) ==
  \/ SourceFailed(c) \/ Send(c) \/ RefreshAttempt(c) \/ Opened(c) \/ AttemptFails(c)
  \/ BackOff(c) \/ Retry(c) \/ WaitRetryEnds(c) \/ StreamEnds(c)

\* The backend stops accepting an access token: it expired or was revoked.
Revoke(g) ==
  /\ g = store.access \/ \E c \in Callers : g = call[c].token
  /\ g \notin refused
  /\ refused' = refused \cup {g}
  /\ UNCHANGED <<tokenVars, call, open, crashes>>

\* The process ends; the application starts it again, with a new Source on the
\* same Store.
Crash ==
  /\ crashes < MaxCrashes
  /\ \E c \in Callers : Running(c)
  /\ crashes' = crashes + 1
  /\ mu' = None
  /\ source' = [c \in Callers |-> IdleCall]
  /\ wire' = {[w EXCEPT !.by = None] : w \in wire}
  /\ call' = [c \in Callers |-> IF Running(c) THEN EndedCall ELSE call[c]]
  /\ open' = [c \in Callers |-> 0]
  /\ over' = {}
  /\ UNCHANGED <<store, issuer, due, login, refused>>

-----------------------------------------------------------------------------

OfTokens == UNCHANGED <<call, open, refused, crashes>>

Next ==
  \/ (LoginStep \/ UserApproves \/ CodeExpires \/ LoginCanceled \/ IssuerStep) /\ OfTokens
  \/ \E c \in Callers :
       \/ (SourceStep(c) \/ GiveUp(c)) /\ OfTokens
       \/ Running(c) /\ ContextEnds(c) /\ OfTokens
       \/ Begin(c) \/ CallStep(c) \/ SendFails(c)
       \/ \E status \in Statuses : Respond(c, status)
  \/ \E g \in 1..MaxTokens : (ComesDue(g) /\ OfTokens) \/ Revoke(g)
  \/ Crash

Spec == Init /\ [][Next]_vars

\* Everything the process does by itself goes on; what it waits for ends: a
\* request by its timeout (WithRequestTimeout, and for a model call
\* WithTimeout), the device code by its expiry.  Nothing is assumed of the
\* issuer, the backend or the user.
Fairness ==
  /\ WF_vars(LoginStep /\ OfTokens)
  /\ WF_vars(CodeExpires /\ OfTokens)
  /\ \A c \in Callers :
       /\ WF_vars(SourceStep(c) /\ OfTokens)
       /\ WF_vars(GiveUp(c) /\ OfTokens)
       /\ WF_vars(CallStep(c))
       /\ WF_vars(SendFails(c))

FairSpec == Spec /\ Fairness

-----------------------------------------------------------------------------

CallStates == {"new", "token", "refresh", "sent", "decide", "backoff", "stream", "ended"}

CallTypeOK ==
  /\ call \in [Callers -> [at : CallStates, attempt : 0..MaxAttempts, refreshed : BOOLEAN,
                           token : 0..MaxTokens, got : Statuses \cup {NoResponse},
                           sends : Nat, rotations : Nat]]
  /\ open \in [Callers -> Nat]
  /\ refused \subseteq 1..MaxTokens
  /\ crashes \in 0..MaxCrashes

\* The Store is never behind what a call uses: a rotated token is persisted
\* before anyone is given it, and no other call overwrites it with older ones
\* afterwards, also when the process ends (source.go:73-128;
\* TestSourceSerializesConcurrentRefresh looks at one interleaving).
StoreKeepsTheNewest ==
  /\ TokenTypeOK
  /\ \A c \in Callers :
       /\ call[c].token <= store.access
       /\ source[c].at = "returned" =>
            /\ source[c].tokens.access <= store.access
            /\ source[c].tokens.refresh <= store.refresh

\* A call forces at most one rotation however often it meets a 401, the
\* rotation does not use up an attempt, and no response stays open while
\* another request is under way or when the call ended (openStream,
\* codex.go:329-406; README.md:127).
CallsStayInBounds ==
  /\ CallTypeOK
  /\ \A c \in Callers :
       /\ call[c].rotations <= 1
       /\ call[c].sends <= MaxAttempts + call[c].rotations
       /\ open[c] <= 1
       /\ call[c].at \in {"token", "refresh", "sent", "backoff", "ended"} => open[c] = 0

\* Every login and every call ends, whatever the issuer, the backend and the
\* user do: no poll outlives the device code, no caller waits for the mutex
\* forever, and refreshes and attempts do not follow each other without end.
EverythingEnds ==
  /\ (login.at # "start") ~> (login.at \in {"done", "failed"})
  /\ \A c \in Callers : Running(c) ~> ~Running(c)
=============================================================================
