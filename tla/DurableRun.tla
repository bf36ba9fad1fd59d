----------------------------- MODULE DurableRun -----------------------------
(***************************************************************************)
(* What the Store promises about a run, without tables, versions, leases   *)
(* or clocks: the life of a RunID, the token that lets one worker at a     *)
(* time write, and a log ordered by position.  DBStore implements it       *)
(* (StoreAsRuns).                                                          *)
(***************************************************************************)
EXTENDS Naturals

CONSTANTS
  Runs,      \* run identifiers
  Positions  \* positions in a log, natural numbers

VARIABLES
  phase,  \* run -> "absent", "journal", "open", "ended", "retired" or "gone"
  token,  \* run -> the token a writer must show; 0 when there is none
  log     \* run -> records [position, token]; token 0 is an unfenced record

runVars == <<phase, token, log>>

RunInit ==
  /\ phase = [r \in Runs |-> "absent"]
  /\ token = [r \in Runs |-> 0]
  /\ log = [r \in Runs |-> {}]

\* A workflow run starts, with an owner (token 1) or without one.
Start(r) ==
  /\ phase[r] = "absent"
  /\ phase' = [phase EXCEPT ![r] = "open"]
  /\ \E t \in {0, 1} : token' = [token EXCEPT ![r] = t]
  /\ UNCHANGED log

\* A new owner gets the next token; every earlier one is void from here on.
Grant(r) ==
  /\ phase[r] = "open"
  /\ token' = [token EXCEPT ![r] = @ + 1]
  /\ UNCHANGED <<phase, log>>

\* The log grows at its end only.
Extend(r, t) ==
  \E p \in Positions :
    /\ \A e \in log[r] : e.position < p
    /\ log' = [log EXCEPT ![r] = @ \cup {[position |-> p, token |-> t]}]

\* A fenced record needs an open run and its current token.
AppendWithToken(r) ==
  /\ phase[r] = "open"
  /\ token[r] > 0
  /\ Extend(r, token[r])
  /\ UNCHANGED <<phase, token>>

\* An unfenced record may open a journal, extend one, or join a workflow run
\* that has not been retired.
AppendWithoutToken(r) ==
  /\ phase[r] \in {"absent", "journal", "open", "ended"}
  /\ phase' = [phase EXCEPT ![r] = IF @ = "absent" THEN "journal" ELSE @]
  /\ Extend(r, 0)
  /\ UNCHANGED token

End(r) ==
  /\ phase[r] = "open"
  /\ phase' = [phase EXCEPT ![r] = "ended"]
  /\ UNCHANGED <<token, log>>

\* The RunID is retired, and with it every token.
Retire(r) ==
  /\ phase[r] = "ended"
  /\ phase' = [phase EXCEPT ![r] = "retired"]
  /\ token' = [token EXCEPT ![r] = 0]
  /\ UNCHANGED log

\* Retention: records go from open runs, journals and retired runs.
Trim(r) ==
  /\ phase[r] \in {"open", "journal", "retired"}
  /\ \E kept \in SUBSET log[r] : log' = [log EXCEPT ![r] = kept]
  /\ UNCHANGED <<phase, token>>

\* A journal that lost its last record is forgotten: the RunID is free again.
Forget(r) ==
  /\ phase[r] = "journal"
  /\ phase' = [phase EXCEPT ![r] = "absent"]
  /\ log' = [log EXCEPT ![r] = {}]
  /\ UNCHANGED token

\* A retired run that lost its history is gone: the RunID is never free again.
Bury(r) ==
  /\ phase[r] = "retired"
  /\ phase' = [phase EXCEPT ![r] = "gone"]
  /\ log' = [log EXCEPT ![r] = {}]
  /\ UNCHANGED token

RunNext ==
  \E r \in Runs :
    \/ Start(r)
    \/ Grant(r)
    \/ AppendWithToken(r)
    \/ AppendWithoutToken(r)
    \/ End(r)
    \/ Retire(r)
    \/ Trim(r)
    \/ Forget(r)
    \/ Bury(r)

RunSpec == RunInit /\ [][RunNext]_runVars

=============================================================================
