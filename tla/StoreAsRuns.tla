---------------------------- MODULE StoreAsRuns ----------------------------
(* DBStore implements DurableRun: the refinement mapping. *)
EXTENDS DBStore

\* Where a RunID is in its life, read off its registry and head rows.
PhaseOf(r) ==
  CASE registry[r].kind = "none" -> "absent"
    [] registry[r].kind = "journal" -> "journal"
    [] ActiveWorkflow(r) -> IF heads[r].status \in Live THEN "open" ELSE "ended"
    [] registry[r].kind = "workflow" /\ registry[r].state = "purging" -> "retired"
    [] OTHER -> "gone"

TokenOf(r) == IF HasHead(r) THEN Latest(r).claim ELSE 0

LogOf(r) == {[position |-> e.ordinal, token |-> e.claim] : e \in EventsOf(r)}

Run == INSTANCE DurableRun WITH
         Positions <- 1..MaxOrdinal,
         phase <- [r \in Runs |-> PhaseOf(r)],
         token <- [r \in Runs |-> TokenOf(r)],
         log <- [r \in Runs |-> LogOf(r)]

\* Every behaviour of the Store is one that DurableRun allows: a RunID lives
\* once, only the current token appends fenced records, the log grows at its
\* end, and a retired RunID never opens again.
ImplementsDurableRun == Run!RunSpec

=============================================================================
