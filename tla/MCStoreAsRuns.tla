--------------------------- MODULE MCStoreAsRuns ---------------------------
(* DBStore against DurableRun, with the instances of MCDBStore. *)
EXTENDS MCDBStore, StoreAsRuns
=============================================================================
