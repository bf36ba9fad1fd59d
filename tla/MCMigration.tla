---------------------------- MODULE MCMigration ----------------------------
(* Two runs of both kinds in batches of two, full ones and such that are    *)
(* the last; two deployers, so that a step of one falls between the select   *)
(* and the write of the other; one failure and two writes of old or new.     *)
EXTENDS Migration

MCFound == {<<"both", "journal">>}

=============================================================================
