-------------------------- MODULE MCCodexStream ---------------------------
(* Three items of up to two pieces; four pieces of text or parts do not fit. *)
(* Then up to two messages after the answer.                                 *)
EXTENDS CodexTurns

=============================================================================
