--------------------------- MODULE MCCodexCalls ---------------------------
(* Two calls share a Source; two generations of tokens, one crash. *)
EXTENDS CodexCalls

=============================================================================
