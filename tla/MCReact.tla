------------------------------- MODULE MCReact -------------------------------
(* Two direct tools' worth of calls around an invokable one, an unknown name, *)
(* and one response of each kind normalizeTurn tells apart.                   *)
EXTENDS React

Call(i, n) == [id |-> i, name |-> n]
Says(intent, role, parts, calls) == [intent |-> intent, role |-> role, parts |-> parts, calls |-> calls]

MCResponses == {
  Says("final", "assistant", TRUE, <<>>),
  Says("final", "", FALSE, <<>>),
  Says("final", "assistant", TRUE, <<Call(1, "direct")>>),
  Says("tools", "assistant", FALSE, <<Call(1, "direct"), Call(2, "direct")>>),
  Says("tools", "assistant", TRUE, <<Call(2, "direct"), Call(1, "child"), Call(3, "direct")>>),
  Says("tools", "assistant", TRUE, <<Call(1, "unknown")>>),
  Says("tools", "assistant", TRUE, <<Call(1, "child"), Call(1, "direct")>>),
  Says("tools", "", TRUE, <<Call(1, "child")>>),
  Says("repair", "assistant", TRUE, <<>>),
  Says("refusal", "assistant", TRUE, <<>>)}

=============================================================================
