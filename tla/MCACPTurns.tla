----------------------------- MODULE MCACPTurns -----------------------------
(* Two Invokes, two sessions, and one request for each way promptContent goes. *)
EXTENDS ACPTurns, TLC

Part(kind, uri) == [kind |-> kind, uri |-> uri]
A(uri) == Part("artifact", uri)

MCRequests == {
  [messages |-> << <<Part("text", "")>>, <<A("u")>> >>, artifacts |-> <<A("u"), A("v")>>],
  [messages |-> << <<Part("text", "")>> >>, artifacts |-> <<A("")>>],
  [messages |-> << <<Part("tool", "")>> >>, artifacts |-> <<>>]}

Symmetry == Permutations(Callers) \cup Permutations(Sessions)

=============================================================================
