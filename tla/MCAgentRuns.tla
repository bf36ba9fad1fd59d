---------------------------- MODULE MCAgentRuns ----------------------------
(* Plans of one and two steps, in versions that grow, repeat and go back,   *)
(* one plan for each way a plan can be refused, and a decision for each     *)
(* check of Decision.validate.  Three children, of which two may run at once. *)
EXTENDS AgentRuns

Step(i, a, s) == [id |-> i, agent |-> a, status |-> s]
P(v, steps) == [version |-> v, steps |-> steps]

MCPlans == {
  P(1, <<Step("a", "x", "")>>),
  P(1, <<Step("a", "x", "pending"), Step("b", "x", "")>>),
  P(2, <<Step("a", "x", ""), Step("b", "x", "")>>),
  P(3, <<Step("b", "x", "pending")>>),
  P(0, <<Step("a", "x", "")>>),
  P(2, <<>>),
  P(4, <<Step("a", "x", ""), Step("a", "x", "")>>),
  P(4, <<Step("a", "gone", "")>>),
  P(4, <<Step("", "x", "")>>),
  P(4, <<Step("a", "x", "completed")>>)}

D(k, c, q, r) == [kind |-> k, child |-> c, request |-> q, response |-> r]

MCDecisions == {
  D("delegate", "x", 1, FALSE), D("delegate", "y", 2, FALSE), D("delegate", "x", 2, FALSE),
  D("delegate", "gone", 1, FALSE), D("delegate", "", 1, FALSE), D("delegate", "x", 1, TRUE),
  D("final", "", 0, TRUE), D("final", "", 0, FALSE), D("final", "x", 0, TRUE),
  D("pause", "", 0, FALSE)}

MCChildren == <<"x", "y", "z">>
MCSequence == <<"x", "y", "x">>

=============================================================================
