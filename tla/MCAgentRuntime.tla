--------------------------- MODULE MCAgentRuntime --------------------------
(* An agent with a streaming skill that infers and one that neither streams*)
(* nor infers, and requests that reach each gate: a request that is fresh  *)
(* now, one that is fresh later only, one that has not paid and one for a  *)
(* skill the agent does not have.                                          *)
EXTENDS AgentRuntime

Request(n, t, s, paid, stream) ==
  [nonce |-> n, ts |-> t, genuine |-> TRUE, skill |-> s,
   paid |-> paid, valid |-> TRUE, stream |-> stream]

MCNonces == {"n1", "n2", "n3"}
MCSkills == {"summarize", "route"}
MCStreamSkills == {"summarize"}

MCRequests ==
  {Request("n1", 0, "summarize", TRUE, TRUE),
   Request("n2", 2, "route", TRUE, FALSE),
   Request("n3", 0, "route", FALSE, FALSE),
   Request("n3", 0, "translate", TRUE, FALSE)}
=============================================================================
