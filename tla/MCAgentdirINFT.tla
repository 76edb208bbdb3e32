--------------------------- MODULE MCAgentdirINFT --------------------------
(* Two tokens, an account, a contract, and a contract owner that may be    *)
(* either of them.                                                         *)
EXTENDS AgentdirINFT
=============================================================================
