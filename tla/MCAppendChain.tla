--------------------------- MODULE MCAppendChain ---------------------------
(* Four concurrent calls of append() on one chain.  The calls are not      *)
(* declared symmetric: a liveness property is checked.                     *)
EXTENDS AppendChain
=============================================================================
