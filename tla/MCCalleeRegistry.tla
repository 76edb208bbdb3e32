-------------------------- MODULE MCCalleeRegistry --------------------------
(* One call boots, a second finds, displaces or outlives what it booted,   *)
(* and a third observes the result; one of them asks for TEE mode.         *)
EXTENDS CalleeRegistry, TLC

CONSTANTS c1, c2, c3

AllCalls == {c1, c2, c3}
TwoTee == {c2, c3}
TeeSymmetry == Permutations(TwoTee)
=============================================================================
