---------------------------- MODULE MCDirectory -----------------------------
(* Four commands, of any kind, for one handle.  Its agents serve calls of  *)
(* one skill, good and bad; queries ask for that skill, for another that   *)
(* is listed, or for one that is not.                                      *)
EXTENDS Directory, TLC
CONSTANTS s1, s2, s3
MCAttested == [skill : {s1}, ok : BOOLEAN]
Symmetry == Permutations(Procs) \cup Permutations(Names)
=============================================================================
