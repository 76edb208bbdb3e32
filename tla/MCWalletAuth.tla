---------------------------- MODULE MCWalletAuth ---------------------------
(* Three requests that race for two nonces, with a good or a bad signature *)
(* and with the issued message or another.                                 *)
EXTENDS WalletAuth, TLC

(* Requests are alike, and so are nonces; no liveness is checked.          *)
Symmetry == Permutations(Requests) \cup Permutations(Nonces)
=============================================================================
