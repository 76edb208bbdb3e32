--------------------------- MODULE MCOwnerConsole ---------------------------
(* Two accounts: alice owns two agents, bob one that has no card yet.      *)
EXTENDS OwnerConsole, TLC
CONSTANTS t1, t2, alice, bob, a1, a2, b1
MCRowOwner == (a1 :> alice) @@ (a2 :> alice) @@ (b1 :> bob)
MCCarded == {a1, a2}
Symmetry == Permutations(Tabs)
=============================================================================
