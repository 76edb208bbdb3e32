SPECIFICATION Spec
CONSTANTS
  Nonces = {n1, n2}
  Wallets = {w1}
  Names = {alice, bob}
  Requests = {q1, q2, q3}
  Nil = Nil
  TTL = 1
  MaxTime = 2
  MaxFaults = 1
INVARIANTS
  Exclusive
  TypoKeepsNonce
PROPERTIES
  ImplementsSingleUse
SYMMETRY Symmetry
CHECK_DEADLOCK FALSE
