SPECIFICATION ConsoleSpec
CONSTANTS
  t1 = t1
  t2 = t2
  alice = alice
  bob = bob
  a1 = a1
  a2 = a2
  b1 = b1
  Tabs = {t1, t2}
  Users = {alice, bob}
  Agents = {a1, a2, b1}
  RowOwner <- MCRowOwner
  Carded <- MCCarded
  None = None
  MaxClicks = 4
  MaxFailures = 1
INVARIANTS
  ChallengesGranted
CHECK_DEADLOCK FALSE
