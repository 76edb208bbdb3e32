SPECIFICATION Spec
CONSTANTS
  Accounts = {eoa}
  Contracts = {wallet}
  Roots = {r1}
  Keys = {k1}
  Uris = {u1}
  Zero = Zero
  MaxTokens = 2
  MaxEvents = 8
  MaxDepth = 2
INVARIANTS
  LogReplaysState
  EventHistory
CHECK_DEADLOCK FALSE
