SPECIFICATION Spec
CONSTANTS
  c1 = c1
  c2 = c2
  r1 = r1
  r2 = r2
  w = w
  p = p
  t1 = t1
  t2 = t2
  t3 = t3
  eth = eth
  one = one
  less = less
  Nil = Nil
  Clients = {c1, c2}
  Payers = {c1}
  SkillNames = {"route", "work", "free"}
  Recipients = {eth}
  Amounts = {one, less}
  SettleArgs <- MCSettleArgs
  ByHand <- MCByHand
  Agents = {r1, r2, w, p}
  Tags = {t1, t2, t3}
  Offers <- MCOffers
  Table <- MCTable
  Priced = {p}
  Payee <- MCPayee
  Price <- MCPrice
  Plans <- MCPlans
  MaxCalls = 2
INVARIANTS
  TraceIsReal
  WithinBudget
  NothingForgotten
  ServedShowsReceipt
  PaidHasReceipt
PROPERTIES
  LoopsReturn
CHECK_DEADLOCK FALSE
