------------------------------- MODULE Swarm -------------------------------
(***************************************************************************)
(* Agents that call agents: clients and routers send skill requests with   *)
(* callSkill (packages/agent/src/caller.ts), each agent serves one request *)
(* at a time (agent.ts), and the skill `route` (skills.ts) forwards a      *)
(* request to the agent its routing table names for the request's tag.     *)
(*                                                                         *)
(* A router calls from inside its handler, over the client its own loop    *)
(* reads from.  While a hop waits it reads the inbox in place of the loop, *)
(* and drops what is not its answer.  Peers are honest; time is abstract:  *)
(* a call may time out whenever it waits, a request may be stale when it   *)
(* is taken.  Attestation after an answer is in AgentRuntime.              *)
(***************************************************************************)
EXTENDS Settlement, Sequences, FiniteSets

CONSTANTS
  Agents,
  Tags,
  Offers,       \* the skills each agent has registered
  Table,        \* the routing table of each agent: tag to [dest, skill]
  Priced,       \* agents that require payment
  Payee,        \* the address an agent expects payments to, or Nil: none configured
  Price,        \* the price of each skill of an agent, or Nil: not in its definition
  Plans,        \* the calls each client may make
  MaxCalls      \* bound: calls of all clients

Nodes == Clients \cup Agents
Routes == [dest : Agents, skill : SkillNames]
(* `path`: the tags of the nested inputs, outermost first; none if the     *)
(* skill is not route.  `budget`: hopBudget.                               *)
Calls == [dest : Agents, skill : SkillNames, path : Seq(Tags), budget : Nat]

ASSUME SwarmAssumption ==
  /\ Clients \cap Agents = {}
  /\ "route" \in SkillNames
  /\ Offers \in [Agents -> SUBSET SkillNames]
  /\ \A a \in Agents : DOMAIN Table[a] \subseteq Tags
                       /\ \A t \in DOMAIN Table[a] : Table[a][t] \in Routes
  /\ Priced \subseteq Agents
  /\ Payee \in [Agents -> Recipients \cup {Nil}]
  /\ Price \in [Agents -> [SkillNames -> Amounts \cup {Nil}]]
  /\ Plans \in [Clients -> SUBSET Calls]
  /\ MaxCalls \in Nat

VARIABLES
  requests,   \* history: every request sent, and how it fared
  inbox,      \* the queue of each node: ids of requests, and responses
  serving,    \* the request an agent's handler works on, or 0
  calling     \* the request whose answer the node's callSkill awaits, or 0

callVars == <<requests, inbox, serving, calling>>
vars == <<payVars, callVars>>

(* `path` are the tags left in the nested input; `parent` is the request   *)
(* whose handler sent this one; `fate` is what became of it at its callee, *)
(* `outcome` and `output` what its caller made of the answer.              *)
Ids == 1 .. Len(requests)
NewRequest(from, to, skill, path, budget, receipt, parent) ==
  [from |-> from, to |-> to, skill |-> skill, path |-> path, budget |-> budget,
   receipt |-> receipt, parent |-> parent,
   fate |-> "sent", outcome |-> "open", output |-> Nil]

(* RouteHop, and the output of a skill: who produced it, along which trace.*)
Hop(i) == [from |-> requests[i].from, to |-> requests[i].to, skill |-> requests[i].skill]
Output(by, trace) == [by |-> by, trace |-> trace]

RequestMsg(i) == [type |-> "req", id |-> i]
ResponseMsg(i, output) == [type |-> "res", id |-> i, output |-> output]

Init ==
  /\ PayInit
  /\ requests = <<>>
  /\ inbox = [n \in Nodes |-> <<>>]
  /\ serving = [a \in Agents |-> 0]
  /\ calling = [n \in Nodes |-> 0]

-----------------------------------------------------------------------------
Popped(n) == [inbox EXCEPT ![n] = Tail(@)]
Pushed(box, n, msg) == [box EXCEPT ![n] = Append(@, msg)]

(* replyOk and replyErr: the answer of request i joins its caller's queue. *)
Reply(box, i, output) == inbox' = Pushed(box, requests[i].from, ResponseMsg(i, output))

(* What agent a expects of the receipt of request i.  For a skill without  *)
(* a price, whatever amount the receipt says is right.                     *)
Expected(a, i) ==
  LET price == Price[a][requests[i].skill]
  IN  [payer |-> requests[i].from, recipient |-> Payee[a], skill |-> requests[i].skill,
       amount |-> IF price = Nil THEN requests[i].receipt.amount ELSE price]

(* Mutation: any receipt of the caller pays for any skill.                 *)
PaidAnySkill(a, i) ==
  a \in Priced =>
    /\ requests[i].receipt # Nil /\ Payee[a] # Nil
    /\ ReceiptFits(requests[i].receipt,
                   [Expected(a, i) EXCEPT !.skill = requests[i].receipt.skill])

(* checkPayment: what the receipt says and who signed it, not whether its  *)
(* transfer happened, nor whether it was shown before.                     *)
Paid(a, i) ==
  a \in Priced =>
    /\ requests[i].receipt # Nil /\ Payee[a] # Nil
    /\ ReceiptFits(requests[i].receipt, Expected(a, i))

(* The gates of handleSkillRequest, and what the route handler throws on.  *)
Admissible(a, i) ==
  /\ requests[i].skill \in Offers[a]
  /\ Paid(a, i)
  /\ requests[i].skill = "route" =>
       /\ requests[i].path # <<>>
       /\ requests[i].budget > 0
       /\ Head(requests[i].path) \in DOMAIN Table[a]

(* Mutation: the nested input keeps the budget.                            *)
ForwardedBudgetKept(i) == requests[i].budget

(* forwardedInput: a router downstream gets the decremented budget.        *)
ForwardedBudget(i) == requests[i].budget - 1

(* callSkill of the route handler: the hop carries no payment.             *)
HopRequest(a, i) ==
  LET r == Table[a][Head(requests[i].path)]
  IN  NewRequest(a, r.dest, r.skill, Tail(requests[i].path), ForwardedBudget(i), Nil, i)

(* Mutation: the loop does not wait for the handler.                       *)
IdleAlways(a) == calling[a] = 0

(* The loop of agent a is at its recvOnce.                                 *)
Idle(a) == serving[a] = 0

(* The loop takes a request that a gate refuses, that has waited for too   *)
(* long, or on which the handler throws at once: an error is the answer.   *)
Refuse(a) ==
  /\ Idle(a) /\ inbox[a] # <<>> /\ Head(inbox[a]).type = "req"
  /\ LET i == Head(inbox[a]).id
     IN  /\ requests' = [requests EXCEPT ![i].fate = "answered"]
         /\ Reply(Popped(a), i, Nil)
  /\ UNCHANGED <<payVars, serving, calling>>

(* It takes a request for a skill of its own ...                           *)
Serve(a) ==
  /\ Idle(a) /\ inbox[a] # <<>> /\ Head(inbox[a]).type = "req"
  /\ LET i == Head(inbox[a]).id
     IN  /\ Admissible(a, i) /\ requests[i].skill # "route"
         /\ requests' = [requests EXCEPT ![i].fate = "served"]
         /\ serving' = [serving EXCEPT ![a] = i]
  /\ inbox' = Popped(a)
  /\ UNCHANGED <<payVars, calling>>

(* ... or one to forward.                                                  *)
Route(a) ==
  /\ Idle(a) /\ inbox[a] # <<>> /\ Head(inbox[a]).type = "req"
  /\ LET i == Head(inbox[a]).id
         hop == HopRequest(a, i)
         k == Len(requests) + 1
     IN  /\ Admissible(a, i) /\ requests[i].skill = "route"
         /\ requests' = Append([requests EXCEPT ![i].fate = "served"], hop)
         /\ inbox' = Pushed(Popped(a), hop.to, RequestMsg(k))
         /\ serving' = [serving EXCEPT ![a] = i]
         /\ calling' = [calling EXCEPT ![a] = k]
  /\ UNCHANGED payVars

(* A response that reaches the loop is nothing to it.                      *)
Ignore(a) ==
  /\ Idle(a) /\ inbox[a] # <<>> /\ Head(inbox[a]).type = "res"
  /\ inbox' = Popped(a)
  /\ UNCHANGED <<payVars, requests, serving, calling>>

(* The handler returns, or throws.                                         *)
Return(a) ==
  /\ ~Idle(a) /\ calling[a] = 0
  /\ LET i == serving[a]
     IN  /\ requests' = [requests EXCEPT ![i].fate = "answered"]
         /\ Reply(inbox, i, Output(a, <<>>)) \/ Reply(inbox, i, Nil)
  /\ serving' = [serving EXCEPT ![a] = 0]
  /\ UNCHANGED <<payVars, calling>>

-----------------------------------------------------------------------------
(* Mutation: the first response is taken for the answer.                   *)
MineAnyResponse(n) == Head(inbox[n]).type = "res"

(* callSkill of node n reads the response to its own request.              *)
Mine(n) == Head(inbox[n]).type = "res" /\ Head(inbox[n]).id = calling[n]

Waits(n) == calling[n] # 0

(* Anything else it reads is dropped.  The route handler passes no         *)
(* onForeignMessage, so a request goes the same way.                       *)
Drop(n) ==
  /\ Waits(n) /\ inbox[n] # <<>> /\ ~Mine(n)
  /\ inbox' = Popped(n)
  /\ requests' = IF Head(inbox[n]).type = "req"
                 THEN [requests EXCEPT ![Head(inbox[n]).id].fate = "dropped"]
                 ELSE requests
  /\ UNCHANGED <<payVars, serving, calling>>

Ended(k, output) ==
  [requests EXCEPT ![k].outcome = IF output = Nil THEN "failed" ELSE "ok",
                   ![k].output = output]

(* The hop has its answer, which the router splices behind its own hop; a  *)
(* failed hop fails the request.                                           *)
HopReturns(a) ==
  /\ Waits(a) /\ inbox[a] # <<>> /\ Mine(a)
  /\ LET i == serving[a]
         k == calling[a]
         out == Head(inbox[a]).output
     IN  /\ requests' = [Ended(k, out) EXCEPT ![i].fate = "answered"]
         /\ Reply(Popped(a), i,
                  IF out = Nil THEN Nil ELSE Output(out.by, <<Hop(k)>> \o out.trace))
  /\ serving' = [serving EXCEPT ![a] = 0]
  /\ calling' = [calling EXCEPT ![a] = 0]
  /\ UNCHANGED payVars

(* Mutation: the hop has no deadline of its own.                           *)
HopWaits(a) == FALSE /\ UNCHANGED vars

HopTimesOut(a) ==
  /\ Waits(a)
  /\ LET i == serving[a]
     IN  /\ requests' = [Ended(calling[a], Nil) EXCEPT ![i].fate = "answered"]
         /\ Reply(inbox, i, Nil)
  /\ serving' = [serving EXCEPT ![a] = 0]
  /\ calling' = [calling EXCEPT ![a] = 0]
  /\ UNCHANGED payVars

-----------------------------------------------------------------------------
CallsOf(c) == {i \in Ids : requests[i].from = c}

(* A client that pays settles before its first call ...                    *)
Pay(c) == CallsOf(c) = {} /\ Settle(c) /\ UNCHANGED callVars

(* ... does not call if that throws, and shows with a call its receipt, or *)
(* one that was signed by hand, or none.  Only agents that require payment *)
(* look at it, so the others are shown none here.                          *)
Held(c) == ByHand \cup (IF pay[c] = "receipt" THEN {Receipt(c)} ELSE {})
Shown(c, a) == {Nil} \cup (IF a \in Priced THEN Held(c) ELSE {})

Call(c) ==
  /\ ~Waits(c)
  /\ pay[c] \in {"unpaid", "receipt"}
  /\ Cardinality({i \in Ids : requests[i].parent = 0}) < MaxCalls
  /\ \E q \in Plans[c] : \E receipt \in Shown(c, q.dest) :
       /\ requests' = Append(requests, NewRequest(c, q.dest, q.skill, q.path, q.budget, receipt, 0))
       /\ inbox' = Pushed(inbox, q.dest, RequestMsg(Len(requests) + 1))
  /\ calling' = [calling EXCEPT ![c] = Len(requests) + 1]
  /\ UNCHANGED <<payVars, serving>>

CallReturns(c) ==
  /\ Waits(c) /\ inbox[c] # <<>> /\ Mine(c)
  /\ requests' = Ended(calling[c], Head(inbox[c]).output)
  /\ inbox' = Popped(c)
  /\ calling' = [calling EXCEPT ![c] = 0]
  /\ UNCHANGED <<payVars, serving>>

CallTimesOut(c) ==
  /\ Waits(c)
  /\ requests' = Ended(calling[c], Nil)
  /\ calling' = [calling EXCEPT ![c] = 0]
  /\ UNCHANGED <<payVars, inbox, serving>>

-----------------------------------------------------------------------------
Loop(a) == Refuse(a) \/ Serve(a) \/ Route(a) \/ Ignore(a) \/ Return(a)
HopStep(a) == Drop(a) \/ HopReturns(a) \/ HopTimesOut(a)
ClientStep(c) == Call(c) \/ Drop(c) \/ CallReturns(c) \/ CallTimesOut(c)

Next ==
  \/ \E a \in Agents : Loop(a) \/ HopStep(a)
  \/ \E c \in Clients : ClientStep(c)
  \/ \E c \in Payers : Pay(c) \/ (Execute(c) /\ UNCHANGED callVars)

(* Handlers end (the compute client has a deadline), and a call looks at   *)
(* its own deadline every 250 ms.                                          *)
Spec ==
  /\ Init /\ [][Next]_vars
  /\ \A a \in Agents : WF_vars(Return(a)) /\ WF_vars(HopTimesOut(a))
  /\ \A c \in Clients : WF_vars(CallTimesOut(c))

-----------------------------------------------------------------------------
Outputs == [by : Agents, trace : Seq([from : Agents, to : Agents, skill : SkillNames])]

RequestOK(r) ==
  /\ r.from \in Nodes /\ r.to \in Agents /\ r.skill \in SkillNames
  /\ r.path \in Seq(Tags) /\ r.budget \in Nat
  /\ r.receipt # Nil => r.receipt \in Receipts
  /\ r.parent \in 0 .. Len(requests)
  /\ r.fate \in {"sent", "served", "answered", "dropped"}
  /\ r.outcome \in {"open", "ok", "failed"}
  /\ r.output # Nil => r.output \in Outputs

TypeOK ==
  /\ PayTypeOK
  /\ \A i \in Ids : RequestOK(requests[i])
  /\ serving \in [Agents -> 0 .. Len(requests)]
  /\ calling \in [Nodes -> 0 .. Len(requests)]

(* The hops of an output were made, one for the other, for request i.      *)
RealTrace(i, out) ==
  LET n == Len(out.trace)
  IN  \E hops \in [1 .. n -> Ids] :
        LET link(h) == IF h = 0 THEN i ELSE hops[h]
        IN  /\ \A h \in 1 .. n : /\ requests[link(h)].parent = link(h - 1)
                                 /\ requests[link(h)].outcome = "ok"
                                 /\ out.trace[h] = Hop(link(h))
            /\ requests[link(n)].skill # "route"
            /\ requests[link(n)].to = out.by

(* "a 3-hop trace is 3 real signed responses" (swarm.ts): when a caller    *)
(* accepts an answer, each entry of its trace is a call that the agent     *)
(* before it really made, for this very request, and that succeeded, and   *)
(* the output is that of the last of them.  Late answers to calls that     *)
(* timed out do not get in.                                                *)
TraceIsReal ==
  \A i \in Ids : requests[i].outcome = "ok" => RealTrace(i, requests[i].output)

(* How many hops request i is away from the client request it serves, and  *)
(* which one that is.                                                      *)
Parent(i) == requests[i].parent
Depth[i \in Ids] == IF Parent(i) = 0 THEN 0 ELSE Depth[Parent(i)] + 1
Root[i \in Ids] == IF Parent(i) = 0 THEN i ELSE Root[Parent(i)]

(* "Hop budget hits 0 -> handler refuses to forward (prevents cycles)"     *)
(* (skills.ts): however routing tables point at each other and whatever    *)
(* times out, no client request is forwarded more often than its budget.   *)
WithinBudget == \A i \in Ids : Depth[i] <= requests[Root[i]].budget

(* No request is forgotten: it waits in the inbox, or its handler is at    *)
(* work, or it was answered, or a router dropped it that was waiting for a *)
(* hop of its own.                                                         *)
NothingForgotten ==
  \A i \in Ids :
    LET r == requests[i]
    IN  /\ r.fate = "sent" => \E j \in DOMAIN inbox[r.to] : inbox[r.to][j] = RequestMsg(i)
        /\ r.fate = "served" => serving[r.to] = i
        /\ r.fate = "dropped" => "route" \in Offers[r.to]

(* An agent that requires payment works only on a client's own call, never *)
(* on a hop, and only for a receipt that this client signed, to this agent *)
(* and for this skill at its price.  If settle() made the receipt, the     *)
(* client's transfer of just that completed.  Of a receipt that was signed *)
(* by hand nothing follows: "we do NOT do an onchain readback in v1"       *)
(* (agent.ts).                                                             *)
ServedShowsReceipt ==
  \A a \in Priced : serving[a] # 0 =>
    LET r == requests[serving[a]]
        shown == r.receipt
    IN  /\ r.from \in Clients
        /\ shown # Nil /\ shown.payer = r.from
        /\ shown.recipient = Payee[a] /\ shown.skill = r.skill
        /\ Price[a][r.skill] \in {Nil, shown.amount}
        /\ shown.settled =>
             /\ execution[r.from] = "completed"
             /\ terms[r.from] = [recipient |-> Payee[a], amount |-> shown.amount, skill |-> r.skill]

(* Agents that route to each other do not wait for ever: every handler     *)
(* ends and every call gets an answer or a timeout.                        *)
LoopsReturn ==
  /\ \A a \in Agents : (serving[a] # 0) ~> (serving[a] = 0)
  /\ \A c \in Clients : (calling[c] # 0) ~> (calling[c] = 0)
=============================================================================
