------------------------------- MODULE MCSwarm -------------------------------
(* Two routers whose tables point at each other, at a worker and at a       *)
(* worker that requires payment.  One client sends calls round the routers; *)
(* the other may call a router while it is still at work.  Both call the    *)
(* paid worker: the first settles, for its priced skill or for the other    *)
(* one, and each may show receipts signed by hand, its own or the other's,  *)
(* for the price or for less.                                               *)
EXTENDS Swarm, TLC
CONSTANTS c1, c2, r1, r2, w, p, t1, t2, t3, eth, one, less

Work(a) == [dest |-> a, skill |-> "work"]
Forward(r) == [dest |-> r, skill |-> "route"]
MCTable ==
  r1 :> (t1 :> Work(w) @@ t2 :> Forward(r2) @@ t3 :> Work(p))
    @@ r2 :> (t1 :> Work(w) @@ t2 :> Forward(r1) @@ t3 :> Work(p))
    @@ w :> <<>> @@ p :> <<>>

\* The skill "free" has no price in its definition.
MCOffers == r1 :> {"route"} @@ r2 :> {"route"} @@ w :> {"work"} @@ p :> {"work", "free"}
MCPrice == [a \in Agents |-> [s \in SkillNames |-> IF a = p /\ s = "work" THEN one ELSE Nil]]
MCPayee == [a \in Agents |-> IF a = p THEN eth ELSE Nil]

Round(path) == [dest |-> r1, skill |-> "route", path |-> path, budget |-> 2]
Once(r, t) == [dest |-> r, skill |-> "route", path |-> <<t>>, budget |-> 1]
Direct(skill) == [dest |-> p, skill |-> skill, path |-> <<>>, budget |-> 0]
MCPlans ==
  c1 :> {Round(<<t2, t1>>), Round(<<t2, t2, t1>>), Direct("work"), Direct("free")}
    @@ c2 :> {Once(r1, t1), Once(r2, t3), Direct("work")}

Terms(skill, amount) == [recipient |-> eth, amount |-> amount, skill |-> skill]
MCSettleArgs == {Terms("work", one), Terms("free", one)}
Signed(c, amount) ==
  [payer |-> c, recipient |-> eth, amount |-> amount, skill |-> "work", settled |-> FALSE]
MCByHand == {Signed(c1, one), Signed(c2, less)}
==============================================================================
