---------------------------- MODULE Swarm_proofs ----------------------------
(***************************************************************************)
(* What holds of agents that call agents, for any clients, agents, routing *)
(* tables, offers, prices and plans.                                       *)
(*                                                                         *)
(* The inductive invariant IInv says what each message in a queue is       *)
(* about, what an agent that serves and a node that waits may rely on,     *)
(* that every output on its way has a real trace, and what the steps of    *)
(* settle() have seen of the transfer; and that a hop has one less of the  *)
(* budget of the request it serves.                                        *)
(***************************************************************************)
EXTENDS Swarm, SequenceTheorems, WellFoundedInduction, TLAPS

MaybeOutputs == Outputs \cup {Nil}
Records ==
  [from : Nodes, to : Agents, skill : SkillNames, path : Seq(Tags), budget : Nat,
   receipt : Receipts \cup {Nil}, parent : Nat,
   fate : {"sent", "served", "answered", "dropped"}, outcome : {"open", "ok", "failed"},
   output : MaybeOutputs]
Messages ==
  [type : {"req"}, id : Nat] \cup [type : {"res"}, id : Nat, output : MaybeOutputs]

Types ==
  /\ PayTypeOK
  /\ requests \in Seq(Records)
  /\ inbox \in [Nodes -> Seq(Messages)]
  /\ serving \in [Agents -> Nat]
  /\ calling \in [Nodes -> Nat]

(* What settle() has seen of the transfer.                                 *)
SeenOfTransfer ==
  \A c \in Clients :
    /\ pay[c] = "unpaid" => execution[c] = "none"
    /\ pay[c] = "pending" => execution[c] # "none"
    /\ pay[c] = "failed" => execution[c] = "failed"
    /\ pay[c] \in {"completed", "reading", "receipt"} => execution[c] = "completed"
    /\ pay[c] = "gone" /\ ~gaveUp[c] => execution[c] \in {"none", "failed"}

(* A receipt that settle() made is that of a completed transfer.           *)
HonestReceipts ==
  \A i \in Ids : requests[i].receipt # Nil /\ requests[i].receipt.settled =>
    \E c \in Clients : requests[i].receipt = Receipt(c) /\ execution[c] = "completed"

(* A request in a queue is for the node it waits at; an output in a queue  *)
(* has a real trace.                                                       *)
MessageOK(n, m) ==
  /\ m.id \in Ids
  /\ m.type = "req" => m = RequestMsg(m.id) /\ requests[m.id].to = n
  /\ m.type = "res" => m.output = Nil \/ RealTrace(m.id, m.output)
MessagesOK ==
  \A n \in Nodes : \A j \in 1 .. Len(inbox[n]) : MessageOK(n, inbox[n][j])

(* An agent serves what was sent to it and, if it must be, paid; and waits *)
(* for a hop exactly while what it serves is to be forwarded.              *)
ServingAt(a) ==
  serving[a] # 0 =>
    /\ serving[a] \in Ids
    /\ requests[serving[a]].to = a
    /\ Paid(a, serving[a])
    /\ requests[serving[a]].skill = "route" <=> calling[a] # 0
ServingOK == \A a \in Agents : ServingAt(a)

(* A node waits for an open request of its own; an agent, for the one it   *)
(* sent on behalf of what it serves.                                       *)
CallingAt(n) ==
  calling[n] # 0 =>
    /\ calling[n] \in Ids
    /\ requests[calling[n]].from = n
    /\ requests[calling[n]].outcome = "open"
    /\ n \in Agents =>
         serving[n] # 0 /\ requests[calling[n]].parent = serving[n] /\ "route" \in Offers[n]
CallingOK == \A n \in Nodes : CallingAt(n)

(* An accepted answer is an output.                                        *)
AcceptedIsOutput == \A i \in Ids : requests[i].outcome = "ok" => requests[i].output \in Outputs

(* A hop is sent after the request it serves, with one less of its budget. *)
Descends(i) ==
  /\ requests[i].parent \in 0 .. i - 1
  /\ requests[i].parent # 0 => requests[requests[i].parent].budget = requests[i].budget + 1
Descent == \A i \in Ids : Descends(i)

IInv ==
  /\ Types /\ SeenOfTransfer /\ HonestReceipts
  /\ MessagesOK /\ ServingOK /\ CallingOK
  /\ NothingForgotten /\ TraceIsReal /\ AcceptedIsOutput /\ Descent

-----------------------------------------------------------------------------
(* What is in a queue.                                                     *)
In(box, n, m) == \E j \in 1 .. Len(box[n]) : box[n][j] = m

Boxes == [Nodes -> Seq(Messages)]

(* Taking the head of a queue takes nothing else and adds nothing.         *)
LEMMA PoppedIn ==
  ASSUME inbox \in Boxes, NEW n \in Nodes, inbox[n] # <<>>
  PROVE  /\ Popped(n) \in Boxes
         /\ Head(inbox[n]) \in Messages
         /\ In(inbox, n, Head(inbox[n]))
         /\ \A k \in Nodes : \A m : In(Popped(n), k, m) => In(inbox, k, m)
         /\ \A k \in Nodes : \A m : In(inbox, k, m) =>
              In(Popped(n), k, m) \/ (k = n /\ m = Head(inbox[n]))
<1>1. inbox[n] \in Seq(Messages)
  BY DEF Boxes
<1>2. /\ Head(inbox[n]) \in Messages
      /\ Head(inbox[n]) = inbox[n][1] /\ 1 \in 1 .. Len(inbox[n])
      /\ Tail(inbox[n]) \in Seq(Messages)
      /\ Len(inbox[n]) \in Nat /\ Len(Tail(inbox[n])) = Len(inbox[n]) - 1
      /\ \A i \in 1 .. Len(Tail(inbox[n])) : Tail(inbox[n])[i] = inbox[n][i + 1]
  BY <1>1, HeadTailProperties, LenProperties
<1>3. /\ Popped(n) \in Boxes
      /\ Popped(n)[n] = Tail(inbox[n])
      /\ \A k \in Nodes : k # n => Popped(n)[k] = inbox[k]
  BY <1>2 DEF Popped, Boxes
<1>4. ASSUME NEW m, In(Popped(n), n, m) PROVE In(inbox, n, m)
  <2>1. PICK i \in 1 .. Len(Tail(inbox[n])) : Tail(inbox[n])[i] = m
    BY <1>3, <1>4 DEF In
  <2>2. i + 1 \in 1 .. Len(inbox[n]) /\ inbox[n][i + 1] = m
    BY <1>2, <2>1
  <2> QED
    BY <2>2 DEF In
<1>5. ASSUME NEW m, In(inbox, n, m), m # Head(inbox[n]) PROVE In(Popped(n), n, m)
  <2>1. PICK i \in 1 .. Len(inbox[n]) : inbox[n][i] = m
    BY <1>5 DEF In
  <2>2. i - 1 \in 1 .. Len(Tail(inbox[n])) /\ Tail(inbox[n])[i - 1] = m
    BY <1>2, <1>5, <2>1
  <2> QED
    BY <1>3, <2>2 DEF In
<1>6. In(inbox, n, Head(inbox[n]))
  BY <1>2 DEF In
<1>7. \A k \in Nodes : \A m : k # n => (In(Popped(n), k, m) <=> In(inbox, k, m))
  BY <1>3 DEF In
<1> QED
  BY <1>2, <1>3, <1>4, <1>5, <1>6, <1>7

(* A message that joins a queue is in it, and nothing else is new.         *)
LEMMA PushedIn ==
  ASSUME NEW box \in Boxes, NEW n \in Nodes, NEW msg \in Messages
  PROVE  /\ Pushed(box, n, msg) \in Boxes
         /\ \A k \in Nodes : \A m :
              In(Pushed(box, n, msg), k, m) <=> In(box, k, m) \/ (k = n /\ m = msg)
<1>1. box[n] \in Seq(Messages)
  BY DEF Boxes
<1>2. /\ Append(box[n], msg) \in Seq(Messages)
      /\ Len(box[n]) \in Nat /\ Len(Append(box[n], msg)) = Len(box[n]) + 1
      /\ \A i \in 1 .. Len(box[n]) : Append(box[n], msg)[i] = box[n][i]
      /\ Append(box[n], msg)[Len(box[n]) + 1] = msg
  BY <1>1, AppendProperties, LenProperties
<1>3. /\ Pushed(box, n, msg) \in Boxes
      /\ Pushed(box, n, msg)[n] = Append(box[n], msg)
      /\ \A k \in Nodes : k # n => Pushed(box, n, msg)[k] = box[k]
  BY <1>2 DEF Pushed, Boxes
<1>4. ASSUME NEW m PROVE In(Pushed(box, n, msg), n, m) <=> In(box, n, m) \/ m = msg
  BY <1>2, <1>3 DEF In
<1>5. \A k \in Nodes : \A m : k # n => (In(Pushed(box, n, msg), k, m) <=> In(box, k, m))
  BY <1>3 DEF In
<1> QED
  BY <1>3, <1>4, <1>5

(* The invariants about queues, in these terms.                            *)
LEMMA MessagesIn ==
  /\ MessagesOK <=> \A n \in Nodes : \A m : In(inbox, n, m) => MessageOK(n, m)
  /\ MessagesOK' <=> \A n \in Nodes : \A m : In(inbox', n, m) => MessageOK(n, m)'
  BY DEF MessagesOK, In

LEMMA QueueDomain ==
  ASSUME NEW box \in Boxes, NEW n \in Nodes
  PROVE  DOMAIN box[n] = 1 .. Len(box[n])
<1>1. box[n] \in Seq(Messages)
  BY DEF Boxes
<1> QED
  BY <1>1, LenProperties

(* What has become of a request, by the records of requests and serving.   *)
Remembered(reqs, box, srv, i) ==
  /\ reqs[i].fate = "sent" => In(box, reqs[i].to, RequestMsg(i))
  /\ reqs[i].fate = "served" => srv[reqs[i].to] = i
  /\ reqs[i].fate = "dropped" => "route" \in Offers[reqs[i].to]

LEMMA RecordTo ==
  ASSUME NEW reqs \in Seq(Records), NEW i \in 1 .. Len(reqs)
  PROVE  reqs[i] \in Records /\ reqs[i].to \in Agents /\ reqs[i].to \in Nodes
         /\ reqs[i].from \in Nodes
<1>1. reqs[i] \in Records
  BY ElementOfSeq
<1> QED
  BY <1>1 DEF Records, Nodes

LEMMA ForgottenIn ==
  ASSUME Types
  PROVE  NothingForgotten <=> \A i \in Ids : Remembered(requests, inbox, serving, i)
<1>1. \A i \in Ids : DOMAIN inbox[requests[i].to] = 1 .. Len(inbox[requests[i].to])
  BY RecordTo, QueueDomain DEF Types, Ids, Boxes
<1> QED
  BY <1>1 DEF NothingForgotten, In, Remembered

LEMMA ForgottenInNext ==
  ASSUME Types'
  PROVE  NothingForgotten' <=> \A i \in Ids' : Remembered(requests', inbox', serving', i)
<1>1. \A i \in Ids' : DOMAIN inbox'[requests'[i].to] = 1 .. Len(inbox'[requests'[i].to])
  BY RecordTo, QueueDomain DEF Types, Ids, Boxes
<1> QED
  BY <1>1 DEF NothingForgotten, In, Remembered, RequestMsg

-----------------------------------------------------------------------------
(* What a request is does not change, and an accepted answer is for good.  *)
Same(r, s) ==
  /\ s.from = r.from /\ s.to = r.to /\ s.skill = r.skill /\ s.receipt = r.receipt
  /\ s.path = r.path /\ s.budget = r.budget /\ s.parent = r.parent
  /\ r.outcome = "ok" => s.outcome = "ok" /\ s.output = r.output

Grows == \A i \in Ids : i \in Ids' /\ Same(requests[i], requests'[i])

(* The fate of one request is set.                                         *)
WithFate(reqs, i, x) == [reqs EXCEPT ![i].fate = x]

LEMMA FateSet ==
  ASSUME NEW reqs \in Seq(Records), NEW i \in 1 .. Len(reqs),
         NEW x \in {"sent", "served", "answered", "dropped"}
  PROVE  /\ WithFate(reqs, i, x) \in Seq(Records) /\ Len(WithFate(reqs, i, x)) = Len(reqs)
         /\ \A j \in 1 .. Len(reqs) : j # i => WithFate(reqs, i, x)[j] = reqs[j]
         /\ Same(reqs[i], WithFate(reqs, i, x)[i]) /\ WithFate(reqs, i, x)[i].fate = x
         /\ WithFate(reqs, i, x)[i].outcome = reqs[i].outcome
         /\ WithFate(reqs, i, x)[i].output = reqs[i].output
<1> DEFINE e == [reqs[i] EXCEPT !.fate = x]
<1>1. reqs[i] \in Records
  BY ElementOfSeq
<1>2. /\ e \in Records /\ Same(reqs[i], e) /\ e.fate = x
      /\ e.outcome = reqs[i].outcome /\ e.output = reqs[i].output
  BY <1>1 DEF Records, Same
<1> HIDE DEF e
<1>3. /\ [reqs EXCEPT ![i] = e] \in Seq(Records)
      /\ Len([reqs EXCEPT ![i] = e]) = Len(reqs)
      /\ \A j \in 1 .. Len(reqs) : [reqs EXCEPT ![i] = e][j] = IF j = i THEN e ELSE reqs[j]
  BY <1>2, ExceptSeq
<1>4. WithFate(reqs, i, x) = [reqs EXCEPT ![i] = e]
  BY DEF WithFate, e
<1> QED
  BY <1>2, <1>3, <1>4

(* The outcome of an open request is set.                                  *)
LEMMA EndSet ==
  ASSUME Types, NEW k \in Ids, NEW out \in MaybeOutputs, requests[k].outcome = "open"
  PROVE  /\ Ended(k, out) \in Seq(Records) /\ Len(Ended(k, out)) = Len(requests)
         /\ \A j \in Ids : j # k => Ended(k, out)[j] = requests[j]
         /\ Same(requests[k], Ended(k, out)[k])
         /\ Ended(k, out)[k].fate = requests[k].fate
         /\ Ended(k, out)[k].outcome = IF out = Nil THEN "failed" ELSE "ok"
         /\ Ended(k, out)[k].output = out
<1> DEFINE x == IF out = Nil THEN "failed" ELSE "ok"
           e == [requests[k] EXCEPT !.outcome = x, !.output = out]
<1>1. requests[k] \in Records /\ requests \in Seq(Records)
  BY ElementOfSeq DEF Types, Ids
<1>2. /\ e \in Records /\ Same(requests[k], e) /\ e.fate = requests[k].fate
      /\ e.outcome = x /\ e.output = out
  BY <1>1 DEF Records, Same
<1>3. Ended(k, out) = [requests EXCEPT ![k] = e]
  BY <1>1, LenProperties DEF Ended, Ids
<1> HIDE DEF e
<1>4. /\ [requests EXCEPT ![k] = e] \in Seq(Records)
      /\ Len([requests EXCEPT ![k] = e]) = Len(requests)
      /\ \A j \in Ids : [requests EXCEPT ![k] = e][j] = IF j = k THEN e ELSE requests[j]
  BY <1>1, <1>2, ExceptSeq DEF Ids
<1> QED
  BY <1>2, <1>3, <1>4

(* A request is added.                                                     *)
LEMMA Added ==
  ASSUME NEW reqs \in Seq(Records), NEW r \in Records
  PROVE  /\ Append(reqs, r) \in Seq(Records)
         /\ Len(reqs) \in Nat /\ Len(Append(reqs, r)) = Len(reqs) + 1
         /\ \A j \in 1 .. Len(reqs) : Append(reqs, r)[j] = reqs[j]
         /\ Append(reqs, r)[Len(reqs) + 1] = r
  BY AppendProperties, LenProperties

(* A real trace stays real.                                                *)
LEMMA TraceStays ==
  ASSUME Grows, NEW i \in Ids, NEW out \in Outputs, RealTrace(i, out)
  PROVE  RealTrace(i, out)'
<1> DEFINE n == Len(out.trace)
<1>1. n \in Nat
  BY LenProperties DEF Outputs
<1>2. PICK hops \in [1 .. n -> Ids] :
        LET link(h) == IF h = 0 THEN i ELSE hops[h]
        IN  /\ \A h \in 1 .. n : /\ requests[link(h)].parent = link(h - 1)
                                 /\ requests[link(h)].outcome = "ok"
                                 /\ out.trace[h] = Hop(link(h))
            /\ requests[link(n)].skill # "route"
            /\ requests[link(n)].to = out.by
  BY DEF RealTrace
<1> DEFINE link(h) == IF h = 0 THEN i ELSE hops[h]
<1>3. \A h \in 0 .. n : link(h) \in Ids
  BY <1>1, <1>2
<1>4. hops \in [1 .. n -> Ids']
  BY <1>2 DEF Grows
<1>5. ASSUME NEW h \in 1 .. n
      PROVE  /\ requests'[link(h)].parent = link(h - 1)
             /\ requests'[link(h)].outcome = "ok"
             /\ out.trace[h] = Hop(link(h))'
  <2>1. /\ link(h) \in Ids
        /\ requests[link(h)].parent = link(h - 1)
        /\ requests[link(h)].outcome = "ok"
        /\ out.trace[h] = Hop(link(h))
    BY <1>1, <1>2, <1>3
  <2> HIDE DEF link
  <2>2. Same(requests[link(h)], requests'[link(h)])
    BY <2>1 DEF Grows
  <2>3. Hop(link(h))' = Hop(link(h))
    BY <2>2 DEF Hop, Same
  <2> QED
    BY <2>1, <2>2, <2>3 DEF Same
<1>6. requests'[link(n)].skill # "route" /\ requests'[link(n)].to = out.by
  <2>1. link(n) \in Ids /\ requests[link(n)].skill # "route" /\ requests[link(n)].to = out.by
    BY <1>1, <1>2, <1>3
  <2> HIDE DEF link
  <2> QED
    BY <2>1 DEF Grows, Same
<1> QED
  BY <1>4, <1>5, <1>6 DEF RealTrace

(* The trace of an accepted answer, behind the hop that it answered.       *)
LEMMA TraceExtends ==
  ASSUME NEW i \in Ids', NEW k \in Ids', NEW out \in Outputs, RealTrace(k, out)',
         requests'[k].parent = i, requests'[k].outcome = "ok",
         NEW hop \in [from : Agents, to : Agents, skill : SkillNames], hop = Hop(k)'
  PROVE  /\ Output(out.by, <<hop>> \o out.trace) \in Outputs
         /\ RealTrace(i, Output(out.by, <<hop>> \o out.trace))'
<1> DEFINE n == Len(out.trace)
           long == <<hop>> \o out.trace
           S == [from : Agents, to : Agents, skill : SkillNames]
<1>1. n \in Nat /\ out.trace \in Seq(S) /\ out.by \in Agents
  BY LenProperties DEF Outputs
<1>2. PICK hops \in [1 .. n -> Ids'] :
        LET link(h) == IF h = 0 THEN k ELSE hops[h]
        IN  /\ \A h \in 1 .. n : /\ requests'[link(h)].parent = link(h - 1)
                                 /\ requests'[link(h)].outcome = "ok"
                                 /\ out.trace[h] = Hop(link(h))'
            /\ requests'[link(n)].skill # "route"
            /\ requests'[link(n)].to = out.by
  BY DEF RealTrace
<1> DEFINE link(h) == IF h = 0 THEN k ELSE hops[h]
           more == [h \in 1 .. n + 1 |-> link(h - 1)]
           mlink(h) == IF h = 0 THEN i ELSE more[h]
<1>3. \A h \in 0 .. n : link(h) \in Ids'
  BY <1>1, <1>2
<1>4. more \in [1 .. n + 1 -> Ids']
  BY <1>1, <1>3
<1>5. /\ long \in Seq(S) /\ Len(long) = n + 1 /\ long[1] = hop
      /\ \A h \in 1 .. n : long[h + 1] = out.trace[h]
  <2>1. <<hop>> \in Seq(S) /\ Len(<<hop>>) = 1
    OBVIOUS
  <2>2. /\ long \in Seq(S) /\ Len(long) = 1 + n
        /\ \A h \in 1 .. 1 + n : long[h] = IF h <= 1 THEN <<hop>>[h] ELSE out.trace[h - 1]
    BY <1>1, <2>1, ConcatProperties
  <2> QED
    BY <1>1, <2>2
<1>6. ASSUME NEW h \in 1 .. n + 1
      PROVE  /\ requests'[mlink(h)].parent = mlink(h - 1)
             /\ requests'[mlink(h)].outcome = "ok"
             /\ long[h] = Hop(mlink(h))'
  <2>1. CASE h = 1
    <3>1. mlink(h) = k /\ mlink(h - 1) = i
      BY <1>1, <2>1
    <3> HIDE DEF mlink
    <3> QED
      BY <1>5, <2>1, <3>1
  <2>2. CASE h # 1
    <3>1. h - 1 \in 1 .. n /\ mlink(h) = link(h - 1) /\ mlink(h - 1) = link(h - 2)
      BY <1>1, <2>2
    <3>2. long[h] = out.trace[h - 1]
      BY <1>1, <1>5, <3>1
    <3>3. /\ requests'[link(h - 1)].parent = link(h - 2)
          /\ requests'[link(h - 1)].outcome = "ok"
          /\ out.trace[h - 1] = Hop(link(h - 1))'
      BY <1>2, <3>1
    <3> HIDE DEF mlink, link
    <3> QED
      BY <3>1, <3>2, <3>3
  <2> QED
    BY <2>1, <2>2
<1>7. mlink(n + 1) = link(n)
  BY <1>1
<1>8. requests'[mlink(n + 1)].skill # "route" /\ requests'[mlink(n + 1)].to = out.by
  BY <1>2, <1>7
<1>9. Output(out.by, long) \in Outputs
  BY <1>1, <1>5 DEF Output, Outputs
<1> DEFINE o == Output(out.by, long)
<1>10. o.trace = long /\ o.by = out.by
  BY DEF Output
<1> HIDE DEF long, more, link, o
<1>11. RealTrace(i, o)'
  <2>1. more \in [1 .. Len(o.trace) -> Ids'] /\ Len(o.trace) = n + 1
    BY <1>4, <1>5, <1>10
  <2>2. \A h \in 1 .. Len(o.trace) : /\ requests'[mlink(h)].parent = mlink(h - 1)
                                     /\ requests'[mlink(h)].outcome = "ok"
                                     /\ o.trace[h] = Hop(mlink(h))'
    <3> HIDE DEF mlink
    <3> QED
      BY <1>6, <1>10, <2>1
  <2>3. /\ requests'[mlink(Len(o.trace))].skill # "route"
        /\ requests'[mlink(Len(o.trace))].to = o.by
    <3> HIDE DEF mlink
    <3> QED
      BY <1>8, <1>10, <2>1
  <2>4. \E m \in [1 .. Len(o.trace) -> Ids'] :
          LET l(h) == IF h = 0 THEN i ELSE m[h]
          IN  /\ \A h \in 1 .. Len(o.trace) : /\ requests'[l(h)].parent = l(h - 1)
                                              /\ requests'[l(h)].outcome = "ok"
                                              /\ o.trace[h] = Hop(l(h))'
              /\ requests'[l(Len(o.trace))].skill # "route"
              /\ requests'[l(Len(o.trace))].to = o.by
    <3> USE <2>1
    <3> WITNESS more \in [1 .. Len(o.trace) -> Ids']
    <3> QED
      BY <2>2, <2>3
  <2> QED
    BY <2>4 DEF RealTrace
<1> QED
  BY <1>9, <1>11 DEF long, o

-----------------------------------------------------------------------------
(* What the steps of the calls have to show.                               *)
Fresh(i) ==
  /\ \/ requests'[i].receipt = Nil \/ ~requests'[i].receipt.settled
     \/ \E c \in Clients : requests'[i].receipt = Receipt(c) /\ execution[c] = "completed"
  /\ Descends(i)'

StepOK ==
  /\ requests' \in Seq(Records) /\ inbox' \in Boxes
  /\ serving' \in [Agents -> Nat] /\ calling' \in [Nodes -> Nat]
  /\ Grows
  /\ \A n \in Nodes : \A m : In(inbox', n, m) => In(inbox, n, m) \/ MessageOK(n, m)'
  /\ ServingOK' /\ CallingOK'
  /\ \A i \in Ids' : Remembered(requests', inbox', serving', i)
  /\ \A i \in Ids' : requests'[i].outcome = "ok" =>
       \/ i \in Ids /\ requests[i].outcome = "ok"
       \/ RealTrace(i, requests[i].output)' /\ requests'[i].output \in Outputs
  /\ \A i \in Ids' : i \in Ids \/ Fresh(i)

(* What the steps of settle() and of KeeperHub keep.                       *)
PayOK ==
  /\ PayTypeOK' /\ SeenOfTransfer'
  /\ terms' = terms
  /\ \A c \in Clients : execution[c] = "completed" => execution'[c] = "completed"

LEMMA RecordOf ==
  ASSUME Types, NEW i \in Ids
  PROVE  /\ requests[i] \in Records /\ i \in Nat /\ i # 0
         /\ requests[i].from \in Nodes /\ requests[i].to \in Agents
<1>1. requests[i] \in Records /\ Len(requests) \in Nat
  BY ElementOfSeq, LenProperties DEF Types, Ids
<1> QED
  BY <1>1 DEF Ids, Records

(* What is true of a message stays so.                                     *)
LEMMA MessageStays ==
  ASSUME IInv, Grows, NEW n \in Nodes, NEW m, In(inbox, n, m)
  PROVE  MessageOK(n, m)'
<1>1. Types /\ MessageOK(n, m)
  BY MessagesIn DEF IInv
<1>2. m \in Messages
  <2>1. inbox[n] \in Seq(Messages)
    BY <1>1 DEF Types
  <2> QED
    BY <2>1, ElementOfSeq DEF In
<1>3. m.id \in Ids /\ m.id \in Ids' /\ Same(requests[m.id], requests'[m.id])
  BY <1>1 DEF MessageOK, Grows
<1>4. m.type = "req" => m = RequestMsg(m.id) /\ requests'[m.id].to = n
  BY <1>1, <1>3 DEF MessageOK, Same
<1>5. ASSUME m.type = "res", m.output # Nil PROVE RealTrace(m.id, m.output)'
  <2>1. m.output \in Outputs
    BY <1>2, <1>5 DEF Messages, MaybeOutputs
  <2>2. RealTrace(m.id, m.output)
    BY <1>1, <1>5 DEF MessageOK
  <2> QED
    BY <1>3, <2>1, <2>2, TraceStays
<1> QED
  BY <1>3, <1>4, <1>5 DEF MessageOK, RequestMsg

(* A step that shows all that keeps the invariant.                         *)
LEMMA StepKeeps ==
  ASSUME IInv, StepOK, PayOK
  PROVE  IInv'
<1>0. Types /\ HonestReceipts /\ TraceIsReal /\ AcceptedIsOutput /\ Grows
  BY DEF IInv, StepOK
<1>1. Types'
  BY DEF StepOK, PayOK, Types, Boxes
<1>2. MessagesOK'
  BY MessageStays, MessagesIn DEF StepOK
<1>3. NothingForgotten'
  BY <1>1, ForgottenInNext DEF StepOK
<1>4. HonestReceipts'
  <2> SUFFICES ASSUME NEW i \in Ids', requests'[i].receipt # Nil, requests'[i].receipt.settled
               PROVE  \E c \in Clients : requests'[i].receipt = Receipt(c)'
                                         /\ execution'[c] = "completed"
    BY DEF HonestReceipts
  <2>1. \E c \in Clients : requests'[i].receipt = Receipt(c) /\ execution[c] = "completed"
    <3>1. CASE i \in Ids
      BY <1>0, <3>1 DEF HonestReceipts, Grows, Same
    <3>2. CASE i \notin Ids
      BY <3>2 DEF StepOK, Fresh
    <3> QED
      BY <3>1, <3>2
  <2> QED
    BY <2>1 DEF PayOK, Receipt
<1>5. ASSUME NEW i \in Ids', requests'[i].outcome = "ok"
      PROVE  RealTrace(i, requests[i].output)' /\ requests'[i].output \in Outputs
  <2>1. CASE i \in Ids /\ requests[i].outcome = "ok"
    <3>1. requests'[i].output = requests[i].output
      BY <1>0, <2>1 DEF Grows, Same
    <3>2. RealTrace(i, requests[i].output) /\ requests[i].output \in Outputs
      BY <1>0, <2>1 DEF TraceIsReal, AcceptedIsOutput
    <3> DEFINE out == requests[i].output
    <3>3. \A o \in Outputs : o = out => RealTrace(i, o)'
      BY <1>0, <2>1, <3>2, TraceStays
    <3> QED
      BY <3>1, <3>2, <3>3
  <2> QED
    BY <1>5, <2>1 DEF StepOK
<1>6. TraceIsReal' /\ AcceptedIsOutput'
  BY <1>5 DEF TraceIsReal, AcceptedIsOutput
<1>7. Descent'
  <2> SUFFICES ASSUME NEW i \in Ids' PROVE Descends(i)'
    BY DEF Descent
  <2>1. CASE i \in Ids
    <3>1. /\ i \in Nat /\ Len(requests) \in Nat
          /\ Descends(i) /\ Same(requests[i], requests'[i])
      BY <1>0, <2>1, RecordOf DEF IInv, Descent, Grows, Ids
    <3>2. requests[i].parent # 0 => requests[i].parent \in Ids
      BY <2>1, <3>1 DEF Descends, Ids
    <3>3. requests[i].parent # 0 =>
            requests'[requests[i].parent].budget = requests[requests[i].parent].budget
      BY <1>0, <3>2 DEF Grows, Same
    <3> QED
      BY <3>1, <3>3 DEF Descends, Same
  <2>2. CASE i \notin Ids
    BY <2>2 DEF StepOK, Fresh
  <2> QED
    BY <2>1, <2>2
<1> QED
  BY <1>1, <1>2, <1>3, <1>4, <1>6, <1>7 DEF IInv, StepOK, PayOK

(* What was paid for stays so.                                             *)
LEMMA PaidStays ==
  ASSUME NEW a, NEW i, Same(requests[i], requests'[i]), Paid(a, i)
  PROVE  Paid(a, i)'
<1>1. /\ requests'[i].receipt = requests[i].receipt
      /\ Expected(a, i)' = Expected(a, i)
  BY DEF Same, Expected
<1> QED
  BY <1>1 DEF Paid, ReceiptFits

(* What a step leaves alone.                                               *)
LEMMA CallsUnchanged ==
  ASSUME IInv, UNCHANGED callVars
  PROVE  StepOK
<1>1. requests' = requests /\ inbox' = inbox /\ serving' = serving /\ calling' = calling
  BY DEF callVars
<1>2. Ids' = Ids /\ Grows
  BY <1>1 DEF Ids, Grows, Same
<1>3. ServingOK' /\ CallingOK'
  BY <1>1, <1>2 DEF IInv, ServingOK, ServingAt, CallingOK, CallingAt, Paid, Expected
<1>4. \A i \in Ids' : Remembered(requests', inbox', serving', i)
  BY <1>1, <1>2, ForgottenIn DEF IInv
<1> QED
  BY <1>1, <1>2, <1>3, <1>4 DEF StepOK, IInv, Types, Boxes

LEMMA PayUnchanged ==
  ASSUME IInv, UNCHANGED payVars
  PROVE  PayOK
  BY DEF IInv, Types, PayOK, PayTypeOK, SeenOfTransfer, payVars

(* Settling and executing a transfer.                                      *)
LEMMA PayStep ==
  ASSUME IInv, NEW c \in Clients, Settle(c) \/ Execute(c)
  PROVE  PayOK
<1> USE DEF IInv, Types, PayTypeOK, Statuses, PayStates, SeenOfTransfer, PayOK, PayTo, GiveUp
<1>1. CASE Trigger(c)
  <2>1. PICK t \in {"pending", "completed", "failed"} :
          execution' = [execution EXCEPT ![c] = t] /\ pay' = [pay EXCEPT ![c] = t]
    BY <1>1 DEF Trigger
  <2>2. UNCHANGED <<hashKnown, terms, sawHash, gaveUp>> /\ t \in Statuses \cap PayStates
    BY <1>1 DEF Trigger
  <2>3. PayTypeOK' /\ terms' = terms
    BY <2>1, <2>2
  <2>4. SeenOfTransfer'
    BY <2>1, <2>2
  <2>5. \A d \in Clients : execution[d] = "completed" => execution'[d] = "completed"
    BY <1>1, <2>1 DEF Trigger
  <2> QED
    BY <2>3, <2>4, <2>5
<1>2. CASE TriggerFails(c)
  BY <1>2 DEF TriggerFails
<1>3. CASE Poll(c)
  BY <1>3 DEF Poll
<1>4. CASE PollFails(c) \/ Deadline(c) \/ ReadFails(c)
  <2>1. /\ GiveUp(c) /\ pay[c] \in {"pending", "reading"}
        /\ UNCHANGED <<execution, hashKnown, terms, sawHash>>
    BY <1>4 DEF PollFails, Deadline, ReadFails
  <2> QED
    BY <2>1
<1>5. CASE Terminal(c)
  <2>1. CASE Failure(pay[c]) /\ PayTo(c, "gone")
    BY <1>5, <2>1 DEF Terminal, Failure
  <2>2. CASE pay[c] = "completed" /\ sawHash[c] /\ PayTo(c, "receipt")
    BY <1>5, <2>2 DEF Terminal
  <2>3. CASE pay[c] = "completed" /\ PayTo(c, "reading")
    BY <1>5, <2>3 DEF Terminal
  <2> QED
    BY <1>5, <2>1, <2>2, <2>3 DEF Terminal
<1>6. CASE ReadHash(c)
  <2>1. CASE PayTo(c, "receipt") /\ UNCHANGED gaveUp
    BY <1>6, <2>1 DEF ReadHash
  <2>2. CASE GiveUp(c)
    BY <1>6, <2>2 DEF ReadHash
  <2> QED
    BY <1>6, <2>1, <2>2 DEF ReadHash
<1>7. CASE Execute(c)
  <2>1. ASSUME execution[c] = "pending", UNCHANGED hashKnown,
               NEW x \in {"completed", "failed"}, execution' = [execution EXCEPT ![c] = x]
        PROVE  PayOK
    <3>1. UNCHANGED <<pay, hashKnown, terms, sawHash, gaveUp>> /\ x \in Statuses
      BY <1>7, <2>1 DEF Execute
    <3>2. PayTypeOK' /\ terms' = terms
      BY <2>1, <3>1
    <3>3. SeenOfTransfer'
      BY <2>1, <3>1
    <3>4. \A d \in Clients : execution[d] = "completed" => execution'[d] = "completed"
      BY <2>1
    <3> QED
      BY <3>2, <3>3, <3>4
  <2>2. CASE UNCHANGED execution
    BY <1>7, <2>2 DEF Execute
  <2> QED
    BY <1>7, <2>1, <2>2 DEF Execute
<1> QED
  BY <1>1, <1>2, <1>3, <1>4, <1>5, <1>6, <1>7 DEF Settle

-----------------------------------------------------------------------------
(* The head of a queue.                                                    *)
LEMMA HeadRequest ==
  ASSUME IInv, NEW n \in Nodes, inbox[n] # <<>>, Head(inbox[n]).type = "req"
  PROVE  /\ Head(inbox[n]).id \in Ids
         /\ Head(inbox[n]) = RequestMsg(Head(inbox[n]).id)
         /\ requests[Head(inbox[n]).id].to = n
         /\ n \in Agents
<1>1. MessageOK(n, Head(inbox[n]))
  BY PoppedIn, MessagesIn DEF IInv, Types, Boxes
<1>2. Head(inbox[n]).id \in Ids /\ requests[Head(inbox[n]).id].to = n
  BY <1>1 DEF MessageOK
<1>3. n \in Agents
  BY <1>2, RecordOf DEF IInv
<1> QED
  BY <1>1, <1>2, <1>3 DEF MessageOK

LEMMA HeadResponse ==
  ASSUME IInv, NEW n \in Nodes, inbox[n] # <<>>, Head(inbox[n]).type = "res"
  PROVE  /\ Head(inbox[n]).id \in Ids
         /\ Head(inbox[n]).output \in MaybeOutputs
         /\ Head(inbox[n]).output # Nil => RealTrace(Head(inbox[n]).id, Head(inbox[n]).output)
<1>1. MessageOK(n, Head(inbox[n])) /\ Head(inbox[n]) \in Messages
  BY PoppedIn, MessagesIn DEF IInv, Types, Boxes
<1> QED
  BY <1>1 DEF MessageOK, Messages

LEMMA ResponseIsMessage ==
  ASSUME Types, NEW i \in Ids, NEW out \in MaybeOutputs
  PROVE  /\ ResponseMsg(i, out) \in Messages
         /\ ResponseMsg(i, out).type = "res" /\ ResponseMsg(i, out).id = i
         /\ ResponseMsg(i, out).output = out
         /\ \A k : ResponseMsg(i, out) # RequestMsg(k)
<1>1. i \in Nat
  BY RecordOf
<1>2. ResponseMsg(i, out) \in Messages
  BY <1>1 DEF ResponseMsg, Messages
<1>3. \A k : ResponseMsg(i, out).type # RequestMsg(k).type
  BY DEF ResponseMsg, RequestMsg
<1> QED
  BY <1>2, <1>3 DEF ResponseMsg

(* What an agent may rely on stays so.                                     *)
LEMMA ServingStays ==
  ASSUME IInv, Grows, NEW a \in Agents, serving'[a] = serving[a],
         serving[a] # 0 => (calling'[a] # 0 <=> calling[a] # 0)
  PROVE  ServingAt(a)'
<1>1. ServingAt(a)
  BY DEF IInv, ServingOK
<1>2. serving[a] # 0 => serving[a] \in Ids' /\ Same(requests[serving[a]], requests'[serving[a]])
  BY <1>1 DEF ServingAt, Grows
<1> QED
  BY <1>1, <1>2, PaidStays DEF ServingAt, Same

LEMMA CallingStays ==
  ASSUME IInv, Grows, NEW n \in Nodes, calling'[n] = calling[n],
         calling[n] # 0 => requests'[calling[n]].outcome = "open",
         calling[n] # 0 /\ n \in Agents => serving'[n] = serving[n]
  PROVE  CallingAt(n)'
<1>1. CallingAt(n)
  BY DEF IInv, CallingOK
<1>2. calling[n] # 0 => calling[n] \in Ids' /\ Same(requests[calling[n]], requests'[calling[n]])
  BY <1>1 DEF CallingAt, Grows
<1> QED
  BY <1>1, <1>2 DEF CallingAt, Same

(* A step that sets the fate of one request and adds none.                 *)
OnlyFate(i) ==
  /\ requests' \in Seq(Records) /\ Ids' = Ids /\ Grows
  /\ \A j \in Ids : j # i => requests'[j] = requests[j]
  /\ \A j \in Ids : /\ requests'[j].outcome = requests[j].outcome
                    /\ requests'[j].output = requests[j].output

LEMMA SetFate ==
  ASSUME Types, NEW i \in Ids, NEW x \in {"sent", "served", "answered", "dropped"},
         requests' = WithFate(requests, i, x)
  PROVE  OnlyFate(i) /\ requests'[i].fate = x
<1>1. requests \in Seq(Records) /\ i \in 1 .. Len(requests)
  BY DEF Types, Ids
<1>2. /\ requests' \in Seq(Records) /\ Len(requests') = Len(requests)
      /\ \A j \in 1 .. Len(requests) : j # i => requests'[j] = requests[j]
      /\ Same(requests[i], requests'[i]) /\ requests'[i].fate = x
      /\ requests'[i].outcome = requests[i].outcome /\ requests'[i].output = requests[i].output
  <2> DEFINE q == WithFate(requests, i, x)
  <2>1. /\ q \in Seq(Records) /\ Len(q) = Len(requests)
        /\ \A j \in 1 .. Len(requests) : j # i => q[j] = requests[j]
        /\ Same(requests[i], q[i]) /\ q[i].fate = x
        /\ q[i].outcome = requests[i].outcome /\ q[i].output = requests[i].output
    BY <1>1, FateSet
  <2>2. requests' = q
    OBVIOUS
  <2> HIDE DEF q
  <2> QED
    BY <2>1, <2>2
<1>3. Ids' = Ids /\ Grows
  BY <1>2 DEF Ids, Grows, Same
<1> QED
  BY <1>2, <1>3 DEF OnlyFate, Ids

LEMMA FateStep ==
  ASSUME IInv, NEW i \in Ids, OnlyFate(i)
  PROVE  /\ requests' \in Seq(Records) /\ Grows
         /\ \A j \in Ids' : requests'[j].outcome = "ok" =>
              \/ j \in Ids /\ requests[j].outcome = "ok"
              \/ RealTrace(j, requests[j].output)' /\ requests'[j].output \in Outputs
         /\ \A j \in Ids' : j \in Ids \/ Fresh(j)
         /\ calling' = calling /\ serving' = serving => ServingOK' /\ CallingOK'
<1>1. Grows /\ Ids' = Ids
  BY DEF OnlyFate
<1>2. ASSUME calling' = calling, serving' = serving PROVE ServingOK' /\ CallingOK'
  <2>1. \A a \in Agents : ServingAt(a)'
    BY <1>1, <1>2, ServingStays
  <2>2. \A n \in Nodes : CallingAt(n)'
    <3> SUFFICES ASSUME NEW n \in Nodes PROVE CallingAt(n)'
      OBVIOUS
    <3>1. calling[n] # 0 => requests'[calling[n]].outcome = "open"
      BY DEF IInv, CallingOK, CallingAt, OnlyFate
    <3> QED
      BY <1>1, <1>2, <3>1, CallingStays
  <2> QED
    BY <2>1, <2>2 DEF ServingOK, CallingOK
<1> QED
  BY <1>1, <1>2 DEF OnlyFate

-----------------------------------------------------------------------------
(* An error for a request that is refused.                                 *)
LEMMA RefuseStep ==
  ASSUME IInv, NEW a \in Agents, Refuse(a)
  PROVE  StepOK
<1> DEFINE i == Head(inbox[a]).id
           msg == ResponseMsg(i, Nil)
<1>0. Types /\ inbox \in Boxes /\ a \in Nodes
  BY DEF IInv, Types, Boxes, Nodes
<1>1. i \in Ids /\ Head(inbox[a]) = RequestMsg(i) /\ requests[i].to = a
  BY <1>0, HeadRequest DEF Refuse
<1>2. OnlyFate(i) /\ requests'[i].fate = "answered"
  BY <1>0, <1>1, SetFate DEF Refuse, WithFate
<1>3. serving' = serving /\ calling' = calling
  BY DEF Refuse
<1>4. Nil \in MaybeOutputs /\ requests[i].from \in Nodes
  BY <1>0, <1>1, RecordOf DEF MaybeOutputs
<1>5. msg \in Messages /\ msg.id = i /\ msg.type = "res" /\ msg.output = Nil
      /\ \A k : msg # RequestMsg(k)
  BY <1>0, <1>1, <1>4, ResponseIsMessage
<1>6. inbox' = Pushed(Popped(a), requests[i].from, msg) /\ inbox[a] # <<>>
  BY DEF Refuse, Reply
<1> HIDE DEF i, msg
<1>7. /\ inbox' \in Boxes
      /\ \A n \in Nodes : \A m : In(inbox', n, m) => In(inbox, n, m) \/ m = msg
      /\ \A n \in Nodes : \A k : In(inbox, n, RequestMsg(k)) =>
           In(inbox', n, RequestMsg(k)) \/ RequestMsg(k) = RequestMsg(i)
  BY <1>0, <1>1, <1>4, <1>5, <1>6, PoppedIn, PushedIn
<1>8. \A n \in Nodes : \A m : In(inbox', n, m) => In(inbox, n, m) \/ MessageOK(n, m)'
  BY <1>1, <1>2, <1>5, <1>7 DEF MessageOK, OnlyFate
<1>9. \A j \in Ids' : Remembered(requests', inbox', serving', j)
  <2> SUFFICES ASSUME NEW j \in Ids PROVE Remembered(requests', inbox', serving', j)
    BY <1>2 DEF OnlyFate
  <2>1. CASE j = i
    BY <1>2, <2>1 DEF Remembered
  <2>2. CASE j # i
    <3>1. requests'[j] = requests[j] /\ Remembered(requests, inbox, serving, j)
      BY <1>0, <1>2, <2>2, ForgottenIn DEF OnlyFate, IInv
    <3>2. RequestMsg(j) # RequestMsg(i) /\ requests[j].to \in Nodes
      BY <1>0, <2>2, RecordOf DEF RequestMsg, Nodes
    <3> QED
      BY <1>3, <1>7, <3>1, <3>2 DEF Remembered
  <2> QED
    BY <2>1, <2>2
<1> QED
  BY <1>0, <1>1, <1>2, <1>3, <1>7, <1>8, <1>9, FateStep DEF StepOK, Types

(* A request that is taken up.                                             *)
LEMMA ServeStep ==
  ASSUME IInv, NEW a \in Agents, Serve(a)
  PROVE  StepOK
<1>0. Types /\ inbox \in Boxes /\ a \in Nodes
  BY DEF IInv, Types, Boxes, Nodes
<1>1. PICK i \in Ids : /\ i = Head(inbox[a]).id
                       /\ Head(inbox[a]) = RequestMsg(i) /\ requests[i].to = a
  BY <1>0, HeadRequest DEF Serve
<1>2. OnlyFate(i) /\ requests'[i].fate = "served"
  BY <1>0, <1>1, SetFate DEF Serve, WithFate
<1>3. /\ serving' = [serving EXCEPT ![a] = i] /\ calling' = calling
      /\ serving[a] = 0 /\ inbox[a] # <<>> /\ inbox' = Popped(a)
      /\ Admissible(a, i) /\ requests[i].skill # "route"
  BY <1>1 DEF Serve, Idle
<1>4. /\ inbox' \in Boxes
      /\ \A n \in Nodes : \A m : In(inbox', n, m) => In(inbox, n, m)
      /\ \A n \in Nodes : \A k : In(inbox, n, RequestMsg(k)) =>
           In(inbox', n, RequestMsg(k)) \/ RequestMsg(k) = RequestMsg(i)
  BY <1>0, <1>1, <1>3, PoppedIn
<1>5. i \in Nat /\ i # 0
  BY <1>0, <1>1, RecordOf
<1>6. serving' \in [Agents -> Nat] /\ serving'[a] = i
      /\ \A b \in Agents : b # a => serving'[b] = serving[b]
  BY <1>0, <1>3, <1>5 DEF Types
<1>7. Grows /\ Ids' = Ids
  BY <1>2 DEF OnlyFate
<1>8. calling[a] = 0
  BY <1>0, <1>3 DEF IInv, CallingOK, CallingAt
<1>9. ServingOK'
  <2> SUFFICES ASSUME NEW b \in Agents PROVE ServingAt(b)'
    BY DEF ServingOK
  <2>1. CASE b = a
    <3>1. Same(requests[i], requests'[i])
      BY <1>1, <1>7 DEF Grows
    <3>2. Paid(a, i)
      BY <1>3 DEF Admissible
    <3>3. Paid(a, i)'
      BY <3>1, <3>2, PaidStays
    <3>4. Paid(a, serving[a])'
      BY <1>6, <3>3 DEF Paid, Expected
    <3> QED
      BY <1>1, <1>3, <1>6, <1>7, <1>8, <2>1, <3>1, <3>4 DEF ServingAt, Same
  <2>2. CASE b # a
    BY <1>3, <1>6, <1>7, <2>2, ServingStays
  <2> QED
    BY <2>1, <2>2
<1>10. CallingOK'
  <2> SUFFICES ASSUME NEW n \in Nodes PROVE CallingAt(n)'
    BY DEF CallingOK
  <2>1. calling[n] # 0 => requests'[calling[n]].outcome = "open"
    BY <1>2 DEF OnlyFate, IInv, CallingOK, CallingAt
  <2>2. calling[n] # 0 /\ n \in Agents => serving'[n] = serving[n]
    BY <1>6, <1>8
  <2> QED
    BY <1>3, <1>7, <2>1, <2>2, CallingStays
<1>11. \A j \in Ids' : Remembered(requests', inbox', serving', j)
  <2> SUFFICES ASSUME NEW j \in Ids PROVE Remembered(requests', inbox', serving', j)
    BY <1>7
  <2>1. CASE j = i
    <3>1. requests'[j].to = a
      BY <1>1, <1>7, <2>1 DEF Grows, Same
    <3> QED
      BY <1>2, <1>6, <2>1, <3>1 DEF Remembered
  <2>2. CASE j # i
    <3>1. requests'[j] = requests[j] /\ Remembered(requests, inbox, serving, j)
      BY <1>0, <1>2, <2>2, ForgottenIn DEF OnlyFate, IInv
    <3>2. RequestMsg(j) # RequestMsg(i) /\ requests[j].to \in Agents /\ requests[j].to \in Nodes
          /\ j # 0
      BY <1>0, <2>2, RecordOf DEF RequestMsg, Nodes
    <3> QED
      BY <1>3, <1>4, <1>6, <3>1, <3>2 DEF Remembered
  <2> QED
    BY <2>1, <2>2
<1> QED
  BY <1>0, <1>1, <1>2, <1>3, <1>4, <1>6, <1>9, <1>10, <1>11, FateStep DEF StepOK, Types

(* A response that is read and thrown away.                                *)
LEMMA DiscardResponse ==
  ASSUME IInv, NEW a \in Nodes, inbox[a] # <<>>, Head(inbox[a]).type = "res",
         inbox' = Popped(a), UNCHANGED <<requests, serving, calling>>
  PROVE  StepOK
<1>0. Types /\ inbox \in Boxes
  BY DEF IInv, Types, Boxes
<1>1. /\ requests' = requests /\ serving' = serving /\ calling' = calling
      /\ inbox[a] # <<>> /\ inbox' = Popped(a) /\ Head(inbox[a]).type = "res"
  OBVIOUS
<1>2. \A k : Head(inbox[a]) # RequestMsg(k)
  BY <1>1 DEF RequestMsg
<1>3. /\ inbox' \in Boxes
      /\ \A n \in Nodes : \A m : In(inbox', n, m) => In(inbox, n, m)
      /\ \A n \in Nodes : \A k : In(inbox, n, RequestMsg(k)) => In(inbox', n, RequestMsg(k))
  BY <1>0, <1>1, <1>2, PoppedIn
<1>4. Ids' = Ids /\ Grows
  BY <1>1 DEF Ids, Grows, Same
<1>5. ServingOK' /\ CallingOK'
  BY <1>1, <1>4 DEF IInv, ServingOK, ServingAt, CallingOK, CallingAt, Paid, Expected
<1>6. ASSUME NEW j \in Ids PROVE Remembered(requests', inbox', serving', j)
  <2>1. Remembered(requests, inbox, serving, j) /\ requests[j].to \in Nodes
    BY <1>0, ForgottenIn, RecordOf DEF IInv, Nodes
  <2> QED
    BY <1>1, <1>3, <2>1 DEF Remembered
<1> QED
  BY <1>0, <1>1, <1>3, <1>4, <1>5, <1>6 DEF StepOK, Types

(* The output of a skill of the agent's own.                               *)
LEMMA OwnOutput ==
  ASSUME NEW i \in Ids', NEW a \in Agents, requests'[i].skill # "route", requests'[i].to = a
  PROVE  Output(a, <<>>) \in Outputs /\ RealTrace(i, Output(a, <<>>))'
<1> DEFINE o == Output(a, <<>>)
<1>1. o.trace = <<>> /\ o.by = a /\ Len(o.trace) = 0
  BY DEF Output
<1>2. o \in Outputs
  BY DEF Output, Outputs
<1> HIDE DEF o
<1> DEFINE none == [h \in 1 .. Len(o.trace) |-> i]
           link(h) == IF h = 0 THEN i ELSE none[h]
<1>3. none \in [1 .. Len(o.trace) -> Ids'] /\ link(Len(o.trace)) = i
  BY <1>1
<1> HIDE DEF none
<1>4. RealTrace(i, o)'
  <2>1. \A h \in 1 .. Len(o.trace) : FALSE
    BY <1>1
  <2>2. \E m \in [1 .. Len(o.trace) -> Ids'] :
          LET l(h) == IF h = 0 THEN i ELSE m[h]
          IN  /\ \A h \in 1 .. Len(o.trace) : /\ requests'[l(h)].parent = l(h - 1)
                                              /\ requests'[l(h)].outcome = "ok"
                                              /\ o.trace[h] = Hop(l(h))'
              /\ requests'[l(Len(o.trace))].skill # "route"
              /\ requests'[l(Len(o.trace))].to = o.by
    <3> USE <1>3
    <3> WITNESS none \in [1 .. Len(o.trace) -> Ids']
    <3> QED
      BY <1>1, <2>1
  <2> QED
    BY <2>2 DEF RealTrace
<1> QED
  BY <1>2, <1>4 DEF o

(* The answer to what an agent serves ends what it does for it.            *)
LEMMA AnswerStep ==
  ASSUME IInv, NEW a \in Agents, NEW i \in Ids, i = serving[a],
         NEW out \in MaybeOutputs, out # Nil => RealTrace(i, out)',
         NEW box \in Boxes, \A n \in Nodes : \A m : In(box, n, m) => In(inbox, n, m),
         \A n \in Nodes : \A k : In(inbox, n, RequestMsg(k)) => In(box, n, RequestMsg(k)),
         inbox' = Pushed(box, requests[i].from, ResponseMsg(i, out)),
         requests' \in Seq(Records), Ids' = Ids, Grows,
         requests'[i].fate = "answered",
         \A j \in Ids : j # i => requests'[j].fate = requests[j].fate,
         \A n \in Nodes : n # a /\ calling[n] # 0 => requests'[calling[n]].outcome = "open",
         \A j \in Ids : requests'[j].outcome = "ok" =>
           \/ requests[j].outcome = "ok"
           \/ RealTrace(j, requests[j].output)' /\ requests'[j].output \in Outputs,
         serving' = [serving EXCEPT ![a] = 0],
         calling' \in [Nodes -> Nat], calling'[a] = 0,
         \A n \in Nodes : n # a => calling'[n] = calling[n]
  PROVE  StepOK
<1> DEFINE msg == ResponseMsg(i, out)
<1>0. Types
  BY DEF IInv
<1>1. requests[i].from \in Nodes
  BY <1>0, RecordOf
<1>2. msg \in Messages /\ msg.id = i /\ msg.type = "res" /\ msg.output = out
      /\ \A k : msg # RequestMsg(k)
  BY <1>0, ResponseIsMessage
<1> HIDE DEF msg
<1>3. inbox' = Pushed(box, requests[i].from, msg)
  BY DEF msg
<1>4. /\ inbox' \in Boxes
      /\ \A n \in Nodes : \A m : In(inbox', n, m) => In(box, n, m) \/ m = msg
      /\ \A n \in Nodes : \A k : In(inbox, n, RequestMsg(k)) => In(inbox', n, RequestMsg(k))
  BY <1>1, <1>2, <1>3, PushedIn
<1>5. \A n \in Nodes : \A m : In(inbox', n, m) => In(inbox, n, m) \/ MessageOK(n, m)'
  BY <1>2, <1>4 DEF MessageOK
<1>6. serving' \in [Agents -> Nat] /\ serving'[a] = 0
      /\ \A b \in Agents : b # a => serving'[b] = serving[b]
  BY <1>0 DEF Types
<1>7. ServingOK'
  <2> SUFFICES ASSUME NEW b \in Agents PROVE ServingAt(b)'
    BY DEF ServingOK
  <2>1. CASE b = a
    BY <1>6, <2>1 DEF ServingAt
  <2>2. CASE b # a
    <3>1. calling'[b] = calling[b]
      BY <2>2 DEF Nodes
    <3> QED
      BY <1>6, <2>2, <3>1, ServingStays
  <2> QED
    BY <2>1, <2>2
<1>8. CallingOK'
  <2> SUFFICES ASSUME NEW n \in Nodes PROVE CallingAt(n)'
    BY DEF CallingOK
  <2>1. CASE n = a
    BY <2>1 DEF CallingAt
  <2>2. CASE n # a
    <3>1. n \in Agents => serving'[n] = serving[n]
      BY <1>6, <2>2
    <3> QED
      BY <2>2, <3>1, CallingStays
  <2> QED
    BY <2>1, <2>2
<1>9. \A j \in Ids' : Remembered(requests', inbox', serving', j)
  <2> SUFFICES ASSUME NEW j \in Ids PROVE Remembered(requests', inbox', serving', j)
    OBVIOUS
  <2>1. CASE j = i
    BY <2>1 DEF Remembered
  <2>2. CASE j # i
    <3>1. Remembered(requests, inbox, serving, j) /\ requests'[j].fate = requests[j].fate
      BY <1>0, <2>2, ForgottenIn DEF IInv
    <3>2. requests'[j].to = requests[j].to /\ requests[j].to \in Agents
          /\ requests[j].to \in Nodes
      BY <1>0, RecordOf DEF Grows, Same, Nodes
    <3>3. requests[j].fate = "served" => serving'[requests[j].to] = j
      BY <1>6, <2>2, <3>1, <3>2 DEF Remembered
    <3> QED
      BY <1>4, <3>1, <3>2, <3>3 DEF Remembered
  <2> QED
    BY <2>1, <2>2
<1> QED
  BY <1>4, <1>5, <1>6, <1>7, <1>8, <1>9 DEF StepOK

(* The handler of a skill of the agent's own ends.                         *)
LEMMA ReturnStep ==
  ASSUME IInv, NEW a \in Agents, Return(a)
  PROVE  StepOK
<1>0. Types /\ inbox \in Boxes /\ a \in Nodes
  BY DEF IInv, Types, Boxes, Nodes
<1>1. PICK i \in Ids : i = serving[a] /\ requests[i].to = a /\ requests[i].skill # "route"
  BY DEF Return, Idle, IInv, ServingOK, ServingAt
<1>2. OnlyFate(i) /\ requests'[i].fate = "answered"
  BY <1>0, <1>1, SetFate DEF Return, WithFate
<1>3. /\ serving' = [serving EXCEPT ![a] = 0] /\ calling' = calling /\ calling[a] = 0
  BY DEF Return
<1>4. Ids' = Ids /\ Grows
  BY <1>2 DEF OnlyFate
<1>5. requests'[i].skill # "route" /\ requests'[i].to = a
  BY <1>1, <1>4 DEF Grows, Same
<1>6. Output(a, <<>>) \in Outputs /\ RealTrace(i, Output(a, <<>>))'
  BY <1>4, <1>5, OwnOutput
<1>7. \E out \in MaybeOutputs :
        /\ out # Nil => RealTrace(i, out)'
        /\ inbox' = Pushed(inbox, requests[i].from, ResponseMsg(i, out))
  <2>1. CASE Reply(inbox, i, Output(a, <<>>))
    BY <1>6, <2>1 DEF Reply, MaybeOutputs
  <2>2. CASE Reply(inbox, i, Nil)
    BY <2>2 DEF Reply, MaybeOutputs
  <2> QED
    BY <1>1, <2>1, <2>2 DEF Return
<1>8. \A n \in Nodes : calling[n] # 0 => requests'[calling[n]].outcome = "open"
  BY <1>2 DEF OnlyFate, IInv, CallingOK, CallingAt
<1>9. PICK out \in MaybeOutputs :
        /\ out # Nil => RealTrace(i, out)'
        /\ inbox' = Pushed(inbox, requests[i].from, ResponseMsg(i, out))
  BY <1>7
<1>10. /\ requests' \in Seq(Records)
       /\ \A j \in Ids : j # i => requests'[j].fate = requests[j].fate
       /\ \A j \in Ids : requests'[j].outcome = "ok" => requests[j].outcome = "ok"
  BY <1>2 DEF OnlyFate
<1>11. calling' \in [Nodes -> Nat] /\ calling'[a] = 0
       /\ \A n \in Nodes : n # a => calling'[n] = calling[n]
  BY <1>0, <1>3 DEF Types
<1> QED
  BY <1>0, <1>1, <1>2, <1>3, <1>4, <1>8, <1>9, <1>10, <1>11, AnswerStep

(* The request that a node waits for ends with an output or without.       *)
LEMMA EndedRequest ==
  ASSUME IInv, NEW n \in Nodes, NEW k \in Ids, k = calling[n], calling[n] # 0,
         NEW out \in MaybeOutputs
  PROVE  LET e == Ended(k, out)
         IN  /\ e \in Seq(Records) /\ Len(e) = Len(requests)
             /\ \A j \in Ids : Same(requests[j], e[j]) /\ e[j].fate = requests[j].fate
             /\ \A j \in Ids : j # k => e[j].outcome = requests[j].outcome
             /\ out # Nil => e[k].outcome = "ok" /\ e[k].output = out
             /\ out = Nil => e[k].outcome = "failed"
             /\ \A m \in Nodes : m # n /\ calling[m] # 0 =>
                  calling[m] \in Ids /\ e[calling[m]].outcome = "open"
<1>1. Types /\ requests[k].outcome = "open" /\ requests[k].from = n
  BY DEF IInv, CallingOK, CallingAt
<1> DEFINE e == Ended(k, out)
<1>2. /\ e \in Seq(Records) /\ Len(e) = Len(requests)
      /\ \A j \in Ids : j # k => e[j] = requests[j]
      /\ Same(requests[k], e[k]) /\ e[k].fate = requests[k].fate
      /\ e[k].outcome = IF out = Nil THEN "failed" ELSE "ok"
      /\ e[k].output = out
  BY <1>1, EndSet
<1> HIDE DEF e
<1>3. \A j \in Ids : Same(requests[j], e[j]) /\ e[j].fate = requests[j].fate
  BY <1>2 DEF Same
<1>4. ASSUME NEW m \in Nodes, m # n, calling[m] # 0
      PROVE  calling[m] \in Ids /\ e[calling[m]].outcome = "open"
  BY <1>1, <1>2, <1>4 DEF IInv, CallingOK, CallingAt
<1>5. \A j \in Ids : j # k => e[j].outcome = requests[j].outcome
  BY <1>2
<1> QED
  BY <1>2, <1>3, <1>4, <1>5 DEF e

(* The hop of a router ends, and with it the request it was for.           *)
LEMMA HopEnds ==
  ASSUME IInv, NEW a \in Agents, NEW i \in Ids, NEW k \in Ids, i = serving[a],
         k = calling[a], calling[a] # 0, NEW out \in MaybeOutputs,
         requests' = WithFate(Ended(k, out), i, "answered")
  PROVE  /\ requests' \in Seq(Records) /\ Ids' = Ids /\ Grows
         /\ requests'[i].fate = "answered"
         /\ \A j \in Ids : j # i => requests'[j].fate = requests[j].fate
         /\ \A n \in Nodes : n # a /\ calling[n] # 0 => requests'[calling[n]].outcome = "open"
         /\ \A j \in Ids : j # k => requests'[j].outcome = requests[j].outcome
         /\ out # Nil => requests'[k].outcome = "ok" /\ requests'[k].output = out
         /\ out = Nil => requests'[k].outcome = "failed"
<1> DEFINE e == Ended(k, out)
           q == WithFate(e, i, "answered")
<1>1. /\ e \in Seq(Records) /\ Len(e) = Len(requests)
      /\ \A j \in Ids : Same(requests[j], e[j]) /\ e[j].fate = requests[j].fate
      /\ \A j \in Ids : j # k => e[j].outcome = requests[j].outcome
      /\ out # Nil => e[k].outcome = "ok" /\ e[k].output = out
      /\ out = Nil => e[k].outcome = "failed"
      /\ \A m \in Nodes : m # a /\ calling[m] # 0 =>
           calling[m] \in Ids /\ e[calling[m]].outcome = "open"
  BY EndedRequest DEF Nodes
<1> HIDE DEF e
<1>2. /\ q \in Seq(Records) /\ Len(q) = Len(requests)
      /\ \A j \in Ids : j # i => q[j] = e[j]
      /\ Same(e[i], q[i]) /\ q[i].fate = "answered"
      /\ q[i].outcome = e[i].outcome /\ q[i].output = e[i].output
  <2>1. i \in 1 .. Len(e) /\ Ids = 1 .. Len(e)
    BY <1>1 DEF Ids
  <2>2. e \in Seq(Records)
    BY <1>1
  <2>3. /\ q \in Seq(Records) /\ Len(q) = Len(e)
        /\ \A j \in 1 .. Len(e) : j # i => q[j] = e[j]
        /\ Same(e[i], q[i]) /\ q[i].fate = "answered"
        /\ q[i].outcome = e[i].outcome /\ q[i].output = e[i].output
    <3>1. i \in 1 .. Len(e) /\ "answered" \in {"sent", "served", "answered", "dropped"}
      BY <2>1
    <3> QED
      BY <2>2, <3>1, FateSet
  <2> HIDE DEF q
  <2> QED
    BY <1>1, <2>1, <2>3
<1>3. requests' = q
  BY DEF e
<1> HIDE DEF q
<1>4. Ids' = Ids
  BY <1>2, <1>3 DEF Ids
<1>5. \A j \in Ids : /\ Same(requests[j], q[j])
                     /\ q[j].outcome = e[j].outcome /\ q[j].output = e[j].output
  BY <1>1, <1>2 DEF Same
<1>6. Grows
  BY <1>3, <1>4, <1>5 DEF Grows
<1> QED
  BY <1>1, <1>2, <1>3, <1>4, <1>5, <1>6

LEMMA HopTimesOutStep ==
  ASSUME IInv, NEW a \in Agents, HopTimesOut(a)
  PROVE  StepOK
<1>0. Types /\ inbox \in Boxes /\ a \in Nodes
  BY DEF IInv, Types, Boxes, Nodes
<1>1. PICK k \in Ids : k = calling[a] /\ calling[a] # 0 /\ serving[a] # 0
  BY <1>0 DEF HopTimesOut, Waits, IInv, CallingOK, CallingAt
<1>2. PICK i \in Ids : i = serving[a]
  BY <1>1 DEF IInv, ServingOK, ServingAt
<1>3. Nil \in MaybeOutputs
  BY DEF MaybeOutputs
<1>4. requests' = WithFate(Ended(k, Nil), i, "answered")
  BY <1>1, <1>2 DEF HopTimesOut, WithFate
<1>5. /\ requests' \in Seq(Records) /\ Ids' = Ids /\ Grows
      /\ requests'[i].fate = "answered"
      /\ \A j \in Ids : j # i => requests'[j].fate = requests[j].fate
      /\ \A n \in Nodes : n # a /\ calling[n] # 0 => requests'[calling[n]].outcome = "open"
      /\ \A j \in Ids : j # k => requests'[j].outcome = requests[j].outcome
      /\ requests'[k].outcome = "failed"
  BY <1>1, <1>2, <1>3, <1>4, HopEnds
<1>6. inbox' = Pushed(inbox, requests[i].from, ResponseMsg(i, Nil))
  BY <1>2 DEF HopTimesOut, Reply
<1>7. /\ serving' = [serving EXCEPT ![a] = 0]
      /\ calling' \in [Nodes -> Nat] /\ calling'[a] = 0
      /\ \A n \in Nodes : n # a => calling'[n] = calling[n]
  BY <1>0 DEF HopTimesOut, Types
<1>8. \A j \in Ids : requests'[j].outcome = "ok" => requests[j].outcome = "ok"
  BY <1>5
<1> QED
  BY <1>0, <1>2, <1>3, <1>5, <1>6, <1>7, <1>8, AnswerStep

(* The answer of the hop, spliced behind it.                               *)
LEMMA HopReturnsStep ==
  ASSUME IInv, NEW a \in Agents, HopReturns(a)
  PROVE  StepOK
<1>0. Types /\ inbox \in Boxes /\ a \in Nodes
  BY DEF IInv, Types, Boxes, Nodes
<1>1. PICK k \in Ids : /\ k = calling[a] /\ calling[a] # 0 /\ serving[a] # 0
                       /\ requests[k].parent = serving[a] /\ requests[k].from = a
  BY <1>0 DEF HopReturns, Waits, IInv, CallingOK, CallingAt
<1>2. PICK i \in Ids : i = serving[a]
  BY <1>1 DEF IInv, ServingOK, ServingAt
<1>3. PICK out \in MaybeOutputs : /\ out = Head(inbox[a]).output
                                  /\ out # Nil => RealTrace(k, out)
  BY <1>0, <1>1, HeadResponse DEF HopReturns, Mine
<1>4. requests' = WithFate(Ended(k, out), i, "answered")
  BY <1>1, <1>2, <1>3 DEF HopReturns, WithFate
<1>5. /\ requests' \in Seq(Records) /\ Ids' = Ids /\ Grows
      /\ requests'[i].fate = "answered"
      /\ \A j \in Ids : j # i => requests'[j].fate = requests[j].fate
      /\ \A n \in Nodes : n # a /\ calling[n] # 0 => requests'[calling[n]].outcome = "open"
      /\ \A j \in Ids : j # k => requests'[j].outcome = requests[j].outcome
      /\ out # Nil => requests'[k].outcome = "ok" /\ requests'[k].output = out
      /\ out = Nil => requests'[k].outcome = "failed"
  BY <1>1, <1>2, <1>4, HopEnds
<1>6. PICK reply : reply = IF out = Nil THEN Nil ELSE Output(out.by, <<Hop(k)>> \o out.trace)
  OBVIOUS
<1>7. out # Nil => out \in Outputs /\ RealTrace(k, out)'
  BY <1>3, <1>5, TraceStays DEF MaybeOutputs
<1>8. PICK hop \in [from : Agents, to : Agents, skill : SkillNames] :
        hop = Hop(k) /\ hop = Hop(k)'
  <2>1. requests[k] \in Records /\ Same(requests[k], requests'[k])
    BY <1>0, <1>5, RecordOf DEF Grows
  <2>2. Hop(k) \in [from : Agents, to : Agents, skill : SkillNames]
    BY <1>1, <2>1 DEF Hop, Records
  <2>3. Hop(k) = Hop(k)'
    BY <2>1 DEF Hop, Same
  <2> QED
    BY <2>2, <2>3
<1>9. reply \in MaybeOutputs /\ (reply # Nil => RealTrace(i, reply)')
  <2>1. CASE out = Nil
    BY <1>6, <2>1 DEF MaybeOutputs
  <2>2. CASE out # Nil
    <3>1. requests'[k].parent = i
      BY <1>1, <1>2, <1>5 DEF Grows, Same
    <3>2. /\ Output(out.by, <<hop>> \o out.trace) \in Outputs
          /\ RealTrace(i, Output(out.by, <<hop>> \o out.trace))'
      BY <1>5, <1>7, <1>8, <2>2, <3>1, TraceExtends
    <3>3. reply = Output(out.by, <<hop>> \o out.trace)
      BY <1>6, <1>8, <2>2
    <3> QED
      BY <3>2, <3>3 DEF MaybeOutputs
  <2> QED
    BY <2>1, <2>2
<1>10. inbox' = Pushed(Popped(a), requests[i].from, ResponseMsg(i, reply))
  BY <1>1, <1>2, <1>3, <1>6 DEF HopReturns, Reply
<1>11. /\ serving' = [serving EXCEPT ![a] = 0]
       /\ calling' \in [Nodes -> Nat] /\ calling'[a] = 0
       /\ \A n \in Nodes : n # a => calling'[n] = calling[n]
  BY <1>0 DEF HopReturns, Types
<1>12. \A j \in Ids : requests'[j].outcome = "ok" =>
         \/ requests[j].outcome = "ok"
         \/ RealTrace(j, requests[j].output)' /\ requests'[j].output \in Outputs
  BY <1>5, <1>7
<1>13. /\ Popped(a) \in Boxes
       /\ \A n \in Nodes : \A m : In(Popped(a), n, m) => In(inbox, n, m)
       /\ \A n \in Nodes : \A c : In(inbox, n, RequestMsg(c)) => In(Popped(a), n, RequestMsg(c))
  <2>1. inbox[a] # <<>> /\ \A c : Head(inbox[a]) # RequestMsg(c)
    BY DEF HopReturns, Mine, RequestMsg
  <2> QED
    BY <1>0, <2>1, PoppedIn
<1> QED
  BY <1>2, <1>5, <1>9, <1>10, <1>11, <1>12, <1>13, AnswerStep

(* A node that waits throws away what is not its answer.                   *)
LEMMA DropStep ==
  ASSUME IInv, NEW n \in Nodes, Drop(n)
  PROVE  StepOK
<1>0. Types /\ inbox \in Boxes
  BY DEF IInv, Types, Boxes
<1>1. /\ inbox[n] # <<>> /\ inbox' = Popped(n) /\ calling[n] # 0
      /\ serving' = serving /\ calling' = calling
      /\ Head(inbox[n]).type # "req" => requests' = requests
  BY DEF Drop, Waits
<1>2. Head(inbox[n]).type \in {"req", "res"}
  <2>1. Head(inbox[n]) \in Messages
    BY <1>0, <1>1, PoppedIn
  <2> QED
    BY <2>1 DEF Messages
<1>3. CASE Head(inbox[n]).type = "res"
  BY <1>1, <1>3, DiscardResponse
<1>4. CASE Head(inbox[n]).type = "req"
  <2>1. PICK i \in Ids : /\ i = Head(inbox[n]).id
                         /\ Head(inbox[n]) = RequestMsg(i) /\ requests[i].to = n
    BY <1>1, <1>4, HeadRequest
  <2>2. OnlyFate(i) /\ requests'[i].fate = "dropped"
    BY <1>0, <1>4, <2>1, SetFate DEF Drop, WithFate
  <2>3. "route" \in Offers[n]
    <3>1. n \in Agents
      BY <1>1, <1>4, HeadRequest
    <3> QED
      BY <1>1, <3>1 DEF IInv, CallingOK, CallingAt
  <2>4. /\ inbox' \in Boxes
        /\ \A p \in Nodes : \A m : In(inbox', p, m) => In(inbox, p, m)
        /\ \A p \in Nodes : \A k : In(inbox, p, RequestMsg(k)) =>
             In(inbox', p, RequestMsg(k)) \/ RequestMsg(k) = RequestMsg(i)
    BY <1>0, <1>1, <2>1, PoppedIn
  <2>5. \A j \in Ids' : Remembered(requests', inbox', serving', j)
    <3> SUFFICES ASSUME NEW j \in Ids PROVE Remembered(requests', inbox', serving', j)
      BY <2>2 DEF OnlyFate
    <3>1. CASE j = i
      <4>1. requests'[i].to = n
        BY <2>1, <2>2 DEF OnlyFate, Grows, Same
      <4> QED
        BY <2>2, <2>3, <3>1, <4>1 DEF Remembered
    <3>2. CASE j # i
      <4>1. requests'[j] = requests[j] /\ Remembered(requests, inbox, serving, j)
        BY <1>0, <2>2, <3>2, ForgottenIn DEF OnlyFate, IInv
      <4>2. RequestMsg(j) # RequestMsg(i) /\ requests[j].to \in Nodes
        BY <1>0, <3>2, RecordOf DEF RequestMsg, Nodes
      <4> QED
        BY <1>1, <2>4, <4>1, <4>2 DEF Remembered
    <3> QED
      BY <3>1, <3>2
  <2> QED
    BY <1>0, <1>1, <2>1, <2>2, <2>4, <2>5, FateStep DEF StepOK, Types
<1> QED
  BY <1>2, <1>3, <1>4

(* The call of a client ends.                                              *)
LEMMA CallEnds ==
  ASSUME IInv, NEW c \in Clients, calling[c] # 0, NEW out \in MaybeOutputs,
         out # Nil => RealTrace(calling[c], out),
         requests' = Ended(calling[c], out),
         inbox' \in Boxes, \A n \in Nodes : \A m : In(inbox', n, m) => In(inbox, n, m),
         \A n \in Nodes : \A k : In(inbox, n, RequestMsg(k)) => In(inbox', n, RequestMsg(k)),
         calling' = [calling EXCEPT ![c] = 0], serving' = serving
  PROVE  StepOK
<1>0. Types /\ c \in Nodes /\ c \notin Agents
  BY SwarmAssumption DEF IInv, Nodes
<1>1. PICK k \in Ids : k = calling[c]
  BY <1>0 DEF IInv, CallingOK, CallingAt
<1> DEFINE e == Ended(k, out)
<1>2. /\ e \in Seq(Records) /\ Len(e) = Len(requests)
      /\ \A j \in Ids : Same(requests[j], e[j]) /\ e[j].fate = requests[j].fate
      /\ \A j \in Ids : j # k => e[j].outcome = requests[j].outcome
      /\ out # Nil => e[k].outcome = "ok" /\ e[k].output = out
      /\ out = Nil => e[k].outcome = "failed"
      /\ \A m \in Nodes : m # c /\ calling[m] # 0 =>
           calling[m] \in Ids /\ e[calling[m]].outcome = "open"
  BY <1>0, <1>1, EndedRequest
<1>3. requests' = e
  BY <1>1
<1> HIDE DEF e
<1>4. Ids' = Ids /\ Grows
  BY <1>2, <1>3 DEF Ids, Grows
<1>5. /\ calling' \in [Nodes -> Nat] /\ calling'[c] = 0
      /\ \A n \in Nodes : n # c => calling'[n] = calling[n]
  BY <1>0 DEF Types
<1>6. ServingOK'
  <2> SUFFICES ASSUME NEW a \in Agents PROVE ServingAt(a)'
    BY DEF ServingOK
  <2>1. calling'[a] = calling[a]
    BY <1>0, <1>5 DEF Nodes
  <2> QED
    BY <1>4, <2>1, ServingStays
<1>7. CallingOK'
  <2> SUFFICES ASSUME NEW n \in Nodes PROVE CallingAt(n)'
    BY DEF CallingOK
  <2>1. CASE n = c
    BY <1>5, <2>1 DEF CallingAt
  <2>2. CASE n # c
    BY <1>2, <1>3, <1>4, <1>5, <2>2, CallingStays
  <2> QED
    BY <2>1, <2>2
<1>8. \A j \in Ids' : Remembered(requests', inbox', serving', j)
  <2> SUFFICES ASSUME NEW j \in Ids PROVE Remembered(requests', inbox', serving', j)
    BY <1>4
  <2>1. Remembered(requests, inbox, serving, j) /\ requests[j].to \in Nodes
    BY <1>0, ForgottenIn, RecordOf DEF IInv, Nodes
  <2>2. requests'[j].fate = requests[j].fate /\ requests'[j].to = requests[j].to
    BY <1>2, <1>3 DEF Same
  <2> QED
    BY <2>1, <2>2 DEF Remembered
<1>9. \A j \in Ids : requests'[j].outcome = "ok" =>
        \/ requests[j].outcome = "ok"
        \/ RealTrace(j, requests[j].output)' /\ requests'[j].output \in Outputs
  <2>1. out # Nil => out \in Outputs /\ RealTrace(k, out)'
    BY <1>1, <1>4, TraceStays DEF MaybeOutputs
  <2> QED
    BY <1>2, <1>3, <2>1
<1> QED
  BY <1>0, <1>2, <1>3, <1>4, <1>5, <1>6, <1>7, <1>8, <1>9 DEF StepOK, Types

LEMMA CallEndsStep ==
  ASSUME IInv, NEW c \in Clients, CallReturns(c) \/ CallTimesOut(c)
  PROVE  StepOK
<1>0. Types /\ inbox \in Boxes /\ c \in Nodes
  BY DEF IInv, Types, Boxes, Nodes
<1>1. CASE CallTimesOut(c)
  <2>1. Nil \in MaybeOutputs
    BY DEF MaybeOutputs
  <2> QED
    BY <1>0, <1>1, <2>1, CallEnds DEF CallTimesOut, Waits
<1>2. CASE CallReturns(c)
  <2>1. PICK out \in MaybeOutputs : /\ out = Head(inbox[c]).output
                                    /\ out # Nil => RealTrace(calling[c], out)
    BY <1>0, <1>2, HeadResponse DEF CallReturns, Mine
  <2>2. inbox[c] # <<>> /\ inbox' = Popped(c) /\ \A k : Head(inbox[c]) # RequestMsg(k)
    BY <1>2 DEF CallReturns, Mine, RequestMsg
  <2>3. /\ inbox' \in Boxes
        /\ \A n \in Nodes : \A m : In(inbox', n, m) => In(inbox, n, m)
        /\ \A n \in Nodes : \A k : In(inbox, n, RequestMsg(k)) => In(inbox', n, RequestMsg(k))
    BY <1>0, <2>2, PoppedIn
  <2>4. /\ requests' = Ended(calling[c], out) /\ calling[c] # 0
        /\ calling' = [calling EXCEPT ![c] = 0] /\ serving' = serving
    BY <1>2, <2>1 DEF CallReturns, Waits
  <2> QED
    BY <2>1, <2>3, <2>4, CallEnds
<1> QED
  BY <1>1, <1>2

-----------------------------------------------------------------------------
(* A request is sent: by a caller, or by a router for what it serves.      *)
LEMMA AddedRequest ==
  ASSUME Types, NEW q \in Seq(Records), Len(q) = Len(requests),
         \A j \in Ids : Same(requests[j], q[j]),
         NEW r \in Records, requests' = Append(q, r)
  PROVE  /\ requests' \in Seq(Records)
         /\ Len(requests) + 1 \in Nat /\ Len(requests) + 1 # 0
         /\ Ids' = Ids \cup {Len(requests) + 1} /\ Len(requests) + 1 \notin Ids
         /\ \A j \in Ids : requests'[j] = q[j]
         /\ requests'[Len(requests) + 1] = r
         /\ Grows
<1>1. /\ requests' \in Seq(Records)
      /\ Len(q) \in Nat /\ Len(requests') = Len(q) + 1
      /\ \A j \in 1 .. Len(q) : requests'[j] = q[j]
      /\ requests'[Len(q) + 1] = r
  BY Added
<1>2. Ids' = Ids \cup {Len(requests) + 1} /\ Len(requests) + 1 \notin Ids
  BY <1>1 DEF Ids
<1>3. \A j \in Ids : requests'[j] = q[j]
  BY <1>1 DEF Ids
<1>4. Grows
  BY <1>2, <1>3 DEF Grows
<1>5. Len(requests) + 1 \in Nat /\ Len(requests) + 1 # 0
  BY <1>1
<1>6. requests'[Len(requests) + 1] = r
  BY <1>1
<1> QED
  BY <1>1, <1>2, <1>3, <1>4, <1>5, <1>6

LEMMA NewRecord ==
  ASSUME NEW from \in Nodes, NEW to \in Agents, NEW skill \in SkillNames,
         NEW path \in Seq(Tags), NEW budget \in Nat,
         NEW receipt \in Receipts \cup {Nil}, NEW parent \in Nat
  PROVE  NewRequest(from, to, skill, path, budget, receipt, parent) \in Records
  BY DEF NewRequest, Records, MaybeOutputs

LEMMA RequestIsMessage ==
  ASSUME NEW k \in Nat
  PROVE  /\ RequestMsg(k) \in Messages
         /\ RequestMsg(k).id = k /\ RequestMsg(k).type = "req"
         /\ \A j : RequestMsg(j) = RequestMsg(k) => j = k
  BY DEF RequestMsg, Messages

LEMMA CallStep ==
  ASSUME IInv, NEW c \in Clients, Call(c)
  PROVE  StepOK
<1> DEFINE k == Len(requests) + 1
<1>0. Types /\ inbox \in Boxes /\ c \in Nodes /\ c \notin Agents
  BY SwarmAssumption DEF IInv, Types, Boxes, Nodes
<1>a. PICK q \in Plans[c] : \E receipt \in Shown(c, q.dest) :
        /\ requests' = Append(requests, NewRequest(c, q.dest, q.skill, q.path, q.budget,
                                                   receipt, 0))
        /\ inbox' = Pushed(inbox, q.dest, RequestMsg(k))
  BY DEF Call
<1>1. PICK receipt \in Shown(c, q.dest) :
        /\ requests' = Append(requests, NewRequest(c, q.dest, q.skill, q.path, q.budget,
                                                   receipt, 0))
        /\ inbox' = Pushed(inbox, q.dest, RequestMsg(k))
  BY <1>a
<1>2. q \in Calls
  BY SwarmAssumption
<1>3. PICK dest \in Agents : dest = q.dest /\ dest \in Nodes
  BY <1>2 DEF Calls, Nodes
<1>4. /\ receipt \in Receipts \cup {Nil}
      /\ receipt = Nil \/ ~receipt.settled \/ (receipt = Receipt(c) /\ pay[c] = "receipt")
  <2>1. Receipt(c) \in Receipts
    BY <1>0, SettlementAssumption DEF Types, PayTypeOK, Receipt, Receipts
  <2>2. \A h \in ByHand : h \in Receipts /\ ~h.settled
    BY SettlementAssumption
  <2> QED
    BY <2>1, <2>2 DEF Shown, Held
<1>5. PICK r \in Records :
        /\ r = NewRequest(c, q.dest, q.skill, q.path, q.budget, receipt, 0)
        /\ r.from = c /\ r.to = dest /\ r.receipt = receipt
        /\ r.fate = "sent" /\ r.outcome = "open" /\ r.parent = 0
  <2>1. NewRequest(c, q.dest, q.skill, q.path, q.budget, receipt, 0) \in Records
    BY <1>0, <1>2, <1>4, NewRecord DEF Calls
  <2> QED
    BY <1>3, <2>1 DEF NewRequest
<1>6. requests' = Append(requests, r)
  BY <1>1, <1>4, <1>5
<1>7. /\ requests' \in Seq(Records) /\ k \in Nat /\ k # 0
      /\ Ids' = Ids \cup {k} /\ k \notin Ids
      /\ \A j \in Ids : requests'[j] = requests[j]
      /\ requests'[k] = r
      /\ Grows
  <2>1. requests \in Seq(Records) /\ \A j \in Ids : Same(requests[j], requests[j])
    BY <1>0 DEF Types, Same
  <2> QED
    BY <1>0, <1>6, <2>1, AddedRequest
<1>8. /\ calling' = [calling EXCEPT ![c] = k] /\ serving' = serving /\ calling[c] = 0
  BY DEF Call, Waits
<1>9. inbox' = Pushed(inbox, dest, RequestMsg(k))
  BY <1>1, <1>3
<1> HIDE DEF k
<1>10. /\ inbox' \in Boxes
       /\ \A n \in Nodes : \A m : In(inbox', n, m) <=>
            In(inbox, n, m) \/ (n = dest /\ m = RequestMsg(k))
       /\ RequestMsg(k).id = k /\ RequestMsg(k).type = "req"
  BY <1>0, <1>3, <1>7, <1>9, PushedIn, RequestIsMessage
<1>11. \A n \in Nodes : \A m : In(inbox', n, m) => In(inbox, n, m) \/ MessageOK(n, m)'
  BY <1>5, <1>7, <1>10 DEF MessageOK, RequestMsg
<1>12. /\ calling' \in [Nodes -> Nat] /\ calling'[c] = k
       /\ \A n \in Nodes : n # c => calling'[n] = calling[n]
  BY <1>0, <1>7, <1>8 DEF Types
<1>13. ServingOK'
  <2> SUFFICES ASSUME NEW a \in Agents PROVE ServingAt(a)'
    BY DEF ServingOK
  <2>1. calling'[a] = calling[a]
    BY <1>0, <1>12 DEF Nodes
  <2> QED
    BY <1>7, <1>8, <2>1, ServingStays
<1>14. CallingOK'
  <2> SUFFICES ASSUME NEW n \in Nodes PROVE CallingAt(n)'
    BY DEF CallingOK
  <2>1. CASE n = c
    BY <1>0, <1>5, <1>7, <1>12, <2>1 DEF CallingAt
  <2>2. CASE n # c
    <3>1. calling[n] # 0 => requests'[calling[n]].outcome = "open"
      BY <1>7 DEF IInv, CallingOK, CallingAt
    <3> QED
      BY <1>7, <1>8, <1>12, <2>2, <3>1, CallingStays
  <2> QED
    BY <2>1, <2>2
<1>15. \A j \in Ids' : Remembered(requests', inbox', serving', j)
  <2>1. ASSUME NEW j \in Ids PROVE Remembered(requests', inbox', serving', j)
    <3>1. Remembered(requests, inbox, serving, j) /\ requests[j].to \in Nodes
      BY <1>0, ForgottenIn, RecordOf DEF IInv, Nodes
    <3> QED
      BY <1>7, <1>8, <1>10, <3>1 DEF Remembered
  <2>2. Remembered(requests', inbox', serving', k)
    BY <1>3, <1>5, <1>7, <1>10 DEF Remembered
  <2> QED
    BY <1>7, <2>1, <2>2
<1>16. ASSUME NEW j \in Ids', j = k PROVE Fresh(j)
  <2>1. \/ r.receipt = Nil \/ ~r.receipt.settled
        \/ \E d \in Clients : r.receipt = Receipt(d) /\ execution[d] = "completed"
    BY <1>4, <1>5 DEF IInv, SeenOfTransfer
  <2>2. requests'[j] = r /\ j \in Nat /\ j # 0
    BY <1>7, <1>16
  <2>3. Descends(j)'
    BY <1>5, <2>2 DEF Descends
  <2> QED
    BY <2>1, <2>2, <2>3 DEF Fresh
<1>17. \A j \in Ids' : requests'[j].outcome = "ok" => j \in Ids /\ requests[j].outcome = "ok"
  BY <1>5, <1>7
<1> QED
  BY <1>0, <1>7, <1>8, <1>10, <1>11, <1>12, <1>13, <1>14, <1>15, <1>16, <1>17
     DEF StepOK, Types

(* A request that is forwarded.                                            *)
LEMMA RouteStep ==
  ASSUME IInv, NEW a \in Agents, Route(a)
  PROVE  StepOK
<1> DEFINE k == Len(requests) + 1
<1>0. Types /\ inbox \in Boxes /\ a \in Nodes
  BY DEF IInv, Types, Boxes, Nodes
<1>1. PICK i \in Ids : /\ i = Head(inbox[a]).id
                       /\ Head(inbox[a]) = RequestMsg(i) /\ requests[i].to = a
  BY <1>0, HeadRequest DEF Route
<1>2. /\ requests' = Append(WithFate(requests, i, "served"), HopRequest(a, i))
      /\ inbox' = Pushed(Popped(a), HopRequest(a, i).to, RequestMsg(k))
      /\ serving' = [serving EXCEPT ![a] = i] /\ calling' = [calling EXCEPT ![a] = k]
      /\ serving[a] = 0 /\ inbox[a] # <<>>
      /\ Admissible(a, i) /\ requests[i].skill = "route"
  BY <1>1 DEF Route, Idle, WithFate
<1>3. i \in Nat /\ i # 0 /\ requests[i] \in Records
  BY <1>0, RecordOf
<1>4. PICK hop \in Records :
        /\ hop = HopRequest(a, i)
        /\ hop.from = a /\ hop.receipt = Nil /\ hop.parent = i
        /\ hop.fate = "sent" /\ hop.outcome = "open"
        /\ hop.budget = requests[i].budget - 1
        /\ hop.to \in Agents /\ hop.to \in Nodes
  <2> DEFINE r == Table[a][Head(requests[i].path)]
  <2>1. /\ requests[i].path # <<>> /\ requests[i].budget > 0
        /\ Head(requests[i].path) \in DOMAIN Table[a]
    BY <1>2 DEF Admissible
  <2>2. r \in Routes
    BY <2>1, SwarmAssumption
  <2>3. r.dest \in Agents /\ r.skill \in SkillNames
    BY <2>2 DEF Routes
  <2>4. requests[i].path \in Seq(Tags) /\ requests[i].budget \in Nat
    BY <1>3 DEF Records
  <2>5. Tail(requests[i].path) \in Seq(Tags)
    BY <2>1, <2>4, HeadTailProperties
  <2>6. ForwardedBudget(i) \in Nat
    BY <2>1, <2>4 DEF ForwardedBudget
  <2> HIDE DEF r
  <2>7. NewRequest(a, r.dest, r.skill, Tail(requests[i].path), ForwardedBudget(i), Nil, i)
          \in Records
    BY <1>0, <1>3, <2>3, <2>5, <2>6, NewRecord
  <2>8. HopRequest(a, i)
          = NewRequest(a, r.dest, r.skill, Tail(requests[i].path), ForwardedBudget(i), Nil, i)
    BY DEF HopRequest, r
  <2> QED
    BY <2>3, <2>7, <2>8 DEF NewRequest, Nodes, ForwardedBudget
<1> DEFINE q == WithFate(requests, i, "served")
<1>5. /\ q \in Seq(Records) /\ Len(q) = Len(requests)
      /\ \A j \in Ids : j # i => q[j] = requests[j]
      /\ Same(requests[i], q[i]) /\ q[i].fate = "served"
      /\ q[i].outcome = requests[i].outcome /\ q[i].output = requests[i].output
  BY <1>0, FateSet DEF Types, Ids
<1> HIDE DEF q
<1>6. /\ requests' \in Seq(Records) /\ k \in Nat /\ k # 0
      /\ Ids' = Ids \cup {k} /\ k \notin Ids
      /\ \A j \in Ids : requests'[j] = q[j]
      /\ requests'[k] = hop
      /\ Grows
  <2>1. requests' = Append(q, hop)
    BY <1>2, <1>4 DEF q
  <2>2. \A j \in Ids : Same(requests[j], q[j])
    BY <1>5 DEF Same
  <2> QED
    BY <1>0, <1>5, <2>1, <2>2, AddedRequest
<1>7. inbox' = Pushed(Popped(a), hop.to, RequestMsg(k))
  BY <1>2, <1>4
<1>8. calling' = [calling EXCEPT ![a] = k]
  BY <1>2
<1> HIDE DEF k
<1>9. /\ inbox' \in Boxes
      /\ \A n \in Nodes : \A m : In(inbox', n, m) =>
           In(inbox, n, m) \/ (n = hop.to /\ m = RequestMsg(k))
      /\ \A n \in Nodes : \A j : In(inbox, n, RequestMsg(j)) =>
           In(inbox', n, RequestMsg(j)) \/ RequestMsg(j) = RequestMsg(i)
      /\ In(inbox', hop.to, RequestMsg(k))
      /\ RequestMsg(k).id = k /\ RequestMsg(k).type = "req"
  <2>1. /\ Popped(a) \in Boxes
        /\ \A n \in Nodes : \A m : In(Popped(a), n, m) => In(inbox, n, m)
        /\ \A n \in Nodes : \A m : In(inbox, n, m) =>
             In(Popped(a), n, m) \/ m = RequestMsg(i)
    BY <1>0, <1>1, <1>2, PoppedIn
  <2>2. /\ RequestMsg(k) \in Messages
        /\ RequestMsg(k).id = k /\ RequestMsg(k).type = "req"
    BY <1>6, RequestIsMessage
  <2>3. /\ inbox' \in Boxes
        /\ \A n \in Nodes : \A m :
             In(inbox', n, m) <=> In(Popped(a), n, m) \/ (n = hop.to /\ m = RequestMsg(k))
    BY <1>4, <1>7, <2>1, <2>2, PushedIn
  <2> QED
    BY <1>4, <2>1, <2>2, <2>3
<1>10. \A n \in Nodes : \A m : In(inbox', n, m) => In(inbox, n, m) \/ MessageOK(n, m)'
  BY <1>6, <1>9 DEF MessageOK, RequestMsg
<1>11. /\ calling' \in [Nodes -> Nat] /\ calling'[a] = k
       /\ \A n \in Nodes : n # a => calling'[n] = calling[n]
       /\ serving' \in [Agents -> Nat] /\ serving'[a] = i
       /\ \A b \in Agents : b # a => serving'[b] = serving[b]
  BY <1>0, <1>2, <1>3, <1>6, <1>8 DEF Types
<1>12. Same(requests[i], requests'[i]) /\ i \in Ids'
  BY <1>6 DEF Grows
<1>13. ServingOK'
  <2> SUFFICES ASSUME NEW b \in Agents PROVE ServingAt(b)'
    BY DEF ServingOK
  <2>1. CASE b = a
    <3>1. Paid(a, i)
      BY <1>2 DEF Admissible
    <3>2. Paid(a, i)'
      BY <1>12, <3>1, PaidStays
    <3>3. Paid(a, serving[a])'
      BY <1>11, <3>2 DEF Paid, Expected
    <3>4. /\ serving'[a] = i /\ i \in Ids' /\ calling'[a] # 0
          /\ requests'[i].to = a /\ requests'[i].skill = "route"
      BY <1>1, <1>2, <1>6, <1>11, <1>12 DEF Same
    <3> QED
      BY <2>1, <3>3, <3>4 DEF ServingAt
  <2>2. CASE b # a
    <3>1. calling'[b] = calling[b] /\ serving'[b] = serving[b]
      BY <1>11, <2>2 DEF Nodes
    <3> QED
      BY <1>6, <3>1, ServingStays
  <2> QED
    BY <2>1, <2>2
<1>14. CallingOK'
  <2> SUFFICES ASSUME NEW n \in Nodes PROVE CallingAt(n)'
    BY DEF CallingOK
  <2>1. CASE n = a
    <3>1. requests[i].skill \in Offers[a] /\ requests[i].skill = "route"
      BY <1>2 DEF Admissible
    <3> QED
      BY <1>3, <1>4, <1>6, <1>11, <2>1, <3>1 DEF CallingAt
  <2>2. CASE n # a
    <3>1. calling[n] # 0 => requests'[calling[n]].outcome = "open"
      BY <1>5, <1>6 DEF IInv, CallingOK, CallingAt
    <3>2. n \in Agents => serving'[n] = serving[n]
      BY <1>11, <2>2
    <3> QED
      BY <1>6, <1>11, <2>2, <3>1, <3>2, CallingStays
  <2> QED
    BY <2>1, <2>2
<1>15. \A j \in Ids' : Remembered(requests', inbox', serving', j)
  <2>1. Remembered(requests', inbox', serving', k)
    BY <1>4, <1>6, <1>9 DEF Remembered
  <2>2. Remembered(requests', inbox', serving', i)
    BY <1>1, <1>5, <1>6, <1>11, <1>12 DEF Remembered, Same
  <2>3. ASSUME NEW j \in Ids, j # i PROVE Remembered(requests', inbox', serving', j)
    <3>1. requests'[j] = requests[j] /\ Remembered(requests, inbox, serving, j)
      BY <1>0, <1>5, <1>6, <2>3, ForgottenIn DEF IInv
    <3>2. RequestMsg(j) # RequestMsg(i) /\ requests[j].to \in Agents /\ requests[j].to \in Nodes
          /\ j # 0
      BY <1>0, <2>3, RecordOf DEF RequestMsg, Nodes
    <3>3. requests[j].fate = "served" => serving'[requests[j].to] = j
      BY <1>2, <1>11, <3>1, <3>2 DEF Remembered
    <3>4. requests[j].fate = "sent" => In(inbox', requests[j].to, RequestMsg(j))
      BY <1>9, <3>1, <3>2 DEF Remembered
    <3> QED
      BY <3>1, <3>3, <3>4 DEF Remembered
  <2> QED
    BY <1>6, <2>1, <2>2, <2>3
<1>16. ASSUME NEW j \in Ids', j = k PROVE Fresh(j)
  <2>1. i \in 1 .. k - 1
    BY <1>0, LenProperties DEF k, Types, Ids
  <2>2. requests'[i].budget = requests[i].budget /\ requests[i].budget \in Nat
    BY <1>3, <1>12 DEF Same, Records
  <2>3. requests'[j] = hop /\ j \in Nat /\ i \in 1 .. j - 1
    BY <1>6, <1>16, <2>1
  <2>4. Descends(j)'
    BY <1>4, <2>2, <2>3 DEF Descends
  <2> QED
    BY <1>4, <2>3, <2>4 DEF Fresh
<1>17. \A j \in Ids' : requests'[j].outcome = "ok" => j \in Ids /\ requests[j].outcome = "ok"
  BY <1>4, <1>5, <1>6
<1> QED
  BY <1>6, <1>9, <1>10, <1>11, <1>13, <1>14, <1>15, <1>16, <1>17 DEF StepOK

-----------------------------------------------------------------------------
LEMMA InitIInv == Init => IInv
<1> SUFFICES ASSUME Init PROVE IInv
  OBVIOUS
<1> USE DEF Init, PayInit
<1>1. Types
  BY SettlementAssumption DEF Types, PayTypeOK, Statuses, PayStates
<1>2. Ids = {}
  BY EmptySeq DEF Ids
<1>3. SeenOfTransfer
  BY DEF SeenOfTransfer
<1>4. MessagesOK
  BY DEF MessagesOK
<1>5. ServingOK /\ CallingOK
  BY DEF ServingOK, ServingAt, CallingOK, CallingAt, Nodes
<1> QED
  BY <1>1, <1>2, <1>3, <1>4, <1>5
     DEF IInv, HonestReceipts, NothingForgotten, TraceIsReal, AcceptedIsOutput, Descent

LEMMA NextIInv == IInv /\ [Next]_vars => IInv'
<1> SUFFICES ASSUME IInv, [Next]_vars PROVE IInv'
  OBVIOUS
<1>1. ASSUME StepOK, UNCHANGED payVars PROVE IInv'
  BY <1>1, PayUnchanged, StepKeeps
<1>2. ASSUME NEW a \in Agents, Loop(a) \/ HopStep(a) PROVE IInv'
  <2>1. a \in Nodes
    BY DEF Nodes
  <2>2. UNCHANGED payVars
    BY <1>2 DEF Loop, HopStep, Refuse, Serve, Route, Ignore, Return, Drop, HopReturns,
       HopTimesOut
  <2>3. CASE Ignore(a)
    BY <1>1, <2>1, <2>2, <2>3, DiscardResponse DEF Ignore
  <2>4. CASE Drop(a)
    BY <1>1, <2>1, <2>2, <2>4, DropStep
  <2> QED
    BY <1>1, <1>2, <2>2, <2>3, <2>4, RefuseStep, ServeStep, RouteStep, ReturnStep,
       HopReturnsStep, HopTimesOutStep DEF Loop, HopStep
<1>3. ASSUME NEW c \in Clients, ClientStep(c) PROVE IInv'
  <2>1. c \in Nodes
    BY DEF Nodes
  <2>2. UNCHANGED payVars
    BY <1>3 DEF ClientStep, Call, Drop, CallReturns, CallTimesOut
  <2> QED
    BY <1>1, <1>3, <2>1, <2>2, CallStep, DropStep, CallEndsStep DEF ClientStep
<1>4. ASSUME NEW c \in Payers, Pay(c) \/ (Execute(c) /\ UNCHANGED callVars) PROVE IInv'
  <2>1. c \in Clients
    BY SettlementAssumption
  <2>2. UNCHANGED callVars /\ (Settle(c) \/ Execute(c))
    BY <1>4 DEF Pay
  <2> QED
    BY <2>1, <2>2, PayStep, CallsUnchanged, StepKeeps
<1>5. CASE UNCHANGED vars
  BY <1>1, <1>5, CallsUnchanged DEF vars
<1> QED
  BY <1>2, <1>3, <1>4, <1>5 DEF Next

-----------------------------------------------------------------------------
(* The inductive invariant holds of every swarm.                           *)
THEOREM SwarmCoherent == Spec => []IInv
  BY InitIInv, NextIInv, PTL DEF Spec

(* Every trace that a caller accepts is one of calls that were really      *)
(* made, each for the one before it, and that succeeded.                   *)
THEOREM TracesAreReal == Spec => []TraceIsReal
<1>1. IInv => TraceIsReal
  BY DEF IInv
<1> QED
  BY <1>1, SwarmCoherent, PTL

(* Every request waits, is being served, was answered, or was dropped by a *)
(* router that waited for a hop.                                           *)
THEOREM NoneForgotten == Spec => []NothingForgotten
<1>1. IInv => NothingForgotten
  BY DEF IInv
<1> QED
  BY <1>1, SwarmCoherent, PTL

(* A priced agent works only on a call that a client made itself, with a   *)
(* receipt of its own to this agent, for this skill, at its price; and if  *)
(* settle() made that receipt, the client's transfer of it completed.      *)
THEOREM WorkShowsReceipt == Spec => []ServedShowsReceipt
<1>1. ASSUME IInv, NEW a \in Priced, serving[a] # 0
      PROVE  LET r == requests[serving[a]]
                 shown == r.receipt
             IN  /\ r.from \in Clients
                 /\ shown # Nil /\ shown.payer = r.from
                 /\ shown.recipient = Payee[a] /\ shown.skill = r.skill
                 /\ Price[a][r.skill] \in {Nil, shown.amount}
                 /\ shown.settled =>
                      /\ execution[r.from] = "completed"
                      /\ terms[r.from] = [recipient |-> Payee[a], amount |-> shown.amount,
                                          skill |-> r.skill]
  <2> DEFINE r == requests[serving[a]]
             shown == r.receipt
  <2>1. a \in Agents
    BY SwarmAssumption
  <2>2. serving[a] \in Ids /\ Paid(a, serving[a])
    BY <1>1, <2>1 DEF IInv, ServingOK, ServingAt
  <2>3. /\ shown # Nil
        /\ shown.payer = r.from /\ shown.recipient = Payee[a] /\ shown.skill = r.skill
        /\ shown.amount = Expected(a, serving[a]).amount
    BY <2>2 DEF Paid, ReceiptFits, Expected
  <2>4. shown \in Receipts
    BY <1>1, <2>2, <2>3, RecordOf DEF IInv, Records
  <2>5. r.from \in Clients
    BY <2>3, <2>4 DEF Receipts
  <2>6. Price[a][r.skill] \in {Nil, shown.amount}
    BY <2>3 DEF Expected
  <2>7. ASSUME shown.settled
        PROVE  /\ execution[r.from] = "completed"
               /\ terms[r.from] = [recipient |-> Payee[a], amount |-> shown.amount,
                                   skill |-> r.skill]
    <3>1. PICK c \in Clients : shown = Receipt(c) /\ execution[c] = "completed"
      BY <1>1, <2>2, <2>3, <2>7 DEF IInv, HonestReceipts
    <3>2. /\ c = r.from /\ terms[c].recipient = Payee[a]
          /\ terms[c].amount = shown.amount /\ terms[c].skill = r.skill
      BY <2>3, <3>1 DEF Receipt
    <3>3. terms[c] \in [recipient : Recipients, amount : Amounts, skill : SkillNames]
      BY <1>1, SettlementAssumption DEF IInv, Types, PayTypeOK
    <3> QED
      BY <3>1, <3>2, <3>3
  <2> QED
    BY <2>3, <2>5, <2>6, <2>7
<1>2. IInv => ServedShowsReceipt
  BY <1>1 DEF ServedShowsReceipt
<1> QED
  BY <1>2, SwarmCoherent, PTL

(* Who paid and will get no receipt gave up on a transfer that it had not  *)
(* seen fail.                                                              *)
THEOREM NoMoneyLost == Spec => []PaidHasReceipt
<1>1. IInv => PaidHasReceipt
  BY DEF IInv, SeenOfTransfer, Types, PayTypeOK, PaidHasReceipt
<1> QED
  BY <1>1, SwarmCoherent, PTL

-----------------------------------------------------------------------------
(* Induction over the numbers of requests.                                 *)
LEMMA Induct ==
  ASSUME NEW S, 0 \in S, \A n \in Nat : n \in S => n + 1 \in S
  PROVE  Nat \subseteq S
<1> DEFINE less == {ss \in Nat \X Nat : ss[1] < ss[2]}
<1> SUFFICES ASSUME Nat \ S # {} PROVE FALSE
  OBVIOUS
<1>1. IsWellFoundedOn(less, Nat)
  BY NatLessThanWellFounded DEF OpToRel
<1>2. PICK n \in Nat \ S : \A m \in Nat \ S : ~(<<m, n>> \in less)
  <2>1. Nat \ S \subseteq Nat
    OBVIOUS
  <2> QED
    BY <1>1, <2>1, WFMin
<1>3. \A m \in Nat \ S : ~(m < n)
  BY <1>2
<1>4. n # 0 /\ n - 1 \in Nat /\ n - 1 < n /\ (n - 1) + 1 = n
  BY <1>2
<1>5. n - 1 \in S
  BY <1>3, <1>4
<1> QED
  BY <1>2, <1>4, <1>5

(* A function over the requests may be defined from its value at the       *)
(* parent.                                                                 *)
Follows(f, p, base, next, i) == f[i] = IF p[i] = 0 THEN base[i] ELSE next[f[p[i]]]

LEMMA FromParent ==
  ASSUME NEW N \in Nat, NEW p, \A i \in 1 .. N : p[i] \in 0 .. i - 1,
         NEW base, \A i \in 1 .. N : base[i] \in Nat,
         NEW next, \A n \in Nat : next[n] \in Nat
  PROVE  \E f \in [1 .. N -> Nat] : \A i \in 1 .. N : Follows(f, p, base, next, i)
<1> DEFINE S == {n \in Nat : n <= N =>
      \E f \in [1 .. n -> Nat] : \A i \in 1 .. n : Follows(f, p, base, next, i)}
<1>1. 0 \in S
  <2>1. 1 .. 0 = {}
    OBVIOUS
  <2>2. [i \in 1 .. 0 |-> 0] \in [1 .. 0 -> Nat]
    BY <2>1
  <2> QED
    BY <2>1, <2>2
<1>2. ASSUME NEW n \in Nat, n \in S PROVE n + 1 \in S
  <2> SUFFICES ASSUME n + 1 <= N
               PROVE  \E f \in [1 .. n + 1 -> Nat] :
                        \A i \in 1 .. n + 1 : Follows(f, p, base, next, i)
    OBVIOUS
  <2>1. PICK f \in [1 .. n -> Nat] : \A i \in 1 .. n : Follows(f, p, base, next, i)
    BY <1>2
  <2> DEFINE new == IF p[n + 1] = 0 THEN base[n + 1] ELSE next[f[p[n + 1]]]
             g == [i \in 1 .. n + 1 |-> IF i = n + 1 THEN new ELSE f[i]]
  <2>2. n + 1 \in 1 .. N /\ p[n + 1] \in 0 .. n
    BY DEF S
  <2>3. new \in Nat
    <3>1. p[n + 1] # 0 => p[n + 1] \in 1 .. n
      BY <2>2
    <3>2. p[n + 1] # 0 => f[p[n + 1]] \in Nat
      BY <2>1, <3>1
    <3> QED
      BY <2>2, <3>2
  <2> HIDE DEF new
  <2>4. /\ g \in [1 .. n + 1 -> Nat] /\ g[n + 1] = new
        /\ \A i \in 1 .. n : g[i] = f[i]
    BY <2>1, <2>3
  <2> HIDE DEF g
  <2>5. ASSUME NEW i \in 1 .. n PROVE Follows(g, p, base, next, i)
    <3>1. p[i] \in 0 .. i - 1 /\ g[i] = f[i] /\ Follows(f, p, base, next, i)
      BY <2>1, <2>2, <2>4
    <3>2. p[i] # 0 => p[i] \in 1 .. n
      BY <3>1
    <3>3. p[i] # 0 => g[p[i]] = f[p[i]]
      BY <2>4, <3>2
    <3> QED
      BY <3>1, <3>3 DEF Follows
  <2>6. Follows(g, p, base, next, n + 1)
    <3>1. p[n + 1] # 0 => p[n + 1] \in 1 .. n
      BY <2>2
    <3>2. p[n + 1] # 0 => g[p[n + 1]] = f[p[n + 1]]
      BY <2>4, <3>1
    <3> QED
      BY <2>4, <3>2 DEF Follows, new
  <2>7. \A i \in 1 .. n + 1 : i \in 1 .. n \/ i = n + 1
    OBVIOUS
  <2> QED
    BY <2>4, <2>5, <2>6, <2>7
<1> HIDE DEF S
<1>3. N \in S
  BY <1>1, <1>2, Induct
<1> QED
  BY <1>3 DEF S

(* Depth and Root are what their equations say.                            *)
LEMMA DepthIs ==
  ASSUME IInv
  PROVE  \A i \in Ids : Depth[i] = IF Parent(i) = 0 THEN 0 ELSE Depth[Parent(i)] + 1
<1> DEFINE p == [i \in Ids |-> Parent(i)]
           base == [i \in Ids |-> 0]
           next == [n \in Nat |-> n + 1]
           Body(h, i) == IF Parent(i) = 0 THEN 0 ELSE h[Parent(i)] + 1
<1>1. Len(requests) \in Nat /\ \A i \in Ids : Parent(i) \in 0 .. i - 1
  BY LenProperties DEF IInv, Types, Descent, Descends, Parent
<1>2. PICK f \in [Ids -> Nat] : \A i \in Ids : Follows(f, p, base, next, i)
  <2>1. /\ \A i \in Ids : p[i] \in 0 .. i - 1 /\ base[i] \in Nat
        /\ \A n \in Nat : next[n] \in Nat
    BY <1>1 DEF Ids
  <2> HIDE DEF p, base, next
  <2> QED
    BY <1>1, <2>1, FromParent DEF Ids
<1>3. ASSUME NEW i \in Ids PROVE f[i] = Body(f, i)
  <2>1. Parent(i) # 0 => Parent(i) \in Ids
    BY <1>1 DEF Ids
  <2>2. Parent(i) # 0 => f[Parent(i)] \in Nat
    BY <1>2, <2>1
  <2> QED
    BY <1>2, <2>2 DEF Follows
<1>4. f = [i \in Ids |-> Body(f, i)]
  BY <1>2, <1>3
<1> HIDE DEF p, base, next
<1>5. Depth = [i \in Ids |-> Body(Depth, i)]
  BY <1>4 DEF Depth
<1> QED
  BY <1>5

LEMMA RootIs ==
  ASSUME IInv
  PROVE  \A i \in Ids : Root[i] = IF Parent(i) = 0 THEN i ELSE Root[Parent(i)]
<1> DEFINE p == [i \in Ids |-> Parent(i)]
           base == [i \in Ids |-> i]
           next == [n \in Nat |-> n]
           Body(h, i) == IF Parent(i) = 0 THEN i ELSE h[Parent(i)]
<1>1. Len(requests) \in Nat /\ \A i \in Ids : Parent(i) \in 0 .. i - 1
  BY LenProperties DEF IInv, Types, Descent, Descends, Parent
<1>2. PICK f \in [Ids -> Nat] : \A i \in Ids : Follows(f, p, base, next, i)
  <2>1. /\ \A i \in Ids : p[i] \in 0 .. i - 1 /\ base[i] \in Nat
        /\ \A n \in Nat : next[n] \in Nat
    BY <1>1 DEF Ids
  <2> HIDE DEF p, base, next
  <2> QED
    BY <1>1, <2>1, FromParent DEF Ids
<1>3. ASSUME NEW i \in Ids PROVE f[i] = Body(f, i)
  <2>1. Parent(i) # 0 => Parent(i) \in Ids
    BY <1>1 DEF Ids
  <2>2. Parent(i) # 0 => f[Parent(i)] \in Nat
    BY <1>2, <2>1
  <2> QED
    BY <1>2, <2>2 DEF Follows
<1>4. f = [i \in Ids |-> Body(f, i)]
  BY <1>2, <1>3
<1> HIDE DEF p, base, next
<1>5. Root = [i \in Ids |-> Body(Root, i)]
  BY <1>4 DEF Root
<1> QED
  BY <1>5

(* What a request has left of its budget and the hops that led to it make  *)
(* the budget the client gave.                                             *)
Spent(i) ==
  Root[i] \in Ids /\ Depth[i] \in Nat /\ Depth[i] + requests[i].budget = requests[Root[i]].budget

LEMMA BudgetIsSpent ==
  ASSUME IInv
  PROVE  \A i \in Ids : Spent(i)
<1> DEFINE S == {n \in Nat : \A i \in Ids : i <= n => Spent(i)}
<1>1. \A i \in Ids : /\ i \in Nat /\ i >= 1 /\ requests[i].budget \in Nat
                     /\ Parent(i) \in 0 .. i - 1 /\ (Parent(i) # 0 => Parent(i) \in Ids)
                     /\ Parent(i) # 0 => requests[Parent(i)].budget = requests[i].budget + 1
  <2> SUFFICES ASSUME NEW i \in Ids
               PROVE  /\ i \in Nat /\ i >= 1 /\ requests[i].budget \in Nat
                      /\ Parent(i) \in 0 .. i - 1 /\ (Parent(i) # 0 => Parent(i) \in Ids)
                      /\ Parent(i) # 0 => requests[Parent(i)].budget = requests[i].budget + 1
    OBVIOUS
  <2>1. requests[i] \in Records /\ Len(requests) \in Nat /\ Descends(i)
    BY RecordOf, LenProperties DEF IInv, Types, Descent
  <2>2. i \in Nat /\ i >= 1 /\ Parent(i) \in 0 .. i - 1
    BY <2>1 DEF Ids, Descends, Parent
  <2>3. Parent(i) # 0 => Parent(i) \in Ids
    BY <2>1, <2>2 DEF Ids
  <2> QED
    BY <2>1, <2>2, <2>3 DEF Records, Descends, Parent
<1>2. 0 \in S
  BY <1>1
<1>3. ASSUME NEW n \in Nat, n \in S PROVE n + 1 \in S
  <2> SUFFICES ASSUME NEW i \in Ids, i = n + 1 PROVE Spent(i)
    BY <1>1, <1>3
  <2>1. CASE Parent(i) = 0
    <3>1. Depth[i] = 0 /\ Root[i] = i
      BY <2>1, DepthIs, RootIs
    <3> QED
      BY <1>1, <3>1 DEF Spent
  <2>2. CASE Parent(i) # 0
    <3>1. PICK j \in Ids : j = Parent(i) /\ j <= n
      BY <1>1, <2>2
    <3>2. Depth[i] = Depth[j] + 1 /\ Root[i] = Root[j]
      BY <2>2, <3>1, DepthIs, RootIs
    <3>3. Spent(j)
      BY <1>3, <3>1
    <3>4. requests[j].budget = requests[i].budget + 1 /\ requests[i].budget \in Nat
      BY <1>1, <2>2, <3>1
    <3> QED
      BY <3>2, <3>3, <3>4 DEF Spent
  <2> QED
    BY <2>1, <2>2
<1> HIDE DEF S
<1>4. \A i \in Ids : i \in S
  BY <1>1, <1>2, <1>3, Induct
<1> QED
  BY <1>1, <1>4 DEF S

(* However the routing tables point at each other and whatever times out,  *)
(* no client request is forwarded more often than its hopBudget allows.    *)
THEOREM BudgetBoundsHops == Spec => []WithinBudget
<1>1. ASSUME IInv, NEW i \in Ids PROVE Depth[i] <= requests[Root[i]].budget
  <2>1. Spent(i) /\ requests[i] \in Records
    BY <1>1, BudgetIsSpent, RecordOf DEF IInv
  <2>2. requests[i].budget \in Nat
    BY <2>1 DEF Records
  <2> QED
    BY <2>1, <2>2 DEF Spent
<1>2. IInv => WithinBudget
  BY <1>1 DEF WithinBudget
<1> QED
  BY <1>2, SwarmCoherent, PTL
=============================================================================
