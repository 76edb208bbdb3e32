------------------------- MODULE SkillStream_proofs -------------------------
(***************************************************************************)
(* What holds of a streaming call, and of the page that shows it, for any  *)
(* number of chunks, calls and network faults.                             *)
(*                                                                         *)
(* IInv says where each accepted chunk is (Relayed), when the page's       *)
(* stream may end (Closing), and why a successful answer cannot overtake   *)
(* its chunks unless the network made it (Whole).                          *)
(* PanelInv adds how the form, the handler, its generator and the frames   *)
(* on the wire belong together.                                            *)
(***************************************************************************)
EXTENDS CallPanel, SequenceTheorems, FiniteSetTheorems, WellFoundedInduction, TLAPS

(* What Append and Tail do, for the sequences of this module.              *)
LEMMA AppendFacts ==
  ASSUME NEW S, NEW s \in Seq(S), NEW e \in S
  PROVE  /\ Append(s, e) \in Seq(S)
         /\ Len(Append(s, e)) = Len(s) + 1
         /\ \A i \in 1 .. Len(s) : Append(s, e)[i] = s[i]
         /\ Append(s, e)[Len(s) + 1] = e
  OBVIOUS

LEMMA TailFacts ==
  ASSUME NEW S, NEW s \in Seq(S), s # <<>>
  PROVE  /\ Head(s) = s[1] /\ s[1] \in S
         /\ Tail(s) \in Seq(S)
         /\ Len(s) \in Nat /\ Len(s) >= 1
         /\ Len(Tail(s)) = Len(s) - 1
         /\ \A i \in 1 .. Len(s) - 1 : Tail(s)[i] = s[i + 1]
  OBVIOUS

(* Messages the responder sends are messages.                              *)
LEMMA MessageType ==
  ASSUME NEW k \in {"chunk", "ok", "error", "foreign"}, NEW n \in 0 .. MaxChunks,
         k = "chunk" => n < MaxChunks
  PROVE  Message(k, n) \in Messages /\ Message(k, n).kind = k /\ Message(k, n).seq = n
  BY DEF Message, Messages

(* The invariant holds before the request is sent.                         *)
LEMMA InitIInv == Init => IInv
<1> SUFFICES ASSUME Init PROVE IInv
  OBVIOUS
<1> USE StreamAssumption DEF Init
<1>1. TypeOK
  <2>1. inbox \in Seq(Messages) /\ buffer \in Seq(0 .. MaxChunks) /\ page \in Seq(0 .. MaxChunks)
    OBVIOUS
  <2>2. emitted \in 0 .. MaxChunks /\ nextSeq \in 0 .. MaxChunks /\ faults \in 0 .. MaxFaults
    OBVIOUS
  <2>3. settled \in BOOLEAN /\ mishap \in BOOLEAN
    OBVIOUS
  <2> QED
    BY <2>1, <2>2, <2>3, Zenon DEF TypeOK
<1>2. Relayed
  BY DEF Relayed
<1>3. Closing
  BY DEF Closing
<1>4. Whole
  BY DEF Whole, AnswerLast, Arriving, ComingWithin, OkAt
<1> QED
  BY <1>1, <1>2, <1>3, <1>4 DEF IInv

-----------------------------------------------------------------------------
(* What the network does to the messages under way leaves them messages.   *)
LEMMA DropType ==
  ASSUME NEW S, NEW s \in Seq(S), NEW i \in DOMAIN s
  PROVE  SubSeq(s, 1, i - 1) \o SubSeq(s, i + 1, Len(s)) \in Seq(S)
<1>0. i \in 1 .. Len(s) /\ Len(s) \in Nat /\ \A j \in 1 .. Len(s) : s[j] \in S
  OBVIOUS
<1>1. SubSeq(s, 1, i - 1) \in Seq(S)
  <2>1. 1 \in Int /\ i - 1 \in Int /\ \A j \in 1 .. i - 1 : s[j] \in S
    BY <1>0
  <2> QED
    BY <2>1, SubSeqProperties
<1>2. SubSeq(s, i + 1, Len(s)) \in Seq(S)
  <2>1. i + 1 \in Int /\ Len(s) \in Int /\ \A j \in i + 1 .. Len(s) : s[j] \in S
    BY <1>0
  <2> QED
    BY <2>1, SubSeqProperties
<1> QED
  BY <1>1, <1>2, ConcatProperties

LEMMA SwapType ==
  ASSUME NEW S, NEW s \in Seq(S), NEW i \in 1 .. Len(s) - 1
  PROVE  [s EXCEPT ![i] = s[i + 1], ![i + 1] = s[i]] \in Seq(S)
<1>1. Len(s) \in Nat /\ i \in 1 .. Len(s) /\ i + 1 \in 1 .. Len(s)
      /\ s[i] \in S /\ s[i + 1] \in S
  OBVIOUS
<1>2. [s EXCEPT ![i] = s[i + 1]] \in Seq(S) /\ Len([s EXCEPT ![i] = s[i + 1]]) = Len(s)
  BY <1>1, ExceptSeq
<1>3. [[s EXCEPT ![i] = s[i + 1]] EXCEPT ![i + 1] = s[i]] \in Seq(S)
  BY <1>1, <1>2, ExceptSeq
<1> QED
  BY <1>3

(* A late message is the same message.                                     *)
LEMMA LateFacts ==
  ASSUME NEW s \in Seq(Messages), NEW i \in DOMAIN s
  PROVE  /\ [s EXCEPT ![i].late = TRUE] \in Seq(Messages)
         /\ Len([s EXCEPT ![i].late = TRUE]) = Len(s)
         /\ \A j \in 1 .. Len(s) : /\ [s EXCEPT ![i].late = TRUE][j].kind = s[j].kind
                                  /\ [s EXCEPT ![i].late = TRUE][j].seq = s[j].seq
<1>1. i \in 1 .. Len(s) /\ s[i] \in Messages
  OBVIOUS
<1> DEFINE e == [s[i] EXCEPT !.late = TRUE]
<1>2. e \in Messages /\ e.kind = s[i].kind /\ e.seq = s[i].seq
  BY <1>1 DEF Messages
<1> DEFINE t == [s EXCEPT ![i] = e]
<1>3. [s EXCEPT ![i].late = TRUE] = t
  OBVIOUS
<1> HIDE DEF e
<1>4. /\ t \in Seq(Messages) /\ Len(t) = Len(s)
      /\ \A j \in 1 .. Len(s) : t[j] = IF j = i THEN e ELSE s[j]
  BY <1>1, <1>2, ExceptSeq
<1> HIDE DEF t
<1>5. \A j \in 1 .. Len(s) : t[j].kind = s[j].kind /\ t[j].seq = s[j].seq
  BY <1>2, <1>4
<1> QED
  BY <1>3, <1>4, <1>5

-----------------------------------------------------------------------------
(* The message the caller takes, and what is left for it.                  *)
LEMMA TakeFacts ==
  ASSUME TypeOK, inbox # <<>>
  PROVE  /\ Head(inbox) = inbox[1] /\ inbox[1] \in Messages
         /\ Tail(inbox) \in Seq(Messages)
         /\ Len(inbox) \in Nat /\ Len(inbox) >= 1
         /\ Len(Tail(inbox)) = Len(inbox) - 1
         /\ \A i \in 1 .. Len(inbox) - 1 : Tail(inbox)[i] = inbox[i + 1]
<1>1. inbox \in Seq(Messages)
  BY DEF TypeOK
<1> QED
  BY <1>1, TailFacts

(* Every step keeps the types.                                             *)
LEMMA TypeStep == TypeOK /\ Closing /\ [Next]_vars => TypeOK'
<1> SUFFICES ASSUME TypeOK, Closing, [Next]_vars PROVE TypeOK'
  OBVIOUS
<1> USE StreamAssumption DEF TypeOK, server, network
<1>1. CASE EmitChunk
  <2>1. Message("chunk", emitted) \in Messages
    BY <1>1, MessageType DEF EmitChunk
  <2>2. inbox' \in Seq(Messages) /\ emitted' \in 0 .. MaxChunks
    BY <1>1, <2>1, AppendFacts DEF EmitChunk
  <2> QED
    BY <1>1, <2>2 DEF EmitChunk
<1>2. ASSUME NEW kind \in {"ok", "error"}, Reply(kind) PROVE TypeOK'
  <2>1. Message(kind, 0) \in Messages
    BY MessageType
  <2>2. inbox' \in Seq(Messages)
    BY <1>2, <2>1, AppendFacts DEF Reply
  <2> QED
    BY <1>2, <2>2 DEF Reply
<1>3. CASE Receive
  <2> DEFINE m == Head(inbox)
  <2>1. inbox # <<>> /\ m \in Messages /\ Tail(inbox) \in Seq(Messages)
    BY <1>3, TakeFacts DEF Receive
  <2>2. CASE m.kind = "chunk" /\ AcceptChunk(m)
    <3>1. nextSeq' \in 0 .. MaxChunks /\ m.seq \in 0 .. MaxChunks
      BY <2>1, <2>2 DEF AcceptChunk, InSequence, Messages
    <3>2. buffer' \in Seq(0 .. MaxChunks)
      BY <2>2, <3>1, AppendFacts DEF AcceptChunk
    <3>3. relay' \in {"run", "asleep", "yielded", "final", "closed"}
      BY <2>2 DEF AcceptChunk, Wake
    <3> QED
      BY <2>1, <2>2, <3>1, <3>2, <3>3 DEF AcceptChunk, Take
  <2>3. CASE RefuseChunk(m)
    BY <2>1, <2>3 DEF RefuseChunk, Take
  <2>4. CASE AcceptAnswer(m)
    BY <2>1, <2>4 DEF AcceptAnswer, Take
  <2>5. CASE Ignore
    BY <2>1, <2>5 DEF Ignore, Take
  <2> QED
    BY <1>3, <2>2, <2>3, <2>4, <2>5 DEF Receive
<1>4. CASE Timeout \/ ReceiveFails
  BY <1>4 DEF Timeout, ReceiveFails, Throw, Fault
<1>5. CASE Settle
  BY <1>5 DEF Settle, Wake
<1>6. CASE Yield
  <2>1. Head(buffer) \in 0 .. MaxChunks /\ Tail(buffer) \in Seq(0 .. MaxChunks)
    BY <1>6, TailFacts DEF Yield
  <2>2. page' \in Seq(0 .. MaxChunks)
    BY <1>6, <2>1, AppendFacts DEF Yield
  <2> QED
    BY <1>6, <2>1, <2>2 DEF Yield
<1>7. CASE Sleep \/ Leave \/ Pull
  BY <1>7 DEF Sleep, Leave, Pull
<1>8. CASE Finish \/ Disconnect
  <2>1. CASE Finish
    BY <2>1 DEF Finish, Closing
  <2>2. CASE Disconnect
    BY <2>2 DEF Disconnect
  <2> QED
    BY <1>8, <2>1, <2>2
<1>9. CASE Faulty
  <2>1. CASE EmitFails
    <3>1. Message("chunk", emitted) \in Messages
      BY <2>1, MessageType DEF EmitFails
    <3>2. PICK x \in Messages : inbox' = inbox \/ inbox' = Append(inbox, x)
      BY <2>1, <3>1 DEF EmitFails
    <3>3. Append(inbox, x) \in Seq(Messages)
      BY AppendFacts
    <3>4. inbox' \in Seq(Messages)
      BY <3>2, <3>3
    <3> QED
      BY <2>1, <3>4 DEF EmitFails, Fault
  <2>2. CASE ReplyFails
    BY <2>2 DEF ReplyFails, Fault
  <2>3. CASE Lose
    <3>1. inbox' \in Seq(Messages)
      BY <2>3, DropType DEF Lose
    <3> QED
      BY <2>3, <3>1 DEF Lose, Fault
  <2>4. CASE Overtake
    <3>1. inbox' \in Seq(Messages)
      BY <2>4, SwapType DEF Overtake
    <3> QED
      BY <2>4, <3>1 DEF Overtake, Fault
  <2>5. CASE Repeat
    <3>1. inbox' \in Seq(Messages)
      BY <2>5, AppendFacts DEF Repeat
    <3> QED
      BY <2>5, <3>1 DEF Repeat, Fault
  <2>6. CASE Delay
    <3>1. inbox' \in Seq(Messages)
      BY <2>6, LateFacts DEF Delay
    <3> QED
      BY <2>6, <3>1 DEF Delay, Fault
  <2>7. CASE Stray
    <3>1. inbox' \in Seq(Messages)
      BY <2>7, MessageType, AppendFacts DEF Stray
    <3> QED
      BY <2>7, <3>1 DEF Stray, Fault
  <2>8. CASE ReceiveFails
    BY <1>4, <2>8
  <2> QED
    BY <1>9, <2>1, <2>2, <2>3, <2>4, <2>5, <2>6, <2>7, <2>8 DEF Faulty
<1>10. CASE UNCHANGED vars
  BY <1>10 DEF vars
<1> QED
  BY <1>1, <1>2, <1>3, <1>4, <1>5, <1>6, <1>7, <1>8, <1>9, <1>10 DEF Next

(* The steps of everyone but the caller's loop and the generator leave the *)
(* chunks where they are.                                                  *)
Elsewhere ==
  \/ EmitChunk \/ (\E kind \in {"ok", "error"} : Reply(kind)) \/ Faulty \/ Timeout
  \/ Settle \/ Sleep \/ Leave \/ Pull \/ Finish \/ Disconnect \/ UNCHANGED vars

LEMMA ElsewhereFrame ==
  Elsewhere => UNCHANGED <<nextSeq, buffer, page>>
BY DEF Elsewhere, EmitChunk, Reply, Faulty, EmitFails, ReplyFails, Lose, Overtake,
       Repeat, Delay, Stray, ReceiveFails, Timeout, Throw, Settle, Sleep, Leave, Pull,
       Finish, Disconnect, vars, server, network

(* Every step keeps each accepted chunk in its place: AcceptChunk appends  *)
(* the next one to chunkBuffer, Yield moves the oldest one to the page.    *)
LEMMA RelayStep == TypeOK /\ Relayed /\ [Next]_vars => Relayed'
<1> SUFFICES ASSUME TypeOK, Relayed, [Next]_vars PROVE Relayed'
  OBVIOUS
<1>0. /\ page \in Seq(0 .. MaxChunks) /\ Len(page) \in Nat
      /\ buffer \in Seq(0 .. MaxChunks) /\ Len(buffer) \in Nat
  BY DEF TypeOK
<1>1. ASSUME Elsewhere PROVE Relayed'
  BY <1>1, ElsewhereFrame DEF Relayed
<1>2. CASE Receive
  <2> DEFINE m == Head(inbox)
  <2>1. CASE AcceptChunk(m)
    <3>1. m.seq = nextSeq /\ nextSeq' = nextSeq + 1 /\ page' = page
      BY <2>1 DEF AcceptChunk, InSequence
    <3>2. nextSeq = Len(page) + Len(buffer)
      BY DEF Relayed
    <3>3. nextSeq \in 0 .. MaxChunks
      BY DEF TypeOK
    <3>4. /\ Len(buffer') = Len(buffer) + 1
          /\ \A i \in 1 .. Len(buffer) : buffer'[i] = buffer[i]
          /\ buffer'[Len(buffer) + 1] = nextSeq
      BY <1>0, <2>1, <3>1, <3>3, AppendFacts DEF AcceptChunk
    <3>5. ASSUME NEW i \in 1 .. Len(buffer') PROVE buffer'[i] = Len(page) + i - 1
      <4>1. CASE i \in 1 .. Len(buffer)
        BY <3>4, <4>1 DEF Relayed
      <4>2. CASE i = Len(buffer) + 1
        BY <1>0, <3>2, <3>4, <4>2
      <4> QED
        BY <1>0, <3>4, <4>1, <4>2
    <3> QED
      BY <1>0, <3>1, <3>2, <3>4, <3>5 DEF Relayed
  <2>2. CASE RefuseChunk(m) \/ AcceptAnswer(m) \/ Ignore
    BY <2>2 DEF RefuseChunk, AcceptAnswer, Ignore, server, Relayed
  <2> QED
    BY <1>2, <2>1, <2>2 DEF Receive
<1>3. CASE Yield
  <2>1. /\ Head(buffer) = buffer[1] /\ buffer[1] \in 0 .. MaxChunks
        /\ Len(buffer) >= 1 /\ Len(buffer') = Len(buffer) - 1
        /\ \A i \in 1 .. Len(buffer) - 1 : buffer'[i] = buffer[i + 1]
    BY <1>0, <1>3, TailFacts DEF Yield
  <2>2. /\ Len(page') = Len(page) + 1
        /\ \A i \in 1 .. Len(page) : page'[i] = page[i]
        /\ page'[Len(page) + 1] = buffer[1]
    <3>1. page' = Append(page, buffer[1])
      BY <1>3, <2>1 DEF Yield
    <3> QED
      BY <1>0, <2>1, <3>1, AppendFacts
  <2>3. buffer[1] = Len(page)
    BY <1>0, <2>1 DEF Relayed
  <2>4. \A i \in 1 .. Len(page') : page'[i] = i - 1
    <3>1. \A i \in 1 .. Len(page') : i \in 1 .. Len(page) \/ i = Len(page) + 1
      BY <1>0, <2>2
    <3>2. \A i \in 1 .. Len(page) : page'[i] = i - 1
      BY <2>2 DEF Relayed
    <3>3. page'[Len(page) + 1] = Len(page) + 1 - 1
      BY <1>0, <2>2, <2>3
    <3> QED
      BY <3>1, <3>2, <3>3
  <2>5. \A i \in 1 .. Len(buffer') : buffer'[i] = Len(page') + i - 1
    BY <1>0, <2>1, <2>2 DEF Relayed
  <2>6. nextSeq' = nextSeq
    BY <1>3 DEF Yield
  <2> QED
    BY <1>0, <2>1, <2>2, <2>4, <2>5, <2>6 DEF Relayed
<1> QED
  BY <1>1, <1>2, <1>3 DEF Next, Elsewhere, Faulty

(* Every step keeps the end of the page's stream behind the end of the     *)
(* call: once the call has its result, the caller adds no chunk.           *)
LEMMA ClosingStep == TypeOK /\ Closing /\ [Next]_vars => Closing'
<1> SUFFICES ASSUME TypeOK, Closing, [Next]_vars PROVE Closing'
  OBVIOUS
<1> USE DEF Closing, server, network
<1>1. CASE EmitChunk
  BY <1>1 DEF EmitChunk
<1>2. ASSUME NEW kind \in {"ok", "error"}, Reply(kind) PROVE Closing'
  BY <1>2 DEF Reply
<1>3. CASE Receive
  <2> DEFINE m == Head(inbox)
  <2>1. CASE AcceptChunk(m)
    <3>1. caller = "polling" /\ ~settled /\ pageEnd \notin {"ok", "error"} /\ relay # "final"
      BY <2>1 DEF AcceptChunk, Take
    <3>2. UNCHANGED <<caller, settled, pageEnd>> /\ relay' = IF relay = "asleep" THEN "run" ELSE relay
      BY <2>1 DEF AcceptChunk, Wake
    <3> QED
      BY <3>1, <3>2
  <2>2. CASE RefuseChunk(m)
    BY <2>2 DEF RefuseChunk, Take
  <2>3. CASE AcceptAnswer(m)
    <3>1. caller = "polling" /\ ~settled /\ pageEnd \notin {"ok", "error"} /\ relay # "final"
      BY <2>3 DEF AcceptAnswer, Take
    <3>2. UNCHANGED <<settled, pageEnd, relay>>
      BY <2>3 DEF AcceptAnswer
    <3> QED
      BY <3>1, <3>2
  <2>4. CASE Ignore
    BY <2>4 DEF Ignore
  <2> QED
    BY <1>3, <2>1, <2>2, <2>3, <2>4 DEF Receive
<1>4. CASE Timeout \/ ReceiveFails
  BY <1>4 DEF Timeout, ReceiveFails, Throw
<1>5. CASE Settle
  BY <1>5 DEF Settle, Wake
<1>6. CASE Yield
  BY <1>6 DEF Yield
<1>7. CASE Sleep \/ Leave \/ Pull
  BY <1>7 DEF Sleep, Leave, Drained, Pull
<1>8. CASE Finish
  BY <1>8 DEF Finish, TypeOK
<1>9. CASE Disconnect
  BY <1>9 DEF Disconnect
<1>10. CASE EmitFails \/ ReplyFails \/ Lose \/ Overtake \/ Repeat \/ Delay \/ Stray
  BY <1>10 DEF EmitFails, ReplyFails, Lose, Overtake, Repeat, Delay, Stray
<1>11. CASE UNCHANGED vars
  BY <1>11 DEF vars
<1> QED
  BY <1>1, <1>2, <1>3, <1>4, <1>5, <1>6, <1>7, <1>8, <1>9, <1>10, <1>11 DEF Next, Faulty

-----------------------------------------------------------------------------
(* What a step that appends x to the messages under way does to them.      *)
LEMMA SendFacts ==
  ASSUME TypeOK, NEW x \in Messages, inbox' = Append(inbox, x)
  PROVE  /\ Len(inbox) \in Nat /\ Len(inbox') = Len(inbox) + 1
         /\ \A i \in 1 .. Len(inbox') : i \in 1 .. Len(inbox) \/ i = Len(inbox) + 1
         /\ \A i \in 1 .. Len(inbox) : i \in 1 .. Len(inbox') /\ inbox'[i] = inbox[i]
         /\ inbox'[Len(inbox) + 1] = x
<1>1. inbox \in Seq(Messages)
  BY DEF TypeOK
<1>2. /\ Len(inbox) \in Nat /\ Len(inbox') = Len(inbox) + 1
      /\ \A i \in 1 .. Len(inbox) : inbox'[i] = inbox[i]
      /\ inbox'[Len(inbox) + 1] = x
  BY <1>1, AppendFacts
<1> QED
  BY <1>2

(* What is coming within k messages still is after the network or the      *)
(* responder has changed what lies behind them.                            *)
LEMMA StillComing ==
  ASSUME NEW k \in Nat, NEW l \in Nat, k <= l, ComingWithin(k),
         UNCHANGED <<emitted, nextSeq>>,
         \A j \in 1 .. k : inbox'[j].kind = inbox[j].kind /\ inbox'[j].seq = inbox[j].seq
  PROVE  ComingWithin(l)'
<1> SUFFICES ASSUME NEW n \in 0 .. emitted - 1, n >= nextSeq
             PROVE  \E j \in 1 .. l : ChunkAt(j, n)'
  BY DEF ComingWithin
<1>1. PICK j \in 1 .. k : ChunkAt(j, n)
  BY DEF ComingWithin
<1>2. j \in 1 .. l /\ ChunkAt(j, n)'
  BY <1>1 DEF ChunkAt
<1> QED
  BY <1>2

(* The responder and the network keep the answer behind its chunks.        *)
LEMMA WholeSent ==
  ASSUME IInv,
         \/ EmitChunk \/ (\E kind \in {"ok", "error"} : Reply(kind))
         \/ EmitFails \/ ReplyFails \/ Lose \/ Overtake \/ Repeat \/ Delay \/ Stray
  PROVE  Whole'
<1> SUFFICES ASSUME ~mishap' PROVE AnswerLast' /\ Arriving'
  BY DEF Whole
<1> USE DEF IInv, OkAt, ChunkAt, server
<1>0. /\ emitted \in Nat /\ nextSeq \in Nat /\ Len(inbox) \in Nat
      /\ responder \in {"streaming", "failing", "ended"}
      /\ \A i \in 1 .. Len(inbox) : inbox[i] \in Messages
  BY StreamAssumption DEF TypeOK
<1>1. CASE EmitChunk
  <2> DEFINE x == Message("chunk", emitted)
  <2>0. x \in Messages /\ x.kind = "chunk" /\ x.seq = emitted
    BY <1>1, MessageType DEF EmitChunk, TypeOK
  <2>1. /\ Len(inbox') = Len(inbox) + 1
        /\ \A i \in 1 .. Len(inbox') : i \in 1 .. Len(inbox) \/ i = Len(inbox) + 1
        /\ \A i \in 1 .. Len(inbox) : i \in 1 .. Len(inbox') /\ inbox'[i] = inbox[i]
        /\ inbox'[Len(inbox) + 1] = x
    BY <1>1, <2>0, SendFacts DEF EmitChunk
  <2> HIDE DEF x
  <2>2. /\ responder = "streaming" /\ responder' = "streaming" /\ emitted' = emitted + 1
        /\ UNCHANGED <<caller, nextSeq>> /\ AnswerLast /\ Arriving
    BY <1>1 DEF EmitChunk, Whole
  <2>3. \A i \in 1 .. Len(inbox') : ~OkAt(i)'
    BY <2>0, <2>1, <2>2 DEF AnswerLast
  <2>4. AnswerLast'
    <3>1. nextSeq <= emitted /\ caller # "ok"
      BY <2>2 DEF AnswerLast
    <3>2. ASSUME NEW j \in 1 .. Len(inbox'), inbox'[j].kind = "chunk"
          PROVE  inbox'[j].seq < emitted + 1
      <4>1. CASE j \in 1 .. Len(inbox)
        <5>1. inbox[j].seq < emitted /\ inbox[j].seq \in Nat
          BY <1>0, <2>1, <2>2, <3>2, <4>1 DEF AnswerLast, Messages
        <5> QED
          BY <1>0, <2>1, <4>1, <5>1
      <4>2. CASE j = Len(inbox) + 1
        BY <1>0, <2>0, <2>1, <4>2
      <4> QED
        BY <2>1, <4>1, <4>2
    <3> QED
      BY <1>0, <2>2, <2>3, <3>1, <3>2 DEF AnswerLast
  <2>5. ASSUME caller = "polling", NEW n \in 0 .. emitted' - 1, n >= nextSeq
        PROVE  \E j \in 1 .. Len(inbox') : ChunkAt(j, n)'
    <3>1. CASE n = emitted
      BY <1>0, <2>0, <2>1, <3>1
    <3>2. CASE n # emitted
      <4>1. PICK j \in 1 .. Len(inbox) : ChunkAt(j, n)
        BY <1>0, <2>2, <2>5, <3>2 DEF Arriving, ComingWithin
      <4> QED
        BY <2>1, <4>1
    <3> QED
      BY <3>1, <3>2
  <2>6. Arriving'
    BY <2>2, <2>3, <2>5 DEF Arriving, ComingWithin, AnswerLast
  <2> QED
    BY <2>4, <2>6
<1>2. ASSUME NEW kind \in {"ok", "error"}, Reply(kind) PROVE AnswerLast' /\ Arriving'
  <2> DEFINE x == Message(kind, 0)
  <2>0. x \in Messages /\ x.kind = kind
    BY MessageType, StreamAssumption
  <2>1. /\ Len(inbox') = Len(inbox) + 1
        /\ \A i \in 1 .. Len(inbox') : i \in 1 .. Len(inbox) \/ i = Len(inbox) + 1
        /\ \A i \in 1 .. Len(inbox) : i \in 1 .. Len(inbox') /\ inbox'[i] = inbox[i]
        /\ inbox'[Len(inbox) + 1] = x
    BY <1>2, <2>0, SendFacts DEF Reply
  <2> HIDE DEF x
  <2>2. /\ kind = "ok" => responder = "streaming"
        /\ responder' = "ended" /\ UNCHANGED <<caller, nextSeq, emitted>>
        /\ AnswerLast /\ Arriving
    BY <1>0, <1>2 DEF Reply, Whole
  <2>3. AnswerLast'
    BY <1>0, <2>0, <2>1, <2>2 DEF AnswerLast
  <2>5. ASSUME caller = "polling", NEW i \in 1 .. Len(inbox'), OkAt(i)'
        PROVE  ComingWithin(i - 1)'
    <3>1. ComingWithin(i - 1)
      <4>1. CASE i \in 1 .. Len(inbox)
        BY <2>1, <2>2, <2>5, <4>1 DEF Arriving
      <4>2. CASE i = Len(inbox) + 1
        <5>1. ComingWithin(Len(inbox))
          BY <2>0, <2>1, <2>2, <2>5, <4>2 DEF Arriving
        <5>2. i - 1 = Len(inbox)
          BY <1>0, <4>2
        <5> QED
          BY <5>1, <5>2 DEF ComingWithin
      <4> QED
        BY <2>1, <4>1, <4>2
    <3>2. i - 1 \in Nat /\ \A j \in 1 .. i - 1 : j \in 1 .. Len(inbox)
      BY <1>0, <2>1
    <3> QED
      BY <2>1, <2>2, <3>1, <3>2, StillComing
  <2>6. Arriving'
    BY <2>2, <2>5 DEF Arriving
  <2> QED
    BY <2>3, <2>6
<1>3. CASE EmitFails
  <2> DEFINE x == Message("chunk", emitted)
  <2>0. x \in Messages /\ x.kind = "chunk"
    BY <1>3, MessageType DEF EmitFails, TypeOK
  <2>2. /\ responder = "streaming" /\ responder' = "failing"
        /\ UNCHANGED <<caller, nextSeq, emitted>> /\ AnswerLast
    BY <1>3 DEF EmitFails, Whole
  <2>3. \A i \in 1 .. Len(inbox) : ~OkAt(i)
    BY <2>2 DEF AnswerLast
  <2>4. \A i \in 1 .. Len(inbox') : ~OkAt(i)'
    <3>1. CASE inbox' = inbox
      BY <2>3, <3>1
    <3>2. CASE inbox' = Append(inbox, x)
      <4>1. /\ \A i \in 1 .. Len(inbox') : i \in 1 .. Len(inbox) \/ i = Len(inbox) + 1
            /\ \A i \in 1 .. Len(inbox) : i \in 1 .. Len(inbox') /\ inbox'[i] = inbox[i]
            /\ inbox'[Len(inbox) + 1] = x
        BY <2>0, <3>2, SendFacts
      <4> HIDE DEF x
      <4> QED
        BY <2>0, <2>3, <4>1
    <3> QED
      BY <1>3, <3>1, <3>2 DEF EmitFails
  <2>5. caller # "ok"
    BY <2>2 DEF AnswerLast
  <2> QED
    BY <2>2, <2>4, <2>5 DEF AnswerLast, Arriving
<1>4. CASE ReplyFails
  <2>1. responder' = "ended" /\ UNCHANGED <<caller, nextSeq, emitted, inbox>> /\ AnswerLast /\ Arriving
    BY <1>4 DEF ReplyFails, Whole
  <2>2. \A k : ComingWithin(k) => ComingWithin(k)'
    BY <2>1 DEF ComingWithin
  <2> QED
    BY <2>1, <2>2 DEF AnswerLast, Arriving
<1>5. CASE Lose \/ Overtake
  BY <1>5 DEF Lose, Overtake
<1>6. CASE Repeat \/ Stray
  <2>1. PICK x \in Messages :
           /\ inbox' = Append(inbox, x)
           /\ x.kind \in {"ok", "chunk"} => \E k \in 1 .. Len(inbox) : x = inbox[k]
    <3>1. CASE Repeat
      <4>1. PICK k \in DOMAIN inbox : inbox' = Append(inbox, inbox[k])
        BY <3>1 DEF Repeat
      <4>2. k \in 1 .. Len(inbox) /\ inbox[k] \in Messages
        BY <1>0
      <4> QED
        BY <4>1, <4>2
    <3>2. CASE Stray
      BY <3>2, MessageType, StreamAssumption DEF Stray
    <3> QED
      BY <1>6, <3>1, <3>2
  <2>2. /\ Len(inbox') = Len(inbox) + 1
        /\ \A i \in 1 .. Len(inbox') : i \in 1 .. Len(inbox) \/ i = Len(inbox) + 1
        /\ \A i \in 1 .. Len(inbox) : i \in 1 .. Len(inbox') /\ inbox'[i] = inbox[i]
        /\ inbox'[Len(inbox) + 1] = x
    BY <2>1, SendFacts
  <2>3. UNCHANGED <<responder, caller, nextSeq, emitted>> /\ AnswerLast /\ Arriving
    BY <1>6 DEF Repeat, Stray, Whole
  <2>4. AnswerLast'
    BY <1>0, <2>1, <2>2, <2>3 DEF AnswerLast
  <2>5. ASSUME NEW k \in 0 .. Len(inbox), NEW l \in k .. Len(inbox'), ComingWithin(k)
        PROVE  ComingWithin(l)'
    BY <1>0, <2>2, <2>3, <2>5, StillComing
  <2>6. ASSUME caller = "polling", NEW i \in 1 .. Len(inbox'), OkAt(i)'
        PROVE  ComingWithin(i - 1)'
    <3>1. CASE i \in 1 .. Len(inbox)
      <4>1. ComingWithin(i - 1)
        BY <2>2, <2>3, <2>6, <3>1 DEF Arriving
      <4> QED
        BY <1>0, <2>2, <2>5, <3>1, <4>1
    <3>2. CASE i = Len(inbox) + 1
      <4>1. PICK k \in 1 .. Len(inbox) : OkAt(k)
        BY <2>1, <2>2, <2>6, <3>2
      <4>2. ComingWithin(k - 1)
        BY <2>3, <2>6, <4>1 DEF Arriving
      <4> QED
        BY <1>0, <2>2, <2>5, <3>2, <4>2
    <3> QED
      BY <2>2, <3>1, <3>2
  <2>7. ASSUME responder = "streaming", caller = "polling" PROVE ComingWithin(Len(inbox))'
    <3>1. PICK l \in Nat : l = Len(inbox')
      BY <1>0, <2>2
    <3>2. PICK k \in Nat : k = Len(inbox)
      BY <1>0
    <3>3. ComingWithin(k)
      BY <2>3, <2>7, <3>2 DEF Arriving
    <3>4. ComingWithin(l)'
      BY <2>2, <2>5, <3>1, <3>2, <3>3
    <3> QED
      BY <3>1, <3>4 DEF ComingWithin
  <2> QED
    BY <2>3, <2>4, <2>6, <2>7 DEF Arriving
<1>7. CASE Delay
  <2>1. /\ Len(inbox') = Len(inbox)
        /\ \A i \in 1 .. Len(inbox) : inbox'[i].kind = inbox[i].kind /\ inbox'[i].seq = inbox[i].seq
    BY <1>7, LateFacts DEF Delay, TypeOK
  <2>2. UNCHANGED <<responder, caller, nextSeq, emitted>> /\ AnswerLast /\ Arriving
    BY <1>7 DEF Delay, Whole
  <2>3. ASSUME NEW k \in 0 .. Len(inbox), ComingWithin(k) PROVE ComingWithin(k)'
    BY <1>0, <2>1, <2>2, <2>3, StillComing
  <2>4. AnswerLast'
    BY <2>1, <2>2 DEF AnswerLast
  <2>5. \A i \in 1 .. Len(inbox) : i - 1 \in 0 .. Len(inbox)
    BY <1>0
  <2>7. Arriving'
    <3>1. ASSUME caller = "polling", NEW i \in 1 .. Len(inbox'), OkAt(i)'
          PROVE  ComingWithin(i - 1)'
      BY <2>1, <2>2, <2>3, <2>5, <3>1 DEF Arriving
    <3>2. ASSUME responder = "streaming", caller = "polling" PROVE ComingWithin(Len(inbox))'
      <4>1. PICK k \in 0 .. Len(inbox) : k = Len(inbox)
        BY <1>0
      <4>2. ComingWithin(k)
        BY <2>2, <3>2, <4>1 DEF Arriving
      <4>3. ComingWithin(k)'
        BY <2>3, <4>2
      <4> QED
        BY <2>1, <4>1, <4>3 DEF ComingWithin
    <3> QED
      BY <2>2, <3>1, <3>2 DEF Arriving
  <2> QED
    BY <2>4, <2>7
<1> QED
  BY <1>1, <1>2, <1>3, <1>4, <1>5, <1>6, <1>7

(* What is coming moves up when the caller takes a message it does not     *)
(* lack any more.                                                          *)
LEMMA ComingUp ==
  ASSUME NEW k \in Nat, ComingWithin(k), nextSeq \in Nat, nextSeq' >= nextSeq,
         nextSeq' \in Nat, emitted' = emitted, emitted \in Nat,
         \A n \in Nat : n >= nextSeq' => ~ChunkAt(1, n),
         \A j \in 1 .. k - 1 : inbox'[j] = inbox[j + 1]
  PROVE  ComingWithin(k - 1)'
<1> SUFFICES ASSUME NEW n \in 0 .. emitted - 1, n >= nextSeq'
             PROVE  \E j \in 1 .. k - 1 : ChunkAt(j, n)'
  BY DEF ComingWithin
<1>1. PICK j \in 1 .. k : ChunkAt(j, n)
  BY DEF ComingWithin
<1>2. j # 1
  BY <1>1
<1>3. j - 1 \in 1 .. k - 1 /\ inbox'[j - 1] = inbox[j]
  <2>1. j - 1 \in 1 .. k - 1 /\ (j - 1) + 1 = j
    BY <1>1, <1>2
  <2> QED
    BY <2>1
<1>4. ChunkAt(j - 1, n)'
  BY <1>1, <1>3 DEF ChunkAt
<1> QED
  BY <1>3, <1>4

(* The caller accepts an answer only behind its chunks: nothing is coming  *)
(* before the first message.                                               *)
LEMMA WholeReceived == IInv /\ Receive => Whole'
<1> SUFFICES ASSUME IInv, Receive, ~mishap' PROVE AnswerLast' /\ Arriving'
  BY DEF Whole
<1> USE DEF IInv, OkAt, server
<1> DEFINE m == Head(inbox)
<1>0. /\ emitted \in Nat /\ nextSeq \in Nat /\ Len(inbox) \in Nat
      /\ \A i \in 1 .. Len(inbox) : inbox[i] \in Messages
  BY StreamAssumption DEF TypeOK
<1>1. /\ inbox # <<>> /\ caller = "polling" /\ inbox' = Tail(inbox) /\ mishap' = mishap
      /\ UNCHANGED <<responder, emitted>>
  BY DEF Receive, AcceptChunk, RefuseChunk, AcceptAnswer, Ignore, Take
<1>2. AnswerLast /\ Arriving
  BY <1>1 DEF Whole
<1>3. /\ m = inbox[1] /\ 1 \in 1 .. Len(inbox) /\ Len(inbox') = Len(inbox) - 1
      /\ \A i \in 1 .. Len(inbox') : i + 1 \in 1 .. Len(inbox) /\ inbox'[i] = inbox[i + 1]
  BY <1>0, <1>1, TakeFacts
<1>4. \A i \in 1 .. Len(inbox') : OkAt(i)' => OkAt(i + 1)
  BY <1>3
<1>5. \A j \in 1 .. Len(inbox') : inbox'[j].kind = "chunk" /\ AnswerLast =>
        \/ inbox'[j].seq < emitted
        \/ ~(responder = "streaming" \/ \E i \in 1 .. Len(inbox) : OkAt(i))
  BY <1>3 DEF AnswerLast
<1>6. ASSUME nextSeq' = nextSeq, caller' = "ok" => OkAt(1) PROVE AnswerLast'
  BY <1>1, <1>2, <1>3, <1>4, <1>5, <1>6 DEF AnswerLast
<1>7. ASSUME caller' = "polling", nextSeq' \in Nat, nextSeq' >= nextSeq,
             \A n \in Nat : n >= nextSeq' => ~ChunkAt(1, n)
      PROVE  Arriving'
  <2>1. ASSUME NEW k \in 1 .. Len(inbox), ComingWithin(k) PROVE ComingWithin(k - 1)'
    <3>1. \A j \in 1 .. k - 1 : inbox'[j] = inbox[j + 1]
      BY <1>0, <1>3
    <3> QED
      BY <1>0, <1>1, <1>7, <2>1, <3>1, ComingUp
  <2>2. ASSUME responder = "streaming" PROVE ComingWithin(Len(inbox))'
    <3>1. PICK k \in 1 .. Len(inbox) : k = Len(inbox)
      BY <1>0, <1>3
    <3>2. ComingWithin(k - 1)'
      BY <1>1, <1>2, <2>1, <2>2, <3>1 DEF Arriving
    <3>3. Len(inbox') = k - 1
      BY <1>3, <3>1
    <3> QED
      BY <3>2, <3>3 DEF ComingWithin
  <2>3. ASSUME NEW i \in 1 .. Len(inbox'), OkAt(i)' PROVE ComingWithin(i - 1)'
    <3>1. i + 1 \in 1 .. Len(inbox) /\ OkAt(i + 1) /\ i \in 1 .. Len(inbox) /\ (i + 1) - 1 = i
      BY <1>0, <1>3, <1>4, <2>3
    <3>2. ComingWithin(i)
      BY <1>1, <1>2, <3>1 DEF Arriving
    <3> QED
      BY <2>1, <3>1, <3>2
  <2> QED
    BY <1>1, <1>7, <2>2, <2>3 DEF Arriving
<1>8. CASE m.kind = "chunk" /\ AcceptChunk(m)
  <2>1. /\ ChunkAt(1, nextSeq) /\ nextSeq' = nextSeq + 1 /\ caller' = "polling"
    BY <1>1, <1>3, <1>8 DEF AcceptChunk, InSequence, ChunkAt
  <2>2. AnswerLast'
    <3>1. responder = "streaming" \/ (\E i \in 1 .. Len(inbox) : OkAt(i)) => nextSeq < emitted
      BY <1>2, <1>3, <2>1 DEF AnswerLast, ChunkAt
    <3> QED
      BY <1>0, <1>1, <1>2, <1>3, <1>4, <1>5, <2>1, <3>1 DEF AnswerLast
  <2>3. \A n \in Nat : n >= nextSeq' => ~ChunkAt(1, n)
    BY <1>0, <2>1 DEF ChunkAt
  <2> QED
    BY <1>0, <1>7, <2>1, <2>2, <2>3
<1>9. CASE RefuseChunk(m)
  BY <1>6, <1>9 DEF RefuseChunk, Arriving
<1>10. CASE AcceptAnswer(m)
  <2>1. /\ caller' \in {"ok", "error"} /\ nextSeq' = nextSeq
        /\ caller' = "ok" => OkAt(1)
    BY <1>3, <1>10 DEF AcceptAnswer
  <2>2. ASSUME caller' = "ok" PROVE nextSeq = emitted
    <3>1. ComingWithin(0) /\ nextSeq <= emitted
      <4>1. ComingWithin(1 - 1)
        BY <1>1, <1>2, <1>3, <2>1, <2>2 DEF Arriving
      <4> QED
        BY <1>2, <1>3, <2>1, <2>2, <4>1 DEF AnswerLast
    <3>2. nextSeq \notin 0 .. emitted - 1
      BY <1>0, <3>1 DEF ComingWithin
    <3> QED
      BY <1>0, <3>1, <3>2
  <2> QED
    BY <1>1, <1>6, <2>1, <2>2 DEF Arriving
<1>11. CASE m.kind = "foreign" /\ Ignore
  <2>1. nextSeq' = nextSeq /\ caller' = caller
    BY <1>11 DEF Ignore
  <2>2. \A n \in Nat : ~ChunkAt(1, n)
    BY <1>3, <1>11 DEF ChunkAt
  <2> QED
    BY <1>0, <1>1, <1>6, <1>7, <2>1, <2>2
<1> QED
  BY <1>8, <1>9, <1>10, <1>11 DEF Receive

(* The rest of the call leaves the channel alone.                          *)
LEMMA WholeStep == IInv /\ [Next]_vars => Whole'
<1> SUFFICES ASSUME IInv, [Next]_vars PROVE Whole'
  OBVIOUS
<1>1. ASSUME Timeout \/ ReceiveFails PROVE Whole'
  BY <1>1 DEF Timeout, ReceiveFails, Throw, IInv, Whole, AnswerLast, Arriving, OkAt
<1>2. ASSUME Settle \/ Yield \/ Sleep \/ Leave \/ Pull \/ Finish \/ Disconnect \/ UNCHANGED vars
      PROVE  Whole'
  <2>1. UNCHANGED <<responder, emitted, inbox, caller, nextSeq, mishap>>
    BY <1>2 DEF Settle, Yield, Sleep, Leave, Pull, Finish, Disconnect, vars, server, network
  <2> QED
    BY <2>1 DEF IInv, Whole, AnswerLast, Arriving, ComingWithin, OkAt, ChunkAt
<1> QED
  BY <1>1, <1>2, WholeSent, WholeReceived DEF Next, Faulty

-----------------------------------------------------------------------------
(* The invariant holds in every reachable state.                           *)
THEOREM Invariance == Spec => []IInv
<1>1. IInv /\ [Next]_vars => IInv'
  BY TypeStep, RelayStep, ClosingStep, WholeStep DEF IInv
<1> QED
  BY InitIInv, <1>1, PTL DEF Spec

(* Every variable has its type (caller.ts:87, call-server.ts:405-431).     *)
THEOREM TypeCorrect == Spec => []TypeOK
BY Invariance, PTL DEF IInv

(* A call that a page sees succeed was seen whole, for any number of       *)
(* chunks and faults (call-server.ts:446-458).                             *)
THEOREM WholeAnswers == Spec => []WholeUnlessMishap
<1>1. IInv => WholeUnlessMishap
  BY DEF IInv, TypeOK, Relayed, Closing, Whole, Arriving, WholeUnlessMishap
<1> QED
  BY Invariance, <1>1, PTL

(* A step of the stream shows the next chunk, or closes the feed.          *)
LEMMA FeedStep == IInv /\ [Next]_vars => [Feed!Next]_<<page, pageEnd>>
<1> SUFFICES ASSUME IInv, [Next]_vars, ~UNCHANGED <<page, pageEnd>>
             PROVE  Feed!Show \/ Feed!Close
  BY DEF Feed!Next
<1>1. CASE Yield
  <2>1. pageEnd = "open" /\ pageEnd' = "open"
    BY <1>1 DEF Yield, IInv, Closing
  <2>2. buffer \in Seq(0 .. MaxChunks) /\ Len(page) \in Nat
    BY DEF IInv, TypeOK
  <2>3. Head(buffer) = Len(page)
    <3>1. Head(buffer) = buffer[1] /\ Len(buffer) \in Nat /\ Len(buffer) >= 1
      BY <1>1, <2>2, TailFacts DEF Yield
    <3>2. buffer[1] = Len(page) + 1 - 1
      BY <3>1 DEF IInv, Relayed
    <3> QED
      BY <2>2, <3>1, <3>2
  <2> QED
    BY <1>1, <2>1, <2>3 DEF Yield, Feed!Show
<1>2. CASE Finish
  BY <1>2 DEF Finish, IInv, TypeOK, Closing, Feed!Close
<1>3. CASE Disconnect
  BY <1>3 DEF Disconnect, IInv, Closing, Feed!Close
<1>4. CASE Receive
  BY <1>4 DEF Receive, AcceptChunk, RefuseChunk, AcceptAnswer, Ignore
<1>5. CASE EmitChunk \/ (\E kind \in {"ok", "error"} : Reply(kind)) \/ Faulty \/ Timeout
           \/ Settle \/ Sleep \/ Leave \/ Pull \/ UNCHANGED vars
  BY <1>5 DEF EmitChunk, Reply, Faulty, EmitFails, ReplyFails, Lose, Overtake, Repeat,
              Delay, Stray, ReceiveFails, Timeout, Throw, Settle, Sleep, Leave, Pull, vars
<1> QED
  BY <1>1, <1>2, <1>3, <1>4, <1>5 DEF Next

(* The page sees an ordered feed: the first chunks, each once and in order,*)
(* then one outcome (caller.ts:112, call-server.ts:446-455).               *)
THEOREM Refinement == Spec => PageSeesStream
<1>1. Init => Feed!Init
  BY DEF Init, Feed!Init
<1> QED
  BY Invariance, <1>1, FeedStep, PTL DEF Spec, PageSeesStream, Feed!Spec

-----------------------------------------------------------------------------
(* The call panel around the stream.  Frames on their way are counted: the *)
(* n-th frame of a kind that the page reads is the n-th that the route     *)
(* sent.                                                                   *)
LEMMA Induct ==
  ASSUME NEW S, 0 \in S, \A n \in Nat : n \in S => n + 1 \in S
  PROVE  Nat \subseteq S
<1> SUFFICES ASSUME Nat \ S # {} PROVE FALSE
  OBVIOUS
<1>1. IsWellFoundedOn({ss \in Nat \X Nat : ss[1] < ss[2]}, Nat)
  BY NatLessThanWellFounded DEF OpToRel
<1>2. PICK n \in Nat \ S : \A m \in Nat \ S : ~(<<m, n>> \in {ss \in Nat \X Nat : ss[1] < ss[2]})
  <2>1. Nat \ S \subseteq Nat
    OBVIOUS
  <2> QED
    BY <1>1, <2>1, WFMin
<1>3. \A m \in Nat \ S : ~(m < n)
  BY <1>2
<1>4. n # 0 /\ n - 1 \in Nat /\ n - 1 < n /\ (n - 1) + 1 = n
  BY <1>2
<1>5. n - 1 \in S
  BY <1>3, <1>4
<1> QED
  BY <1>2, <1>4, <1>5

Count(kind, w, i) == Cardinality({j \in 1 .. i : w[j].kind = kind})

LEMMA CountZero ==
  ASSUME NEW kind, NEW w
  PROVE  Count(kind, w, 0) = 0
<1>1. {j \in 1 .. 0 : w[j].kind = kind} = {}
  OBVIOUS
<1> QED
  BY <1>1, FS_EmptySet DEF Count

LEMMA CountStep ==
  ASSUME NEW kind, NEW w, NEW i \in Nat, NEW k \in Nat, k = i + 1
  PROVE  /\ Count(kind, w, i) \in Nat /\ Count(kind, w, k) \in Nat
         /\ w[k].kind = kind => Count(kind, w, k) = Count(kind, w, i) + 1
         /\ w[k].kind # kind => Count(kind, w, k) = Count(kind, w, i)
<1> DEFINE C(n) == {j \in 1 .. n : w[j].kind = kind}
<1>1. IsFiniteSet(C(i)) /\ Cardinality(C(i)) \in Nat
  <2>1. IsFiniteSet(1 .. i) /\ C(i) \subseteq 1 .. i
    BY FS_Interval
  <2> QED
    BY <2>1, FS_Subset, FS_CardinalityType
<1>2. ASSUME w[k].kind = kind PROVE Cardinality(C(k)) = Cardinality(C(i)) + 1
  <2>1. C(k) = C(i) \cup {k} /\ k \notin C(i)
    BY <1>2
  <2> QED
    BY <1>1, <2>1, FS_AddElement
<1>3. ASSUME w[k].kind # kind PROVE Cardinality(C(k)) = Cardinality(C(i))
  <2>1. C(k) = C(i)
    BY <1>3
  <2> QED
    BY <2>1
<1>4. Cardinality(C(k)) \in Nat
  BY <1>1, <1>2, <1>3
<1> QED
  BY <1>1, <1>2, <1>3, <1>4 DEF Count

LEMMA CountGrows ==
  ASSUME NEW kind, NEW w, NEW i \in Nat, NEW k \in Nat, i <= k
  PROVE  Count(kind, w, i) <= Count(kind, w, k)
<1>1. IsFiniteSet(1 .. k)
  BY FS_Interval
<1>2. IsFiniteSet({j \in 1 .. k : w[j].kind = kind})
  BY <1>1, FS_Subset
<1>3. {j \in 1 .. i : w[j].kind = kind} \subseteq {j \in 1 .. k : w[j].kind = kind}
  OBVIOUS
<1> QED
  BY <1>2, <1>3, FS_Subset DEF Count

LEMMA CountSame ==
  ASSUME NEW kind, NEW v, NEW w, NEW i \in Nat, \A j \in 1 .. i : v[j] = w[j]
  PROVE  Count(kind, v, i) = Count(kind, w, i)
<1>1. {j \in 1 .. i : v[j].kind = kind} = {j \in 1 .. i : w[j].kind = kind}
  OBVIOUS
<1> QED
  BY <1>1 DEF Count

(* Without its first frame, a sequence of frames has that one less.        *)
LEMMA CountTail ==
  ASSUME NEW kind, NEW S, NEW w \in Seq(S), w # <<>>, NEW i \in 0 .. Len(w) - 1,
         NEW k \in Nat, k = i + 1
  PROVE  Count(kind, w, k) = Count(kind, Tail(w), i) + (IF w[1].kind = kind THEN 1 ELSE 0)
<1> DEFINE one == IF w[1].kind = kind THEN 1 ELSE 0
<1> DEFINE T == {n \in Nat : n <= Len(w) - 1 =>
                   Count(kind, w, n + 1) = Count(kind, Tail(w), n) + one}
<1>1. one \in Nat
  OBVIOUS
<1>2. 0 \in T
  <2>1. Count(kind, w, 0) = 0 /\ Count(kind, Tail(w), 0) = 0
    BY CountZero
  <2>2. 0 \in Nat /\ 1 \in Nat /\ 1 = 0 + 1
    OBVIOUS
  <2>3. /\ w[1].kind = kind => Count(kind, w, 1) = Count(kind, w, 0) + 1
        /\ w[1].kind # kind => Count(kind, w, 1) = Count(kind, w, 0)
    BY <2>2, CountStep
  <2>4. Count(kind, w, 1) = one
    BY <2>1, <2>3
  <2> QED
    BY <1>1, <2>1, <2>4
<1> HIDE DEF one
<1>3. ASSUME NEW n \in Nat, n \in T PROVE n + 1 \in T
  <2> SUFFICES ASSUME n + 1 <= Len(w) - 1
               PROVE  Count(kind, w, (n + 1) + 1) = Count(kind, Tail(w), n + 1) + one
    OBVIOUS
  <2>1. PICK m \in Nat : m = n + 1
    OBVIOUS
  <2>2. PICK l \in Nat : l = m + 1
    OBVIOUS
  <2>3. Tail(w)[m] = w[l]
    BY <2>1, <2>2, TailFacts
  <2>4. Count(kind, w, m) = Count(kind, Tail(w), n) + one
    BY <1>3, <2>1
  <2>5. /\ Count(kind, w, m) \in Nat /\ Count(kind, Tail(w), n) \in Nat
        /\ w[l].kind = kind => /\ Count(kind, w, l) = Count(kind, w, m) + 1
                               /\ Count(kind, Tail(w), m) = Count(kind, Tail(w), n) + 1
        /\ w[l].kind # kind => /\ Count(kind, w, l) = Count(kind, w, m)
                               /\ Count(kind, Tail(w), m) = Count(kind, Tail(w), n)
    <3>1. /\ Count(kind, w, m) \in Nat
          /\ w[l].kind = kind => Count(kind, w, l) = Count(kind, w, m) + 1
          /\ w[l].kind # kind => Count(kind, w, l) = Count(kind, w, m)
      BY <2>2, CountStep
    <3>2. /\ Count(kind, Tail(w), n) \in Nat
          /\ Tail(w)[m].kind = kind => Count(kind, Tail(w), m) = Count(kind, Tail(w), n) + 1
          /\ Tail(w)[m].kind # kind => Count(kind, Tail(w), m) = Count(kind, Tail(w), n)
      <4>1. ASSUME NEW t
            PROVE  /\ Count(kind, t, n) \in Nat
                   /\ t[m].kind = kind => Count(kind, t, m) = Count(kind, t, n) + 1
                   /\ t[m].kind # kind => Count(kind, t, m) = Count(kind, t, n)
        BY <2>1, CountStep
      <4> QED
        BY <4>1, Zenon
    <3> QED
      BY <2>3, <3>1, <3>2
  <2>6. Count(kind, w, l) = Count(kind, Tail(w), m) + one
    BY <1>1, <2>4, <2>5
  <2> QED
    BY <2>1, <2>2, <2>6
<1>4. i \in T
  <2>1. Nat \subseteq T
    BY <1>2, <1>3, Induct
  <2>2. i \in Nat
    OBVIOUS
  <2> QED
    BY <2>1, <2>2
<1>5. i <= Len(w) - 1
  OBVIOUS
<1> QED
  BY <1>4, <1>5 DEF one

Val(f) == IF f.kind = "chunk" THEN f.seq ELSE f.step

(* The page has seen the first of what was told, and the rest is coming.   *)
Accounted(kind, w, seen, told) ==
  /\ Len(seen) + Count(kind, w, Len(w)) = Len(told)
  /\ \A i \in 1 .. Len(w) : w[i].kind = kind => Val(w[i]) = told[Len(seen) + Count(kind, w, i)]
  /\ \A i \in 1 .. Len(seen) : seen[i] = told[i]

LEMMA NothingComing ==
  ASSUME NEW kind
  PROVE  Accounted(kind, <<>>, <<>>, <<>>)
<1>1. Len(<<>>) = 0
  OBVIOUS
<1> QED
  BY <1>1, CountZero DEF Accounted

LEMMA OtherSent ==
  ASSUME NEW kind, NEW S, NEW V, NEW w \in Seq(S), NEW f \in S, NEW seen \in Seq(V), NEW told,
         Accounted(kind, w, seen, told), f.kind # kind
  PROVE  Accounted(kind, Append(w, f), seen, told)
<1> DEFINE v == Append(w, f)
<1>1. /\ Len(v) = Len(w) + 1 /\ Len(w) \in Nat /\ v[Len(w) + 1] = f
      /\ \A i \in 1 .. Len(w) : v[i] = w[i]
  BY AppendFacts
<1> HIDE DEF v
<1>2. ASSUME NEW i \in 0 .. Len(w) PROVE Count(kind, v, i) = Count(kind, w, i)
  <2>1. i \in Nat /\ \A j \in 1 .. i : v[j] = w[j]
    BY <1>1
  <2> QED
    BY <2>1, CountSame
<1>3. Count(kind, v, Len(v)) = Count(kind, w, Len(w))
  <2>1. Count(kind, v, Len(w)) = Count(kind, w, Len(w))
    BY <1>1, <1>2
  <2>2. Len(w) \in Nat /\ Len(v) \in Nat /\ Len(v) = Len(w) + 1 /\ v[Len(v)] = f
    BY <1>1
  <2> QED
    BY <2>1, <2>2, CountStep
<1>4. ASSUME NEW i \in 1 .. Len(v), v[i].kind = kind
      PROVE  Val(v[i]) = told[Len(seen) + Count(kind, v, i)]
  <2>1. i \in 1 .. Len(w) /\ i \in 0 .. Len(w)
    BY <1>1, <1>4
  <2> QED
    BY <1>1, <1>2, <1>4, <2>1 DEF Accounted
<1> QED
  BY <1>3, <1>4 DEF Accounted, v

LEMMA KindSent ==
  ASSUME NEW kind, NEW S, NEW V, NEW w \in Seq(S), NEW f \in S, NEW seen \in Seq(V),
         NEW told \in Seq(V), Val(f) \in V, Accounted(kind, w, seen, told), f.kind = kind
  PROVE  Accounted(kind, Append(w, f), seen, Append(told, Val(f)))
<1> DEFINE v == Append(w, f)
<1> DEFINE told2 == Append(told, Val(f))
<1>1. /\ Len(v) = Len(w) + 1 /\ Len(w) \in Nat /\ v[Len(w) + 1] = f
      /\ \A i \in 1 .. Len(w) : v[i] = w[i]
  BY AppendFacts
<1>2. /\ Len(told2) = Len(told) + 1 /\ Len(told) \in Nat /\ told2[Len(told) + 1] = Val(f)
      /\ \A i \in 1 .. Len(told) : told2[i] = told[i]
  BY AppendFacts
<1> HIDE DEF v, told2
<1>3. ASSUME NEW i \in 0 .. Len(w)
      PROVE  Count(kind, v, i) = Count(kind, w, i) /\ Count(kind, w, i) \in Nat
  <2>1. i \in Nat /\ \A j \in 1 .. i : v[j] = w[j]
    BY <1>1
  <2> QED
    BY <2>1, CountSame, CountStep
<1>4. Count(kind, v, Len(v)) = Count(kind, w, Len(w)) + 1
  <2>1. Count(kind, v, Len(w)) = Count(kind, w, Len(w))
    BY <1>1, <1>3
  <2>2. Len(w) \in Nat /\ Len(v) \in Nat /\ Len(v) = Len(w) + 1 /\ v[Len(v)] = f
    BY <1>1
  <2>3. v[Len(v)].kind = kind
    BY <2>2
  <2>4. Count(kind, v, Len(v)) = Count(kind, v, Len(w)) + 1
    BY <2>2, <2>3, CountStep
  <2> QED
    BY <2>1, <2>4
<1>5. Len(seen) \in Nat /\ Len(seen) + Count(kind, w, Len(w)) = Len(told)
  BY DEF Accounted
<1>6. Len(seen) + Count(kind, v, Len(v)) = Len(told2)
  <2>1. Count(kind, w, Len(w)) \in Nat
    BY <1>1, <1>3
  <2> QED
    BY <1>2, <1>4, <1>5, <2>1
<1>7. \A i \in 1 .. Len(seen) : seen[i] = told2[i]
  BY <1>1, <1>2, <1>3, <1>5 DEF Accounted
<1>8. ASSUME NEW i \in 1 .. Len(v), v[i].kind = kind
      PROVE  Val(v[i]) = told2[Len(seen) + Count(kind, v, i)]
  <2>1. CASE i = Len(w) + 1
    BY <1>1, <1>2, <1>6, <2>1
  <2>2. CASE i \in 1 .. Len(w)
    <3>1. Val(w[i]) = told[Len(seen) + Count(kind, w, i)] /\ v[i] = w[i]
      BY <1>1, <1>8, <2>2 DEF Accounted
    <3>2. i - 1 \in Nat /\ (i - 1) + 1 = i
      BY <2>2
    <3>3. Count(kind, w, i) >= 1
      <4>1. PICK h \in Nat : i = h + 1
        BY <3>2
      <4>2. i \in Nat /\ w[i].kind = kind
        BY <1>8, <2>2, <3>1
      <4>3. Count(kind, w, i) = Count(kind, w, h) + 1 /\ Count(kind, w, h) \in Nat
        BY <4>1, <4>2, CountStep
      <4> QED
        BY <4>3
    <3>4. Count(kind, w, i) <= Count(kind, w, Len(w))
      BY <1>1, <2>2, CountGrows
    <3>5. Len(seen) + Count(kind, w, i) \in 1 .. Len(told)
      <4>1. Count(kind, w, i) \in Nat /\ Count(kind, w, Len(w)) \in Nat
        BY <1>1, <1>3, <2>2
      <4> QED
        BY <1>5, <3>3, <3>4, <4>1
    <3> QED
      BY <1>2, <1>3, <2>2, <3>1, <3>5
  <2> QED
    BY <1>1, <2>1, <2>2
<1> QED
  BY <1>6, <1>7, <1>8 DEF Accounted, v, told2

LEMMA OtherRead ==
  ASSUME NEW kind, NEW S, NEW V, NEW w \in Seq(S), w # <<>>, NEW seen \in Seq(V), NEW told,
         Accounted(kind, w, seen, told), Head(w).kind # kind
  PROVE  Accounted(kind, Tail(w), seen, told)
<1> DEFINE v == Tail(w)
<1>1. /\ Head(w) = w[1] /\ Len(w) \in Nat /\ Len(w) >= 1 /\ Len(v) = Len(w) - 1
      /\ \A i \in 1 .. Len(w) - 1 : v[i] = w[i + 1]
  BY TailFacts
<1>2. ASSUME NEW i \in 0 .. Len(w) - 1
      PROVE  Count(kind, w, i + 1) = Count(kind, v, i) + 0 /\ Count(kind, v, i) \in Nat
  <2>1. PICK k \in Nat : k = i + 1
    OBVIOUS
  <2>2. Count(kind, w, k) = Count(kind, v, i) + 0
    BY <1>1, <2>1, CountTail
  <2> QED
    BY <2>1, <2>2, CountStep
<1> HIDE DEF v
<1>3. Count(kind, v, Len(v)) = Count(kind, w, Len(w))
  <2>1. Len(v) \in 0 .. Len(w) - 1 /\ Len(v) + 1 = Len(w)
    BY <1>1
  <2> QED
    BY <1>2, <2>1
<1>4. ASSUME NEW i \in 1 .. Len(v), v[i].kind = kind
      PROVE  Val(v[i]) = told[Len(seen) + Count(kind, v, i)]
  <2>1. i + 1 \in 1 .. Len(w) /\ i \in 0 .. Len(w) - 1 /\ v[i] = w[i + 1]
    BY <1>1
  <2>2. Val(w[i + 1]) = told[Len(seen) + Count(kind, w, i + 1)]
    BY <1>4, <2>1 DEF Accounted
  <2> QED
    BY <1>2, <2>1, <2>2
<1> QED
  BY <1>3, <1>4 DEF Accounted, v

LEMMA KindRead ==
  ASSUME NEW kind, NEW S, NEW V, NEW w \in Seq(S), w # <<>>, NEW seen \in Seq(V), NEW told,
         Val(Head(w)) \in V, Accounted(kind, w, seen, told), Head(w).kind = kind
  PROVE  Accounted(kind, Tail(w), Append(seen, Val(Head(w))), told)
<1> DEFINE v == Tail(w)
<1> DEFINE seen2 == Append(seen, Val(Head(w)))
<1>1. /\ Head(w) = w[1] /\ Len(w) \in Nat /\ Len(w) >= 1 /\ Len(v) = Len(w) - 1
      /\ \A i \in 1 .. Len(w) - 1 : v[i] = w[i + 1]
  BY TailFacts
<1>2. /\ Len(seen2) = Len(seen) + 1 /\ Len(seen) \in Nat /\ seen2[Len(seen) + 1] = Val(Head(w))
      /\ \A i \in 1 .. Len(seen) : seen2[i] = seen[i]
  BY AppendFacts
<1>3. ASSUME NEW i \in 0 .. Len(w) - 1
      PROVE  Count(kind, w, i + 1) = Count(kind, v, i) + 1 /\ Count(kind, v, i) \in Nat
  <2>1. PICK k \in Nat : k = i + 1
    OBVIOUS
  <2>2. Count(kind, w, k) = Count(kind, v, i) + 1
    BY <1>1, <2>1, CountTail
  <2> QED
    BY <2>1, <2>2, CountStep
<1> HIDE DEF v, seen2
<1>4. Len(seen2) + Count(kind, v, Len(v)) = Len(told)
  <2>1. Len(v) \in 0 .. Len(w) - 1 /\ Len(v) + 1 = Len(w)
    BY <1>1
  <2>2. Len(seen) + Count(kind, w, Len(w)) = Len(told)
    BY DEF Accounted
  <2> QED
    BY <1>2, <1>3, <2>1, <2>2
<1>5. ASSUME NEW i \in 1 .. Len(v), v[i].kind = kind
      PROVE  Val(v[i]) = told[Len(seen2) + Count(kind, v, i)]
  <2>1. i + 1 \in 1 .. Len(w) /\ i \in 0 .. Len(w) - 1 /\ v[i] = w[i + 1]
    BY <1>1
  <2>2. Val(w[i + 1]) = told[Len(seen) + Count(kind, w, i + 1)]
    BY <1>5, <2>1 DEF Accounted
  <2>3. Len(seen) + Count(kind, w, i + 1) = Len(seen2) + Count(kind, v, i)
    BY <1>2, <1>3, <2>1
  <2> QED
    BY <2>1, <2>2, <2>3
<1>6. ASSUME NEW i \in 1 .. Len(seen2) PROVE seen2[i] = told[i]
  <2>1. CASE i \in 1 .. Len(seen)
    BY <1>2, <2>1 DEF Accounted
  <2>2. CASE i = Len(seen) + 1
    <3>1. Count(kind, w, 1) = 1
      <4>1. Count(kind, w, 0) = 0
        BY CountZero
      <4>2. 0 \in Nat /\ 1 \in Nat /\ 1 = 0 + 1 /\ w[1].kind = kind
        BY <1>1
      <4>3. Count(kind, w, 1) = Count(kind, w, 0) + 1
        BY <4>2, CountStep
      <4> QED
        BY <4>1, <4>3
    <3>2. 1 \in 1 .. Len(w) /\ w[1].kind = kind
      BY <1>1
    <3>3. Val(w[1]) = told[Len(seen) + Count(kind, w, 1)]
      BY <3>2 DEF Accounted
    <3> QED
      BY <1>1, <1>2, <2>2, <3>1, <3>3
  <2> QED
    BY <1>2, <2>1, <2>2
<1> QED
  BY <1>4, <1>5, <1>6 DEF Accounted, v, seen2

-----------------------------------------------------------------------------
(* Where the handler of a call is: before the request is dispatched, while *)
(* it streams, or after.                                                   *)
Names(steps) == {steps[i] : i \in DOMAIN steps}
Steps == Names(Before) \cup Names(After) \cup {"error"}

Requests == [skill : Skills, stream : BOOLEAN]

Frames ==
  {Refused}
    \cup [kind : {"trace"}, step : Steps]
    \cup [kind : {"chunk"}, seq : 0 .. MaxChunks]
    \cup [kind : {"final"}, ok : BOOLEAN, skill : Skills, stream : BOOLEAN, trace : Seq(Steps)]

Kept ==
  /\ skill \in Skills /\ stream \in BOOLEAN /\ running \in BOOLEAN /\ notice \in BOOLEAN
  /\ calls \in 0 .. MaxCalls /\ hits \in 0 .. calls
  /\ stage = "route" => hits < calls
  /\ request \in {Nil} \cup Requests
  /\ stage \in {"idle", "route", "dispatch", "finish"} \cup Names(Before) \cup Names(After)
  /\ conn \in {"none", "open", "ended", "cut"}
  /\ trace \in Seq(Steps) /\ traceShown \in Seq(Steps)
  /\ text \in Seq(0 .. MaxChunks)
  /\ wire \in Seq(Frames)

Preparing == stage \in {"route"} \cup Names(Before)
Reporting == stage \in Names(After)
Untold == relay = "run" /\ page = <<>>

(* A call under way has a request; the generator runs only for a streaming *)
(* one, and only when dispatched; the last step tells how it ended.        *)
Stages ==
  /\ stage # "idle" => request \in Requests
  /\ stage = "idle" \/ Preparing \/ ~request.stream => relay = "closed" \/ Untold
  /\ stage # "idle" /\ request.stream =>
       /\ Preparing => Untold
       /\ stage = "dispatch" => relay # "closed"
       /\ Reporting => relay = "final" /\ caller = "ok"
       /\ stage = "finish" => \/ relay = "final" /\ (Succeeded <=> caller = "ok")
                              \/ Untold /\ ~Succeeded

(* The page, the handler and the connection between them agree on whether  *)
(* a call is under way, and on its skill.                                  *)
Link ==
  /\ running => conn \in {"open", "ended"} /\ request \in Requests /\ skill = request.skill
  /\ ~running => conn # "open"
  /\ IF stage = "idle" THEN conn # "open" ELSE conn \in {"open", "cut"}

(* A refusal or an answer is the last frame, and the answer is the call's. *)
Underway(frames) == \A i \in 1 .. Len(frames) : frames[i].kind \in {"trace", "chunk"}

FinalOf(f) ==
  /\ f.skill = skill /\ f.trace = trace
  /\ f.stream => request.stream /\ (f.ok <=> pageEnd = "ok")

Lasts ==
  running => \A i \in 1 .. Len(wire) : wire[i].kind \in {"final", "refused"} =>
               /\ i = Len(wire) /\ stage = "idle"
               /\ wire[i].kind = "final" => FinalOf(wire[i])

Accounts ==
  running /\ request.stream =>
    /\ Accounted("chunk", wire, text, page)
    /\ Accounted("trace", wire, traceShown, trace)

Results ==
  result # Nil =>
    /\ stage = "idle" /\ (running => wire = <<>>) /\ conn \in {"ended", "none"}
    /\ result.skill = skill
    /\ result.stream => /\ text = page /\ traceShown = result.trace
                        /\ result.ok <=> pageEnd = "ok"

Panel == Kept /\ Stages /\ Link /\ Lasts /\ Accounts /\ Results

PanelInv == IInv /\ Panel

LEMMA StageNames ==
  /\ Names(Before) = {"resolve-ens", "verify-identity", "boot-callee", "build-request"}
  /\ Names(After) = {"dispatch + sign", "compute-result", "verify-response-sig", "tee-attest",
                     "rep-attestation"}
  /\ \A i \in DOMAIN Before : Before[i] \in Names(Before)
  /\ \A i \in DOMAIN After : After[i] \in Names(After)
  /\ \A i \in DOMAIN Before : i < Len(Before) => i + 1 \in DOMAIN Before
  /\ \A i \in DOMAIN After : i < Len(After) => i + 1 \in DOMAIN After
  /\ \A i \in DOMAIN After : ~(i < Len(After)) => After[i] = "rep-attestation"
  /\ Before[1] = "resolve-ens" /\ After[1] = "dispatch + sign"
  /\ After[Len(After)] = "rep-attestation"
<1>1. /\ DOMAIN Before = {1, 2, 3, 4} /\ Len(Before) = 4
      /\ Before[1] = "resolve-ens" /\ Before[2] = "verify-identity"
      /\ Before[3] = "boot-callee" /\ Before[4] = "build-request"
  BY DEF Before
<1>2. /\ DOMAIN After = {1, 2, 3, 4, 5} /\ Len(After) = 5
      /\ After[1] = "dispatch + sign" /\ After[2] = "compute-result"
      /\ After[3] = "verify-response-sig" /\ After[4] = "tee-attest"
      /\ After[5] = "rep-attestation"
  BY DEF After
<1>3. Names(Before) = {Before[1], Before[2], Before[3], Before[4]}
  BY <1>1 DEF Names
<1>4. Names(After) = {After[1], After[2], After[3], After[4], After[5]}
  BY <1>2 DEF Names
<1>5. /\ \A i \in DOMAIN Before : i < Len(Before) => i + 1 \in DOMAIN Before
      /\ \A i \in DOMAIN Before : Before[i] \in Names(Before)
  BY <1>1, <1>3
<1>6. /\ \A i \in DOMAIN After : i < Len(After) => i + 1 \in DOMAIN After
      /\ \A i \in DOMAIN After : ~(i < Len(After)) => After[i] = "rep-attestation"
      /\ \A i \in DOMAIN After : After[i] \in Names(After)
  <2>0. DOMAIN After = {1, 2, 3, 4, 5} /\ Len(After) = 5
    BY <1>2
  <2>1. \A i \in DOMAIN After : i < Len(After) => i + 1 \in DOMAIN After
    BY <2>0
  <2>2. \A i \in DOMAIN After : ~(i < Len(After)) => i = 5
    BY <2>0
  <2>3. \A i \in DOMAIN After : After[i] \in Names(After)
    BY <1>2, <1>4
  <2> QED
    BY <1>2, <2>1, <2>2, <2>3
<1> QED
  BY <1>1, <1>2, <1>3, <1>4, <1>5, <1>6, Zenon

(* The page starts with nothing to show and nobody to hear from.           *)
LEMMA InitPanel == PanelInit => PanelInv
<1> SUFFICES ASSUME PanelInit PROVE PanelInv
  OBVIOUS
<1> USE DEF PanelInit
<1>1. IInv
  BY InitIInv
<1>2. Kept
  <2>1. First \in Skills
    BY PanelAssumption DEF First
  <2>2. calls \in 0 .. MaxCalls /\ hits \in 0 .. calls
    BY PanelAssumption
  <2>3. /\ trace \in Seq(Steps) /\ traceShown \in Seq(Steps)
        /\ text \in Seq(0 .. MaxChunks) /\ wire \in Seq(Frames)
    OBVIOUS
  <2> QED
    BY <2>1, <2>2, <2>3 DEF Kept
<1>3. Stages
  BY StageNames DEF Stages, Preparing, Reporting, Untold, Init
<1>4. Link /\ Lasts /\ Accounts /\ Results
  BY DEF Link, Lasts, Accounts, Results
<1> QED
  BY <1>1, <1>2, <1>3, <1>4 DEF PanelInv, Panel

-----------------------------------------------------------------------------
(* A frame at the end of what is under way.                                *)
LEMMA SentFacts ==
  ASSUME NEW w \in Seq(Frames), NEW f \in Frames
  PROVE  w \o <<f>> = Append(w, f) /\ w \o <<>> = w /\ Append(w, f) \in Seq(Frames)
<1>1. w \o <<f>> = Append(w, f)
  <2>1. Len(w \o <<f>>) = Len(Append(w, f))
    OBVIOUS
  <2>2. \A i \in 1 .. Len(w) + 1 : (w \o <<f>>)[i] = Append(w, f)[i]
    OBVIOUS
  <2>3. w \o <<f>> \in Seq(Frames) /\ Append(w, f) \in Seq(Frames)
    OBVIOUS
  <2>4. Len(w \o <<f>>) = Len(w) + 1
    OBVIOUS
  <2> QED
    BY <2>1, <2>2, <2>3, <2>4, SeqEqual
<1>2. w \o <<>> = w
  OBVIOUS
<1> QED
  BY <1>1, <1>2

LEMMA FrameTypes ==
  /\ Refused \in Frames /\ Refused.kind = "refused"
  /\ \A s \in Steps : LET f == [kind |-> "trace", step |-> s] IN
       f \in Frames /\ f.kind = "trace" /\ Val(f) = s
  /\ \A n \in 0 .. MaxChunks : LET f == [kind |-> "chunk", seq |-> n] IN
       f \in Frames /\ f.kind = "chunk" /\ Val(f) = n
  /\ \A f \in Frames :
       /\ f.kind \in {"refused", "trace", "chunk", "final"}
       /\ f.kind = "trace" => f.step \in Steps /\ Val(f) = f.step
       /\ f.kind = "chunk" => f.seq \in 0 .. MaxChunks /\ Val(f) = f.seq
       /\ f.kind = "final" => /\ f.ok \in BOOLEAN /\ f.skill \in Skills
                              /\ f.stream \in BOOLEAN /\ f.trace \in Seq(Steps)
<1>1. Refused \in Frames /\ Refused.kind = "refused"
  BY DEF Refused, Frames
<1>2. ASSUME NEW s \in Steps
      PROVE  LET f == [kind |-> "trace", step |-> s] IN
             f \in Frames /\ f.kind = "trace" /\ Val(f) = s
  BY DEF Frames, Val
<1>3. ASSUME NEW n \in 0 .. MaxChunks
      PROVE  LET f == [kind |-> "chunk", seq |-> n] IN
             f \in Frames /\ f.kind = "chunk" /\ Val(f) = n
  BY DEF Frames, Val
<1>4. ASSUME NEW f \in Frames
      PROVE  /\ f.kind \in {"refused", "trace", "chunk", "final"}
             /\ f.kind = "trace" => f.step \in Steps /\ Val(f) = f.step
             /\ f.kind = "chunk" => f.seq \in 0 .. MaxChunks /\ Val(f) = f.seq
             /\ f.kind = "final" => /\ f.ok \in BOOLEAN /\ f.skill \in Skills
                                    /\ f.stream \in BOOLEAN /\ f.trace \in Seq(Steps)
  BY DEF Frames, Val, Refused
<1> QED
  BY <1>1, <1>2, <1>3, <1>4


(* A handler under way that sends at most a step of the trace: the frames  *)
(* stay accounted for, and none of them is the last.                       *)
LEMMA TickStep ==
  ASSUME PanelInv, stage # "idle", NEW step \in Steps, Tick(step),
         UNCHANGED <<form, running, shown, request, conn, page>>
  PROVE  /\ trace' = Append(trace, step) /\ trace' \in Seq(Steps)
         /\ wire' \in Seq(Frames)
         /\ Lasts' /\ Accounts'
<1> DEFINE f == [kind |-> "trace", step |-> step]
<1>1. /\ trace \in Seq(Steps) /\ wire \in Seq(Frames) /\ text \in Seq(0 .. MaxChunks)
      /\ traceShown \in Seq(Steps) /\ page \in Seq(0 .. MaxChunks) /\ request \in Requests
  BY DEF PanelInv, Panel, Kept, Stages, IInv, TypeOK
<1>2. trace' = Append(trace, step) /\ trace' \in Seq(Steps)
  BY <1>1, AppendFacts DEF Tick
<1>3. f \in Frames /\ f.kind = "trace" /\ Val(f) = step
  BY FrameTypes
<1>4. wire' = wire \/ (request.stream /\ wire' = Append(wire, f))
  <2>1. /\ wire \o <<f>> = Append(wire, f) /\ wire \o <<>> = wire
    BY <1>1, <1>3, SentFacts
  <2>2. wire' = wire \/ (request.stream /\ wire' = wire \o <<f>>) \/ wire' = wire \o <<>>
    BY DEF Tick, Sent
  <2> QED
    BY <2>1, <2>2
<1>5. wire' \in Seq(Frames)
  <2>1. Append(wire, f) \in Seq(Frames)
    BY <1>1, <1>3, SentFacts
  <2> HIDE DEF f
  <2> QED
    BY <1>1, <1>4, <2>1
<1>6. running => Underway(wire)
  <2> SUFFICES ASSUME running, NEW i \in 1 .. Len(wire)
               PROVE  wire[i].kind \in {"trace", "chunk"}
    BY DEF Underway
  <2>1. wire[i] \in Frames
    BY <1>1
  <2> QED
    BY <2>1, FrameTypes DEF PanelInv, Panel, Lasts
<1>7. running => Underway(wire')
  <2>1. CASE wire' = wire
    BY <1>6, <2>1
  <2>2. CASE wire' = Append(wire, f)
    <3>1. /\ Len(wire') = Len(wire) + 1 /\ wire'[Len(wire) + 1] = f /\ Len(wire) \in Nat
          /\ \A i \in 1 .. Len(wire) : wire'[i] = wire[i]
      BY <1>1, <1>3, <2>2, AppendFacts
    <3>2. f.kind = "trace"
      BY <1>3
    <3> HIDE DEF f
    <3> SUFFICES ASSUME running, NEW i \in 1 .. Len(wire') PROVE wire'[i].kind \in {"trace", "chunk"}
      BY DEF Underway
    <3>3. i \in 1 .. Len(wire) \/ i = Len(wire) + 1
      BY <3>1
    <3> QED
      BY <1>6, <3>1, <3>2, <3>3 DEF Underway
  <2> QED
    BY <1>4, <2>1, <2>2
<1>8. Lasts'
  BY <1>7 DEF Lasts, Underway, form
<1>9. Accounts'
  <2> SUFFICES ASSUME running, request.stream
               PROVE  /\ Accounted("chunk", wire', text, page)
                      /\ Accounted("trace", wire', traceShown, trace')
    BY DEF Accounts, shown
  <2>1. conn = "open"
    BY DEF PanelInv, Panel, Link
  <2>2. wire' = Append(wire, f)
    BY <1>1, <1>3, <2>1, SentFacts DEF Tick, Sent
  <2>3. Accounted("chunk", wire, text, page) /\ Accounted("trace", wire, traceShown, trace)
    BY DEF PanelInv, Panel, Accounts
  <2>4. Accounted("chunk", Append(wire, f), text, page)
    <3>1. f.kind # "chunk"
      BY <1>3
    <3> HIDE DEF f
    <3> QED
      BY <1>1, <1>3, <2>3, <3>1, OtherSent
  <2>5. Accounted("trace", Append(wire, f), traceShown, Append(trace, Val(f)))
    <3>1. Val(f) \in Steps
      BY <1>3
    <3> HIDE DEF f
    <3> QED
      BY <1>1, <1>3, <2>3, <3>1, KindSent
  <2> QED
    BY <1>2, <1>3, <2>2, <2>4, <2>5
<1> QED
  BY <1>2, <1>5, <1>8, <1>9

-----------------------------------------------------------------------------
(* The form changes only between calls, and clears what it makes stale.    *)
LEMMA FormStep ==
  PanelInv /\ ((\E s \in Skills : Choose(s)) \/ ToggleStream \/ FireInvalid) => Panel'
<1> SUFFICES ASSUME PanelInv, (\E s \in Skills : Choose(s)) \/ ToggleStream \/ FireInvalid
             PROVE  Panel'
  OBVIOUS
<1>0. /\ ~running /\ ~running' /\ UNCHANGED <<hits, stage, trace, request, wire, conn>>
      /\ UNCHANGED <<relay, page, pageEnd, caller>>
      /\ (result' = Nil) \/ UNCHANGED <<skill, text, traceShown, result>>
  BY DEF Choose, ToggleStream, FireInvalid, FormEnabled, Button, Cleared, handler, link, talk,
         vars, server, form, shown
<1>1. Kept'
  <2>1. calls' \in {calls, calls + 1} /\ calls' <= MaxCalls /\ calls' \in 0 .. MaxCalls
    BY PanelAssumption DEF Choose, ToggleStream, FireInvalid, Button, PanelInv, Panel, Kept
  <2>2. hits' \in 0 .. calls' /\ (stage' = "route" => hits' < calls')
    BY <1>0, <2>1, PanelAssumption DEF PanelInv, Panel, Kept
  <2>3. /\ text' \in Seq(0 .. MaxChunks) /\ traceShown' \in Seq(Steps)
        /\ skill' \in Skills /\ stream' \in BOOLEAN /\ running' \in BOOLEAN /\ notice' \in BOOLEAN
    <3>1. Kept /\ <<>> \in Seq(0 .. MaxChunks) /\ <<>> \in Seq(Steps)
      BY DEF PanelInv, Panel
    <3>2. CASE \E s \in Skills : Choose(s)
      BY <3>1, <3>2 DEF Choose, Cleared, Kept
    <3>3. CASE ToggleStream
      <4>1. stream' = ~stream /\ stream \in BOOLEAN
        BY <3>1, <3>3 DEF ToggleStream, Kept
      <4>2. stream' \in BOOLEAN
        BY <4>1, Zenon
      <4> QED
        BY <3>1, <3>3, <4>2 DEF ToggleStream, shown, Kept
    <3>4. CASE FireInvalid
      BY <3>1, <3>4 DEF FireInvalid, form, Kept
    <3> QED
      BY <3>2, <3>3, <3>4
  <2> QED
    BY <1>0, <2>1, <2>2, <2>3 DEF PanelInv, Panel, Kept
<1>2. Stages'
  BY <1>0 DEF PanelInv, Panel, Stages, Preparing, Reporting, Untold, Succeeded
<1>3. Link' /\ Lasts' /\ Accounts'
  BY <1>0 DEF PanelInv, Panel, Link, Lasts, Accounts
<1>4. Results'
  BY <1>0 DEF PanelInv, Panel, Results
<1> QED
  BY <1>1, <1>2, <1>3, <1>4 DEF Panel

(* A call starts with an empty page, and a streaming one with a generator  *)
(* that has told nothing yet.                                              *)
LEMMA FireStep == PanelInv /\ Fire => Panel'
<1> SUFFICES ASSUME PanelInv, Fire PROVE Panel'
  OBVIOUS
<1>0. /\ stage = "idle" /\ stage' = "route" /\ running' /\ conn' = "open"
      /\ request' = [skill |-> skill, stream |-> stream] /\ skill' = skill /\ stream' = stream
      /\ wire' = <<>> /\ text' = <<>> /\ traceShown' = <<>> /\ trace' = <<>> /\ result' = Nil
      /\ UNCHANGED <<relay, page, pageEnd, caller, hits>> /\ calls' = calls + 1 /\ calls < MaxCalls
      /\ notice' = FALSE /\ running' = TRUE /\ (stream => relay # "closed")
  BY DEF Fire, Button, Cleared, form, talk, vars, server
<1>1. Kept'
  <2>1. calls' \in 0 .. MaxCalls /\ hits' \in 0 .. calls' /\ hits' < calls'
    BY <1>0, PanelAssumption DEF PanelInv, Panel, Kept
  <2>2. request' \in Requests
    BY <1>0 DEF Requests, PanelInv, Panel, Kept
  <2>3. /\ trace' \in Seq(Steps) /\ traceShown' \in Seq(Steps)
        /\ text' \in Seq(0 .. MaxChunks) /\ wire' \in Seq(Frames)
    BY <1>0
  <2> QED
    BY <1>0, <2>1, <2>2, <2>3 DEF PanelInv, Panel, Kept
<1>2. relay = "closed" \/ Untold
  BY <1>0 DEF PanelInv, Panel, Stages
<1>3. request' \in Requests /\ request'.stream = stream /\ request'.skill = skill
  BY <1>0 DEF Requests, PanelInv, Panel, Kept
<1>4. Stages'
  <2>1. (relay = "closed" \/ Untold)' /\ (stream => Untold')
    BY <1>0, <1>2 DEF Untold
  <2>2. stage' # "idle" /\ stage' # "dispatch" /\ stage' # "finish" /\ ~Reporting'
    BY <1>0, StageNames DEF Reporting
  <2> QED
    BY <1>0, <1>3, <2>1, <2>2 DEF Stages
<1>5. Link' /\ Lasts' /\ Results'
  BY <1>0, <1>3 DEF Link, Lasts, Results
<1>6. Accounts'
  <2>1. stream => page = <<>>
    BY <1>0, <1>2 DEF Untold
  <2>2. \A kind : Accounted(kind, <<>>, <<>>, <<>>)
    BY NothingComing
  <2> QED
    BY <1>0, <1>3, <2>1, <2>2 DEF Accounts
<1> QED
  BY <1>1, <1>4, <1>5, <1>6 DEF Panel

(* The handler moves on: the connection and the page are as before.        *)
LEMMA Moves ==
  ASSUME PanelInv, stage # "idle", UNCHANGED <<form, running, shown, calls, hits, request, conn>>,
         stage' \in {"dispatch", "finish"} \cup Names(Before) \cup Names(After),
         trace' \in Seq(Steps), wire' \in Seq(Frames), Stages', Lasts', Accounts'
  PROVE  Panel'
<1>1. stage' # "idle" /\ stage' # "route"
  BY StageNames
<1>2. Kept'
  BY <1>1 DEF PanelInv, Panel, Kept, form, shown
<1>3. Link'
  BY <1>1 DEF PanelInv, Panel, Link, form
<1>4. Results'
  BY DEF PanelInv, Panel, Results, shown
<1> QED
  BY <1>2, <1>3, <1>4 DEF Panel

(* What is under way ends with a refusal or with the answer.               *)
LEMMA LastSent ==
  ASSUME PanelInv, stage # "idle", running, NEW f \in Frames, f.kind \in {"final", "refused"}
  PROVE  /\ Append(wire, f) \in Seq(Frames)
         /\ \A i \in 1 .. Len(Append(wire, f)) :
              Append(wire, f)[i].kind \in {"final", "refused"} =>
                i = Len(Append(wire, f)) /\ Append(wire, f)[i] = f
         /\ request.stream => /\ Accounted("chunk", Append(wire, f), text, page)
                              /\ Accounted("trace", Append(wire, f), traceShown, trace)
<1> DEFINE v == Append(wire, f)
<1>1. /\ wire \in Seq(Frames) /\ text \in Seq(0 .. MaxChunks) /\ traceShown \in Seq(Steps)
  BY DEF PanelInv, Panel, Kept
<1>2. /\ v \in Seq(Frames) /\ Len(v) = Len(wire) + 1 /\ v[Len(wire) + 1] = f /\ Len(wire) \in Nat
      /\ \A i \in 1 .. Len(wire) : v[i] = wire[i]
  BY <1>1, AppendFacts
<1>3. \A i \in 1 .. Len(wire) : wire[i].kind \notin {"final", "refused"}
  BY DEF PanelInv, Panel, Lasts
<1>4. ASSUME request.stream
      PROVE  Accounted("chunk", v, text, page) /\ Accounted("trace", v, traceShown, trace)
  <2>1. Accounted("chunk", wire, text, page) /\ Accounted("trace", wire, traceShown, trace)
    BY <1>4 DEF PanelInv, Panel, Accounts
  <2>2. f.kind # "chunk" /\ f.kind # "trace"
    OBVIOUS
  <2>3. Accounted("chunk", v, text, page)
    BY <1>1, <2>1, <2>2, OtherSent
  <2>4. Accounted("trace", v, traceShown, trace)
    BY <1>1, <2>1, <2>2, OtherSent
  <2> QED
    BY <2>3, <2>4
<1> HIDE DEF v
<1>5. ASSUME NEW i \in 1 .. Len(v), v[i].kind \in {"final", "refused"}
      PROVE  i = Len(v) /\ v[i] = f
  <2>1. i \in 1 .. Len(wire) \/ i = Len(wire) + 1
    BY <1>2
  <2> QED
    BY <1>2, <1>3, <1>5, <2>1
<1> QED
  BY <1>2, <1>4, <1>5 DEF v

(* The last step of a trace that a tick has grown.                         *)
LEMMA SucceededNow ==
  ASSUME NEW step \in Steps, trace \in Seq(Steps), trace' = Append(trace, step)
  PROVE  Succeeded' <=> step = "rep-attestation"
<1>1. trace'[Len(trace')] = step
  BY AppendFacts
<1> QED
  BY <1>1, StageNames DEF Succeeded

LEMMA PrepareStep == PanelInv /\ Prepare => Panel'
<1> SUFFICES ASSUME PanelInv, Prepare PROVE Panel'
  OBVIOUS
<1>1. PICK i \in DOMAIN Before :
        /\ stage = Before[i] /\ Tick(Before[i])
        /\ stage' = IF i < Len(Before) THEN Before[i + 1] ELSE "dispatch"
        /\ UNCHANGED <<form, running, shown, calls, hits, request, conn, talk>>
  BY DEF Prepare
<1>2. stage \in Names(Before) /\ stage # "idle" /\ Before[i] \in Steps
  BY <1>1, StageNames DEF Steps
<1>3. stage' \in {"dispatch"} \cup Names(Before)
  BY <1>1, StageNames
<1>4. UNCHANGED <<relay, page, pageEnd, caller>>
  BY <1>1 DEF talk, vars, server
<1>5. trace' \in Seq(Steps) /\ wire' \in Seq(Frames) /\ Lasts' /\ Accounts'
  BY <1>1, <1>2, <1>4, TickStep
<1>6. Stages'
  <2>1. /\ request \in Requests /\ (relay = "closed" \/ Untold) /\ (request.stream => Untold)
    BY <1>2 DEF PanelInv, Panel, Stages, Preparing
  <2>2. stage' # "finish" /\ stage' # "idle" /\ ~Reporting'
    BY <1>3, StageNames DEF Reporting
  <2>3. Untold' = Untold /\ (Untold => relay # "closed")
    BY <1>4 DEF Untold
  <2> QED
    BY <1>1, <1>4, <2>1, <2>2, <2>3 DEF Stages
<1> QED
  BY <1>1, <1>2, <1>3, <1>5, <1>6, Moves

LEMMA PrepareFailsStep == PanelInv /\ PrepareFails => Panel'
<1> SUFFICES ASSUME PanelInv, PrepareFails PROVE Panel'
  OBVIOUS
<1>1. /\ stage \in Names(Before) /\ stage' = "finish"
      /\ \E step \in {stage, "error"} : Tick(step)
      /\ UNCHANGED <<form, running, shown, calls, hits, request, conn, talk>>
  BY DEF PrepareFails, Names
<1>2. PICK step \in {stage, "error"} : Tick(step)
  BY <1>1
<1>3. stage # "idle" /\ step \in Steps /\ step # "rep-attestation"
  BY <1>1, StageNames DEF Steps
<1>4. UNCHANGED <<relay, page, pageEnd, caller>>
  BY <1>1 DEF talk, vars, server
<1>5. trace' = Append(trace, step) /\ trace' \in Seq(Steps) /\ wire' \in Seq(Frames) /\ Lasts' /\ Accounts'
  BY <1>1, <1>2, <1>3, <1>4, TickStep
<1>6. Stages'
  <2>1. /\ request \in Requests /\ (relay = "closed" \/ Untold) /\ (request.stream => Untold)
    BY <1>1, <1>3 DEF PanelInv, Panel, Stages, Preparing
  <2>2. Untold' = Untold
    BY <1>4 DEF Untold
  <2>3. ~Succeeded'
    <3>1. trace \in Seq(Steps)
      BY DEF PanelInv, Panel, Kept
    <3> QED
      BY <1>3, <1>5, <3>1, SucceededNow
  <2>4. ~Preparing' /\ ~Reporting'
    BY <1>1, StageNames DEF Preparing, Reporting
  <2> QED
    BY <1>1, <1>4, <2>1, <2>2, <2>3, <2>4 DEF Stages
<1> QED
  BY <1>1, <1>3, <1>5, <1>6, Moves

LEMMA DispatchStep == PanelInv /\ Dispatch => Panel'
<1> SUFFICES ASSUME PanelInv, Dispatch PROVE Panel'
  OBVIOUS
<1>1. /\ stage = "dispatch" /\ ~request.stream /\ stage' \in {"finish"} \cup Names(After)
      /\ trace' = trace \/ trace' = Append(trace, "error")
      /\ UNCHANGED <<form, running, shown, calls, hits, request, wire, conn, talk>>
  <2>1. After[1] \in Names(After)
    BY StageNames
  <2> QED
    BY <2>1 DEF Dispatch, link
<1>2. UNCHANGED <<relay, page, pageEnd, caller>>
  BY <1>1 DEF talk, vars, server
<1>3. trace' \in Seq(Steps) /\ wire' \in Seq(Frames)
  <2>1. trace \in Seq(Steps) /\ wire \in Seq(Frames) /\ "error" \in Steps
    BY DEF PanelInv, Panel, Kept, Steps
  <2> QED
    BY <1>1, <2>1, AppendFacts
<1>4. Stages'
  BY <1>1, <1>2, StageNames DEF PanelInv, Panel, Stages, Untold
<1>5. Lasts'
  <2>1. running => \A i \in 1 .. Len(wire) : wire[i].kind \notin {"final", "refused"}
    BY <1>1 DEF PanelInv, Panel, Lasts
  <2> QED
    BY <1>1, <2>1 DEF Lasts
<1>6. Accounts'
  BY <1>1 DEF Accounts
<1> QED
  BY <1>1, <1>3, <1>4, <1>5, <1>6, Moves

LEMMA ResumeStep == PanelInv /\ Resume => Panel'
<1> SUFFICES ASSUME PanelInv, Resume PROVE Panel'
  OBVIOUS
<1>1. /\ stage = "dispatch" /\ request.stream /\ relay = "final" /\ request \in Requests
      /\ UNCHANGED <<form, running, shown, calls, hits, request, conn, talk>>
  BY DEF Resume, PanelInv, Panel, Stages
<1>2. UNCHANGED <<relay, page, pageEnd, caller>>
  BY <1>1 DEF talk, vars, server
<1>3. CASE caller = "ok" /\ stage' = After[1] /\ UNCHANGED <<trace, wire>>
  <2>1. stage' \in Names(After) /\ stage' # "idle" /\ stage' # "dispatch" /\ stage' # "finish" /\ ~Preparing'
    BY <1>3, StageNames DEF Preparing
  <2>2. trace' \in Seq(Steps) /\ wire' \in Seq(Frames)
    BY <1>3 DEF PanelInv, Panel, Kept
  <2>3. Stages'
    BY <1>1, <1>2, <1>3, <2>1 DEF Stages
  <2>4. Lasts'
    <3>1. running => \A i \in 1 .. Len(wire) : wire[i].kind \notin {"final", "refused"}
      BY <1>1 DEF PanelInv, Panel, Lasts
    <3> QED
      BY <1>1, <1>3, <3>1 DEF Lasts
  <2>5. Accounts'
    BY <1>1, <1>2, <1>3 DEF PanelInv, Panel, Accounts, shown
  <2> QED
    BY <1>1, <2>1, <2>2, <2>3, <2>4, <2>5, Moves
<1>4. CASE caller = "error" /\ Tick("error") /\ stage' = "finish"
  <2>1. "error" \in Steps /\ "error" # "rep-attestation" /\ trace \in Seq(Steps)
    BY DEF Steps, PanelInv, Panel, Kept
  <2>2. trace' = Append(trace, "error") /\ trace' \in Seq(Steps) /\ wire' \in Seq(Frames) /\ Lasts' /\ Accounts'
    BY <1>1, <1>2, <1>4, <2>1, TickStep
  <2>3. ~Succeeded'
    BY <2>1, <2>2, SucceededNow
  <2>4. ~Preparing' /\ ~Reporting'
    BY <1>4, StageNames DEF Preparing, Reporting
  <2>5. Stages'
    BY <1>1, <1>2, <1>4, <2>3, <2>4 DEF Stages
  <2> QED
    BY <1>1, <1>4, <2>2, <2>5, Moves
<1> QED
  BY <1>3, <1>4 DEF Resume

LEMMA ReportStep == PanelInv /\ Report => Panel'
<1> SUFFICES ASSUME PanelInv, Report PROVE Panel'
  OBVIOUS
<1>1. PICK i \in DOMAIN After :
        /\ stage = After[i]
        /\ Tick(After[i]) \/ (stage = "tee-attest" /\ UNCHANGED <<trace, wire>>)
        /\ stage' = IF i < Len(After) THEN After[i + 1] ELSE "finish"
        /\ UNCHANGED <<form, running, shown, calls, hits, request, conn, talk>>
  BY DEF Report
<1>2. stage \in Names(After) /\ stage # "idle" /\ After[i] \in Steps
  BY <1>1, StageNames DEF Steps
<1>3. stage' \in Names(After) \/ (stage' = "finish" /\ After[i] = "rep-attestation")
  BY <1>1, StageNames
<1>4. UNCHANGED <<relay, page, pageEnd, caller>>
  BY <1>1 DEF talk, vars, server
<1>5. /\ trace' = Append(trace, After[i]) \/ After[i] # "rep-attestation"
      /\ trace' \in Seq(Steps) /\ wire' \in Seq(Frames) /\ Lasts' /\ Accounts'
  <2>1. CASE Tick(After[i])
    BY <1>1, <1>2, <1>4, <2>1, TickStep
  <2>2. CASE stage = "tee-attest" /\ UNCHANGED <<trace, wire>>
    <3>1. trace' \in Seq(Steps) /\ wire' \in Seq(Frames)
      BY <2>2 DEF PanelInv, Panel, Kept
    <3>2. running => \A k \in 1 .. Len(wire) : wire[k].kind \notin {"final", "refused"}
      BY <1>2 DEF PanelInv, Panel, Lasts
    <3>3. Lasts'
      BY <1>1, <2>2, <3>2 DEF Lasts
    <3>4. Accounts'
      BY <1>1, <1>4, <2>2 DEF PanelInv, Panel, Accounts, shown
    <3> QED
      BY <1>1, <2>2, <3>1, <3>3, <3>4
  <2> QED
    BY <1>1, <2>1, <2>2
<1>6. Stages'
  <2>1. /\ request \in Requests /\ (~request.stream => relay = "closed" \/ Untold)
        /\ request.stream => relay = "final" /\ caller = "ok"
    BY <1>2 DEF PanelInv, Panel, Stages, Reporting
  <2>2. ~Preparing' /\ stage' # "idle" /\ stage' # "dispatch"
    BY <1>3, StageNames DEF Preparing
  <2>3. Untold' = Untold
    BY <1>4 DEF Untold
  <2>4. stage' = "finish" => Succeeded'
    <3>1. trace \in Seq(Steps)
      BY DEF PanelInv, Panel, Kept
    <3>2. stage' = "finish" => After[i] = "rep-attestation"
      BY <1>3, StageNames
    <3> QED
      BY <1>2, <1>5, <3>1, <3>2, SucceededNow
  <2>5. request'.stream = request.stream /\ request' \in Requests /\ relay' = relay /\ caller' = caller
    BY <1>1, <1>4, <2>1
  <2> QED
    BY <2>1, <2>2, <2>3, <2>4, <2>5 DEF Stages
<1>7. stage' \in {"dispatch", "finish"} \cup Names(Before) \cup Names(After)
  BY <1>3
<1> QED
  BY <1>1, <1>2, <1>5, <1>6, <1>7, Moves

LEMMA GateStep == PanelInv /\ Gate => Panel'
<1> SUFFICES ASSUME PanelInv, Gate PROVE Panel'
  OBVIOUS
<1>1. /\ stage = "route" /\ request \in Requests /\ trace' = trace
      /\ conn \in {"open", "cut"} /\ result = Nil
      /\ UNCHANGED <<form, running, shown, calls, request, talk>>
  BY DEF Gate, Refuse, PanelInv, Panel, Stages, Link, Results
<1>2. UNCHANGED <<relay, page, pageEnd, caller, skill, stream, text, traceShown, result, notice>>
  BY <1>1 DEF talk, vars, server, form, shown
<1>3. hits' \in 0 .. calls'
  <2>1. hits' \in {1, hits + 1} /\ hits < calls /\ hits \in Nat /\ calls \in Nat
    BY <1>1, PanelAssumption DEF Gate, RateLimit, PanelInv, Panel, Kept
  <2> QED
    BY <1>1, <2>1
<1>4. (relay = "closed" \/ Untold) /\ (request.stream => Untold) /\ Untold' = Untold
  BY <1>1, <1>2 DEF PanelInv, Panel, Stages, Preparing, Untold
<1>5. CASE Refuse
  <2>1. stage' = "idle" /\ wire' = Append(wire, Refused) /\ conn' = "ended"
    BY <1>5 DEF Refuse
  <2>2. wire' \in Seq(Frames)
    BY <2>1, FrameTypes, AppendFacts DEF PanelInv, Panel, Kept
  <2>3. Kept'
    BY <1>1, <1>2, <1>3, <2>1, <2>2 DEF PanelInv, Panel, Kept
  <2>4. Stages'
    BY <1>2, <1>4, <2>1 DEF Stages
  <2>5. Link' /\ Results'
    BY <1>1, <1>2, <2>1 DEF PanelInv, Panel, Link, Results
  <2>6. Lasts' /\ Accounts'
    <3>1. stage # "idle" /\ Refused \in Frames /\ Refused.kind = "refused"
      BY <1>1, FrameTypes
    <3>2. running =>
            /\ \A i \in 1 .. Len(wire') : wire'[i].kind \in {"final", "refused"} =>
                 i = Len(wire') /\ wire'[i] = Refused
            /\ request.stream => /\ Accounted("chunk", wire', text, page)
                                 /\ Accounted("trace", wire', traceShown, trace)
      BY <2>1, <3>1, LastSent
    <3> QED
      BY <1>1, <1>2, <2>1, <3>1, <3>2 DEF Lasts, Accounts
  <2> QED
    BY <2>3, <2>4, <2>5, <2>6 DEF Panel
<1>6. CASE stage' = Before[1] /\ UNCHANGED link
  <2>1. stage' \in Names(Before) /\ stage' = "resolve-ens" /\ wire' = wire /\ conn' = conn
    BY <1>6, StageNames DEF link
  <2>2. Kept'
    BY <1>1, <1>2, <1>3, <2>1 DEF PanelInv, Panel, Kept
  <2>3. Stages'
    <3>1. ~Reporting'
      BY <2>1, StageNames DEF Reporting
    <3> QED
      BY <1>1, <1>2, <1>4, <2>1, <3>1 DEF Stages
  <2>4. Link' /\ Results'
    BY <1>1, <1>2, <2>1 DEF PanelInv, Panel, Link, Results
  <2>5. Lasts' /\ Accounts'
    BY <1>1, <1>2, <2>1 DEF PanelInv, Panel, Lasts, Accounts
  <2> QED
    BY <2>2, <2>3, <2>4, <2>5 DEF Panel
<1> QED
  BY <1>5, <1>6 DEF Gate

(* The answer ends the call, and claims success only of a stream that      *)
(* ended so.                                                               *)
LEMMA FinishesStep == PanelInv /\ Finishes => Panel'
<1> SUFFICES ASSUME PanelInv, Finishes PROVE Panel'
  OBVIOUS
<1> DEFINE f == Answer(Succeeded)
<1>1. /\ stage = "finish" /\ stage' = "idle" /\ request \in Requests /\ trace' = trace
      /\ conn \in {"open", "cut"} /\ result = Nil
      /\ conn' = IF conn = "open" THEN "ended" ELSE conn
      /\ UNCHANGED <<form, running, shown, calls, hits, request>>
  BY DEF Finishes, PanelInv, Panel, Stages, Link, Results
<1>2. UNCHANGED <<skill, stream, text, traceShown, result, notice>>
  BY <1>1 DEF form, shown
<1>3. /\ f \in Frames /\ f.kind = "final" /\ f.ok = Succeeded /\ f.skill = request.skill
      /\ f.stream = request.stream /\ f.trace = trace
  <2>1. trace \in Seq(Steps) /\ Succeeded \in BOOLEAN
    BY DEF PanelInv, Panel, Kept, Succeeded
  <2>2. request.skill \in Skills /\ request.stream \in BOOLEAN
    BY <1>1 DEF Requests
  <2> QED
    BY <2>1, <2>2 DEF Answer, Frames
<1> HIDE DEF f
<1>4. wire \in Seq(Frames) /\ wire' = IF conn = "open" THEN Append(wire, f) ELSE wire
  <2>1. wire \in Seq(Frames)
    BY DEF PanelInv, Panel, Kept
  <2>2. wire \o <<f>> = Append(wire, f)
    BY <1>3, <2>1, SentFacts
  <2> QED
    BY <2>1, <2>2 DEF Finishes, Sent, f
<1>5. /\ page' = page
      /\ ~request.stream => relay' = relay /\ pageEnd' = pageEnd
      /\ request.stream => (Succeeded <=> pageEnd' = "ok")
      /\ relay' = "closed" \/ Untold'
  <2>1. CASE relay = "final" /\ request.stream
    <3>1. Finish
      BY <2>1 DEF Finishes
    <3>2. Succeeded <=> caller = "ok"
      BY <1>1, <2>1 DEF PanelInv, Panel, Stages, Untold
    <3> QED
      BY <2>1, <3>1, <3>2 DEF Finish
  <2>2. CASE ~(relay = "final" /\ request.stream)
    <3>1. UNCHANGED <<relay, page, pageEnd>>
      BY <2>2 DEF Finishes, talk, vars, server
    <3>2. CASE request.stream
      <4>1. Untold /\ ~Succeeded
        BY <1>1, <2>2, <3>2 DEF PanelInv, Panel, Stages
      <4>2. pageEnd # "ok"
        BY <4>1 DEF PanelInv, IInv, Closing, Untold
      <4> QED
        BY <3>1, <3>2, <4>1, <4>2 DEF Untold
    <3>3. CASE ~request.stream
      BY <3>1, <3>3 DEF PanelInv, Panel, Stages, Untold
    <3> QED
      BY <3>2, <3>3
  <2> QED
    BY <2>1, <2>2
<1>6. Kept'
  <2>1. wire' \in Seq(Frames)
    BY <1>3, <1>4, AppendFacts
  <2> QED
    BY <1>1, <1>2, <2>1 DEF PanelInv, Panel, Kept
<1>7. Stages'
  BY <1>1, <1>5 DEF Stages
<1>8. Link' /\ Results'
  BY <1>1, <1>2 DEF PanelInv, Panel, Link, Results
<1>9. running => conn = "open" /\ skill = request.skill
  BY <1>1 DEF PanelInv, Panel, Link
<1>10. running =>
         /\ \A i \in 1 .. Len(wire') : wire'[i].kind \in {"final", "refused"} =>
              i = Len(wire') /\ wire'[i] = f
         /\ request.stream => /\ Accounted("chunk", wire', text, page)
                              /\ Accounted("trace", wire', traceShown, trace)
  BY <1>1, <1>3, <1>4, <1>9, LastSent
<1>11. Lasts'
  <2> SUFFICES ASSUME running, NEW i \in 1 .. Len(wire'), wire'[i].kind \in {"final", "refused"}
               PROVE  i = Len(wire') /\ FinalOf(wire[i])'
    BY <1>1 DEF Lasts
  <2>1. i = Len(wire') /\ wire'[i] = f
    BY <1>10
  <2> QED
    BY <1>1, <1>2, <1>3, <1>5, <1>9, <2>1 DEF FinalOf
<1>12. Accounts'
  BY <1>1, <1>2, <1>5, <1>10 DEF Accounts
<1> QED
  BY <1>6, <1>7, <1>8, <1>11, <1>12 DEF Panel

(* The browser has gone: the handler is left wherever it is.               *)
LEMMA AbandonStep == PanelInv /\ Abandon => Panel'
<1> SUFFICES ASSUME PanelInv, Abandon PROVE Panel'
  OBVIOUS
<1>1. /\ stage # "idle" /\ stage # "route" /\ stage' = "idle" /\ conn = "cut" /\ request.stream
      /\ UNCHANGED <<form, running, shown, calls, hits, trace, request, wire, conn>>
  BY DEF Abandon, Broken, link
<1>2. UNCHANGED <<skill, stream, text, traceShown, result, notice>> /\ ~running /\ result = Nil
  BY <1>1 DEF form, shown, PanelInv, Panel, Link, Results
<1>3. relay' = "closed" \/ Untold'
  <2>1. CASE stage = "dispatch" \/ relay = "final"
    BY <2>1 DEF Abandon, Disconnect
  <2>2. CASE ~(stage = "dispatch" \/ relay = "final")
    <3>1. UNCHANGED <<relay, page>>
      BY <2>2 DEF Abandon, talk, vars, server
    <3>2. Untold
      BY <1>1, <2>2 DEF PanelInv, Panel, Kept, Stages, Preparing, Reporting
    <3> QED
      BY <3>1, <3>2 DEF Untold
  <2> QED
    BY <2>1, <2>2
<1>4. Kept'
  BY <1>1, <1>2 DEF PanelInv, Panel, Kept
<1>5. Stages' /\ Link' /\ Lasts' /\ Accounts' /\ Results'
  BY <1>1, <1>2, <1>3 DEF Stages, Link, Lasts, Accounts, Results
<1> QED
  BY <1>4, <1>5 DEF Panel

(* The stream behind the response, when it yields nothing.                 *)
Stream == EmitChunk \/ (\E kind \in {"ok", "error"} : Reply(kind)) \/ Receive \/ Timeout
            \/ Settle \/ Sleep \/ Leave \/ Pull \/ Faulty

LEMMA TalkStep == PanelInv /\ Talk(Stream) => Panel'
<1> SUFFICES ASSUME PanelInv, Talk(Stream) PROVE Panel'
  OBVIOUS
<1>1. /\ stage = "dispatch" /\ request.stream /\ request \in Requests /\ relay # "closed"
      /\ UNCHANGED <<form, running, shown, calls, handler, request, link>>
  BY DEF Talk, Dispatched, PanelInv, Panel, Stages
<1>2. UNCHANGED <<skill, stream, text, traceShown, result, notice, hits, stage, trace, wire, conn>>
  BY <1>1 DEF form, shown, handler, link
<1>3. UNCHANGED <<page, pageEnd>> /\ relay' # "closed"
  <2>1. CASE Receive
    BY <1>1, <2>1 DEF Receive, AcceptChunk, RefuseChunk, AcceptAnswer, Ignore, Wake, server
  <2>2. CASE Faulty
    BY <1>1, <2>2 DEF Faulty, EmitFails, ReplyFails, Lose, Overtake, Repeat, Delay, Stray,
                      ReceiveFails, Throw, server
  <2>3. CASE EmitChunk \/ (\E kind \in {"ok", "error"} : Reply(kind)) \/ Timeout
               \/ Settle \/ Sleep \/ Leave \/ Pull
    BY <1>1, <2>3 DEF EmitChunk, Reply, Timeout, Throw, Settle, Wake, Sleep, Leave, Pull, server
  <2> QED
    BY <2>1, <2>2, <2>3 DEF Talk, Stream
<1>4. Kept'
  BY <1>1, <1>2 DEF PanelInv, Panel, Kept
<1>5. Stages'
  <2>1. ~Preparing' /\ ~Reporting'
    BY <1>1, <1>2, StageNames DEF Preparing, Reporting
  <2> QED
    BY <1>1, <1>2, <1>3, <2>1 DEF Stages
<1>6. Link' /\ Results'
  BY <1>1, <1>2 DEF PanelInv, Panel, Link, Results
<1>7. Lasts' /\ Accounts'
  BY <1>1, <1>2, <1>3 DEF PanelInv, Panel, Lasts, Accounts
<1> QED
  BY <1>4, <1>5, <1>6, <1>7 DEF Panel

(* A chunk goes to the page as one frame.                                  *)
LEMMA YieldStep == PanelInv /\ YieldChunk => Panel'
<1> SUFFICES ASSUME PanelInv, YieldChunk PROVE Panel'
  OBVIOUS
<1> DEFINE n == Head(buffer)
<1> DEFINE f == [kind |-> "chunk", seq |-> n]
<1>1. /\ stage = "dispatch" /\ request.stream /\ request \in Requests /\ result = Nil
      /\ relay' = "yielded" /\ page' = Append(page, n) /\ buffer # <<>>
      /\ UNCHANGED <<form, running, shown, calls, handler, request, conn>>
  BY DEF YieldChunk, Yield, Dispatched, PanelInv, Panel, Stages, Results
<1>2. UNCHANGED <<skill, stream, text, traceShown, result, notice, hits, stage, trace>>
  BY <1>1 DEF form, shown, handler
<1>3. n \in 0 .. MaxChunks
  <2>1. buffer \in Seq(0 .. MaxChunks)
    BY DEF PanelInv, IInv, TypeOK
  <2> QED
    BY <1>1, <2>1, TailFacts
<1>4. f \in Frames /\ f.kind = "chunk" /\ Val(f) = n
  BY <1>3, FrameTypes
<1> HIDE DEF n
<1>5. /\ wire \in Seq(Frames) /\ text \in Seq(0 .. MaxChunks) /\ traceShown \in Seq(Steps)
      /\ page \in Seq(0 .. MaxChunks) /\ trace \in Seq(Steps)
  BY DEF PanelInv, Panel, Kept, IInv, TypeOK
<1>6. wire' = IF conn = "open" THEN Append(wire, f) ELSE wire
  <2>1. wire \o <<f>> = Append(wire, f)
    BY <1>4, <1>5, SentFacts
  <2> QED
    BY <2>1 DEF YieldChunk, Sent, n
<1>7. running => conn = "open"
  BY <1>1 DEF PanelInv, Panel, Link
<1> HIDE DEF f
<1>8. Kept'
  <2>1. wire' \in Seq(Frames)
    BY <1>4, <1>5, <1>6, AppendFacts
  <2> QED
    BY <1>1, <1>2, <2>1 DEF PanelInv, Panel, Kept
<1>9. Stages'
  <2>1. ~Preparing' /\ ~Reporting'
    BY <1>1, <1>2, StageNames DEF Preparing, Reporting
  <2> QED
    BY <1>1, <1>2, <2>1 DEF Stages
<1>10. Link' /\ Results'
  BY <1>1, <1>2 DEF PanelInv, Panel, Link, Results
<1>11. Lasts'
  <2> SUFFICES ASSUME running, NEW i \in 1 .. Len(wire')
               PROVE  wire'[i].kind \notin {"final", "refused"}
    BY <1>1, <1>2 DEF Lasts
  <2>1. /\ Len(wire') = Len(wire) + 1 /\ wire'[Len(wire) + 1] = f /\ Len(wire) \in Nat
        /\ \A j \in 1 .. Len(wire) : wire'[j] = wire[j]
    BY <1>4, <1>5, <1>6, <1>7, AppendFacts
  <2>2. i \in 1 .. Len(wire) \/ i = Len(wire) + 1
    BY <2>1
  <2> QED
    BY <1>1, <1>4, <2>1, <2>2 DEF PanelInv, Panel, Lasts
<1>12. Accounts'
  <2> SUFFICES ASSUME running
               PROVE  /\ Accounted("chunk", wire', text, page')
                      /\ Accounted("trace", wire', traceShown, trace)
    BY <1>1, <1>2 DEF Accounts
  <2>1. wire' = Append(wire, f)
    BY <1>6, <1>7
  <2>2. Accounted("chunk", wire, text, page) /\ Accounted("trace", wire, traceShown, trace)
    BY <1>1 DEF PanelInv, Panel, Accounts
  <2>3. Accounted("chunk", Append(wire, f), text, Append(page, Val(f)))
    <3>1. Val(f) \in 0 .. MaxChunks
      BY <1>3, <1>4
    <3> QED
      BY <1>4, <1>5, <2>2, <3>1, KindSent
  <2>4. Accounted("trace", Append(wire, f), traceShown, trace)
    <3>1. f.kind # "trace"
      BY <1>4
    <3> QED
      BY <1>4, <1>5, <2>2, <3>1, OtherSent
  <2> QED
    BY <1>1, <1>4, <2>1, <2>3, <2>4
<1> QED
  BY <1>8, <1>9, <1>10, <1>11, <1>12 DEF Panel

(* A sequence accounted for with nothing under way has been seen whole.    *)
LEMMA SeenWhole ==
  ASSUME NEW kind, NEW V, NEW seen \in Seq(V), NEW told \in Seq(V),
         Accounted(kind, <<>>, seen, told)
  PROVE  seen = told
<1>1. Count(kind, <<>>, Len(<<>>)) = 0
  <2>1. Len(<<>>) = 0
    OBVIOUS
  <2> QED
    BY <2>1, CountZero
<1>2. Len(seen) = Len(told) /\ Len(seen) \in Nat /\ \A i \in 1 .. Len(seen) : seen[i] = told[i]
  BY <1>1 DEF Accounted
<1> QED
  BY <1>2, SeqEqual

(* The reader shows a frame for what it is.                                *)
LEMMA ReadStep == PanelInv /\ Read => Panel'
<1> SUFFICES ASSUME PanelInv, Read PROVE Panel'
  OBVIOUS
<1> DEFINE f == Head(wire)
<1>1. /\ running /\ wire # <<>> /\ wire' = Tail(wire) /\ request \in Requests
      /\ UNCHANGED <<form, running, calls, handler, request, conn, talk>> /\ result = Nil
  BY DEF Read, PanelInv, Panel, Link, Results
<1>2. UNCHANGED <<skill, stream, hits, stage, trace, relay, caller, page, pageEnd>>
  BY <1>1 DEF form, handler, talk, vars, server
<1>3. /\ wire \in Seq(Frames) /\ text \in Seq(0 .. MaxChunks) /\ traceShown \in Seq(Steps)
      /\ page \in Seq(0 .. MaxChunks) /\ trace \in Seq(Steps)
  BY DEF PanelInv, Panel, Kept, IInv, TypeOK
<1>4. /\ f = wire[1] /\ f \in Frames /\ wire' \in Seq(Frames)
      /\ Len(wire) \in Nat /\ Len(wire) >= 1 /\ Len(wire') = Len(wire) - 1
      /\ \A i \in 1 .. Len(wire) - 1 : wire'[i] = wire[i + 1]
  BY <1>1, <1>3, TailFacts
<1> HIDE DEF f
<1>5. /\ f.kind \in {"refused", "trace", "chunk", "final"}
      /\ f.kind = "trace" => f.step \in Steps /\ Val(f) = f.step
      /\ f.kind = "chunk" => f.seq \in 0 .. MaxChunks /\ Val(f) = f.seq
      /\ f.kind = "final" => /\ f.ok \in BOOLEAN /\ f.stream \in BOOLEAN /\ f.trace \in Seq(Steps)
  BY <1>4, FrameTypes
<1>6. /\ f.kind = "trace" => /\ traceShown' = Append(traceShown, f.step)
                             /\ UNCHANGED <<text, result, notice>>
      /\ f.kind = "chunk" => /\ text' = Append(text, f.seq)
                             /\ UNCHANGED <<traceShown, result, notice>>
      /\ f.kind = "final" => /\ result' = f /\ notice' = ~f.ok
                             /\ UNCHANGED <<text, traceShown>>
      /\ f.kind = "refused" => /\ notice' = TRUE
                               /\ UNCHANGED <<text, traceShown, result>>
  <2>1. CASE ShowTrace
    BY <2>1 DEF ShowTrace, Frame, f
  <2>2. CASE ShowChunk
    BY <2>2 DEF ShowChunk, Frame, f
  <2>3. CASE ShowFinal
    BY <2>3 DEF ShowFinal, Frame, f
  <2>4. CASE ShowRefusal
    BY <2>4 DEF ShowRefusal, Frame, f
  <2> QED
    BY <2>1, <2>2, <2>3, <2>4 DEF Read
<1>7. Kept'
  <2>1. text' \in Seq(0 .. MaxChunks) /\ traceShown' \in Seq(Steps)
    <3>1. f.kind = "trace" => Append(traceShown, f.step) \in Seq(Steps)
      BY <1>3, <1>5, AppendFacts
    <3>2. f.kind = "chunk" => Append(text, f.seq) \in Seq(0 .. MaxChunks)
      BY <1>3, <1>5, AppendFacts
    <3> QED
      BY <1>3, <1>5, <1>6, <3>1, <3>2
  <2>2. notice' \in BOOLEAN
    <3>1. CASE f.kind = "final"
      <4>1. notice' = ~f.ok
        BY <1>6, <3>1
      <4> QED
        BY <4>1, Zenon
    <3>2. CASE f.kind # "final"
      BY <1>5, <1>6, <3>2 DEF PanelInv, Panel, Kept
    <3> QED
      BY <3>1, <3>2
  <2> QED
    BY <1>1, <1>2, <1>4, <2>1, <2>2 DEF PanelInv, Panel, Kept
<1>8. Stages'
  <2>1. Preparing' = Preparing /\ Reporting' = Reporting /\ Untold' = Untold /\ Succeeded' = Succeeded
    BY <1>2 DEF Preparing, Reporting, Untold, Succeeded
  <2> QED
    BY <1>1, <1>2, <2>1 DEF PanelInv, Panel, Stages
<1>9. Link'
  BY <1>1, <1>2 DEF PanelInv, Panel, Link
<1>10. Lasts'
  <2> SUFFICES ASSUME NEW i \in 1 .. Len(wire'), wire'[i].kind \in {"final", "refused"}
               PROVE  /\ i = Len(wire') /\ stage = "idle"
                      /\ wire'[i].kind = "final" => FinalOf(wire[i])'
    BY <1>2 DEF Lasts
  <2>1. i + 1 \in 1 .. Len(wire) /\ wire'[i] = wire[i + 1]
    BY <1>4
  <2>2. /\ i + 1 = Len(wire) /\ stage = "idle"
        /\ wire[i + 1].kind = "final" => FinalOf(wire[i + 1])
    BY <1>1, <2>1 DEF PanelInv, Panel, Lasts
  <2>3. i = Len(wire')
    BY <1>4, <2>2
  <2> QED
    BY <1>1, <1>2, <2>1, <2>2, <2>3 DEF FinalOf
<1>11. ASSUME request.stream
       PROVE  Accounted("chunk", wire', text', page) /\ Accounted("trace", wire', traceShown', trace)
  <2>1. Accounted("chunk", wire, text, page) /\ Accounted("trace", wire, traceShown, trace)
    BY <1>1, <1>11 DEF PanelInv, Panel, Accounts
  <2>2. Accounted("chunk", wire', text', page)
    <3>1. CASE f.kind = "chunk"
      <4>1. Head(wire).kind = "chunk" /\ Val(Head(wire)) \in 0 .. MaxChunks /\ Val(Head(wire)) = f.seq
        BY <1>5, <3>1 DEF f
      <4>2. Accounted("chunk", Tail(wire), Append(text, Val(Head(wire))), page)
        BY <1>1, <1>3, <2>1, <4>1, KindRead
      <4> QED
        BY <1>1, <1>6, <3>1, <4>1, <4>2
    <3>2. CASE f.kind # "chunk"
      <4>1. Head(wire).kind # "chunk"
        BY <3>2 DEF f
      <4>2. Accounted("chunk", Tail(wire), text, page)
        BY <1>1, <1>3, <2>1, <4>1, OtherRead
      <4> QED
        BY <1>1, <1>5, <1>6, <3>2, <4>2
    <3> QED
      BY <3>1, <3>2
  <2>3. Accounted("trace", wire', traceShown', trace)
    <3>1. CASE f.kind = "trace"
      <4>1. Head(wire).kind = "trace" /\ Val(Head(wire)) \in Steps /\ Val(Head(wire)) = f.step
        BY <1>5, <3>1 DEF f
      <4>2. Accounted("trace", Tail(wire), Append(traceShown, Val(Head(wire))), trace)
        BY <1>1, <1>3, <2>1, <4>1, KindRead
      <4> QED
        BY <1>1, <1>6, <3>1, <4>1, <4>2
    <3>2. CASE f.kind # "trace"
      <4>1. Head(wire).kind # "trace"
        BY <3>2 DEF f
      <4>2. Accounted("trace", Tail(wire), traceShown, trace)
        BY <1>1, <1>3, <2>1, <4>1, OtherRead
      <4> QED
        BY <1>1, <1>5, <1>6, <3>2, <4>2
    <3> QED
      BY <3>1, <3>2
  <2> QED
    BY <2>2, <2>3
<1>12. Accounts'
  BY <1>1, <1>2, <1>11 DEF Accounts
<1>13. Results'
  <2>1. CASE f.kind # "final"
    BY <1>1, <1>5, <1>6, <2>1 DEF Results
  <2>2. CASE f.kind = "final"
    <3>1. Len(wire) = 1 /\ stage = "idle" /\ FinalOf(f)
      <4>1. \A i \in 1 .. Len(wire) : wire[i].kind \in {"final", "refused"} =>
              /\ i = Len(wire) /\ stage = "idle"
              /\ wire[i].kind = "final" => FinalOf(wire[i])
        BY <1>1 DEF PanelInv, Panel, Lasts
      <4>2. 1 \in 1 .. Len(wire)
        BY <1>4
      <4> QED
        BY <1>4, <2>2, <4>1, <4>2
    <3>2. wire' = <<>> /\ UNCHANGED <<text, traceShown>> /\ result' = f
      BY <1>4, <1>6, <2>2, <3>1
    <3>3. conn \in {"ended", "none"}
      BY <1>1, <3>1 DEF PanelInv, Panel, Link
    <3>4. ASSUME f.stream PROVE text' = page' /\ traceShown' = f.trace /\ (f.ok <=> pageEnd' = "ok")
      <4>1. request.stream /\ (f.ok <=> pageEnd = "ok") /\ f.trace = trace
        BY <3>1, <3>4 DEF FinalOf
      <4>2. Accounted("chunk", <<>>, text, page) /\ Accounted("trace", <<>>, traceShown, trace)
        BY <1>11, <3>2, <4>1
      <4>3. text = page
        BY <1>3, <4>2, SeenWhole
      <4>4. traceShown = trace
        BY <1>3, <4>2, SeenWhole
      <4> QED
        BY <1>2, <3>2, <4>1, <4>3, <4>4
    <3> QED
      BY <1>1, <1>2, <3>1, <3>2, <3>3, <3>4 DEF Results, FinalOf
  <2> QED
    BY <2>1, <2>2
<1> QED
  BY <1>7, <1>8, <1>9, <1>10, <1>12, <1>13 DEF Panel

(* The response is at its end, or the connection broke.                    *)
LEMMA EndStep == PanelInv /\ (ReadEnd \/ ReadFails) => Panel'
<1> SUFFICES ASSUME PanelInv, ReadEnd \/ ReadFails PROVE Panel'
  OBVIOUS
<1>1. /\ ~running' /\ running' = FALSE /\ conn' \in {"none", "cut"} /\ wire' \in {wire, <<>>}
      /\ notice' \in {notice, TRUE}
      /\ UNCHANGED <<skill, stream, text, traceShown, result, calls, hits, stage, trace, request>>
      /\ UNCHANGED <<relay, caller, page, pageEnd>>
  BY DEF ReadEnd, ReadFails, form, shown, handler, talk, vars, server
<1>2. /\ stage = "idle" => conn' = "none"
      /\ stage # "idle" => conn' = "cut" /\ result = Nil
  BY DEF ReadEnd, ReadFails, PanelInv, Panel, Link, Results
<1>3. Kept'
  <2>1. wire' \in Seq(Frames)
    <3>1. wire \in Seq(Frames) /\ <<>> \in Seq(Frames)
      BY DEF PanelInv, Panel, Kept
    <3> QED
      BY <1>1, <3>1
  <2> QED
    BY <1>1, <2>1 DEF PanelInv, Panel, Kept
<1>4. Stages'
  <2>1. Preparing' = Preparing /\ Reporting' = Reporting /\ Untold' = Untold /\ Succeeded' = Succeeded
    BY <1>1 DEF Preparing, Reporting, Untold, Succeeded
  <2> QED
    BY <1>1, <2>1 DEF PanelInv, Panel, Stages
<1>5. Link' /\ Lasts' /\ Accounts'
  BY <1>1, <1>2 DEF Link, Lasts, Accounts
<1>6. Results'
  BY <1>1, <1>2 DEF PanelInv, Panel, Results
<1> QED
  BY <1>3, <1>4, <1>5, <1>6 DEF Panel

-----------------------------------------------------------------------------
(* The panel moves the stream by its own steps, or breaks the connection.  *)
LEMMA StreamMoves ==
  PanelNext => \/ [Next]_vars
               \/ /\ faults < MaxFaults /\ faults' = faults + 1
                  /\ UNCHANGED <<responder, emitted, inbox, mishap, server, page, pageEnd>>
<1> SUFFICES ASSUME PanelNext
             PROVE  \/ [Next]_vars
                    \/ /\ faults < MaxFaults /\ faults' = faults + 1
                       /\ UNCHANGED <<responder, emitted, inbox, mishap, server, page, pageEnd>>
  OBVIOUS
<1>1. CASE Typing \/ Gate \/ Prepare \/ PrepareFails \/ Dispatch \/ Resume \/ Report \/ Read \/ ReadEnd
  BY <1>1 DEF Typing, Choose, ToggleStream, FireInvalid, Fire, Gate, Prepare, PrepareFails,
              Dispatch, Resume, Report, Read, ReadEnd, talk
<1>2. CASE Finishes \/ Abandon
  BY <1>2 DEF Finishes, Abandon, Next, talk
<1>3. CASE \/ Talk(EmitChunk) \/ (\E kind \in {"ok", "error"} : Talk(Reply(kind)))
           \/ Talk(Receive) \/ Talk(Timeout) \/ Talk(Settle)
           \/ YieldChunk \/ Talk(Sleep) \/ Talk(Leave) \/ PullNext \/ Talk(Faulty)
  BY <1>3 DEF Talk, YieldChunk, PullNext, Next
<1>4. CASE ReadFails
  BY <1>4 DEF ReadFails, Fault
<1> QED
  BY <1>1, <1>2, <1>3, <1>4 DEF PanelNext, Serving

LEMMA StreamStep == IInv /\ [PanelNext]_panelVars => IInv'
<1> SUFFICES ASSUME IInv, [PanelNext]_panelVars PROVE IInv'
  OBVIOUS
<1>1. CASE [Next]_vars
  BY <1>1, TypeStep, RelayStep, ClosingStep, WholeStep DEF IInv
<1>2. CASE /\ faults < MaxFaults /\ faults' = faults + 1
           /\ UNCHANGED <<responder, emitted, inbox, mishap, server, page, pageEnd>>
  <2>1. UNCHANGED <<responder, emitted, inbox, mishap, caller, nextSeq, settled, buffer, relay,
                    page, pageEnd>>
    BY <1>2 DEF server
  <2>2. TypeOK'
    <3>1. faults' \in 0 .. MaxFaults
      BY <1>2, StreamAssumption DEF IInv, TypeOK
    <3> QED
      BY <2>1, <3>1 DEF IInv, TypeOK
  <2>3. Relayed' /\ Closing' /\ Whole'
    BY <2>1 DEF IInv, Relayed, Closing, Whole, AnswerLast, Arriving, ComingWithin, OkAt, ChunkAt
  <2> QED
    BY <2>2, <2>3 DEF IInv
<1>3. UNCHANGED panelVars => [Next]_vars
  BY DEF panelVars, talk
<1> QED
  BY <1>1, <1>2, <1>3, StreamMoves

LEMMA PanelStep == PanelInv /\ [PanelNext]_panelVars => PanelInv'
<1> SUFFICES ASSUME PanelInv, [PanelNext]_panelVars PROVE PanelInv'
  OBVIOUS
<1>1. IInv'
  BY StreamStep DEF PanelInv
<1>2. Panel'
  <2>1. CASE Typing
    BY <2>1, FormStep, FireStep DEF Typing
  <2>2. CASE Serving \/ PrepareFails
    BY <2>2, GateStep, PrepareStep, PrepareFailsStep, DispatchStep, ResumeStep, ReportStep,
       FinishesStep, AbandonStep DEF Serving
  <2>3. CASE \/ Talk(EmitChunk) \/ (\E kind \in {"ok", "error"} : Talk(Reply(kind)))
             \/ Talk(Receive) \/ Talk(Timeout) \/ Talk(Settle)
             \/ Talk(Sleep) \/ Talk(Leave) \/ PullNext \/ Talk(Faulty)
    <3>1. Talk(Stream)
      BY <2>3 DEF Talk, PullNext, Stream
    <3> QED
      BY <3>1, TalkStep
  <2>4. CASE YieldChunk
    BY <2>4, YieldStep
  <2>5. CASE Read \/ ReadEnd \/ ReadFails
    BY <2>5, ReadStep, EndStep
  <2>6. CASE UNCHANGED panelVars
    <3>1. UNCHANGED <<skill, stream, running, text, traceShown, result, notice, calls, hits, stage,
                      trace, wire, conn, request>>
      BY <2>6 DEF panelVars, form, shown, handler, link
    <3>2. UNCHANGED <<relay, caller, page, pageEnd>>
      BY <2>6 DEF panelVars, talk, vars, server
    <3>3. Kept' = Kept
      BY <3>1 DEF Kept
    <3>4. Stages' = Stages
      BY <3>1, <3>2 DEF Stages, Preparing, Reporting, Untold, Succeeded
    <3>5. Link' = Link /\ Results' = Results
      BY <3>1, <3>2 DEF Link, Results
    <3>6. Lasts' = Lasts /\ Accounts' = Accounts
      BY <3>1, <3>2 DEF Lasts, FinalOf, Accounts
    <3> QED
      BY <3>3, <3>4, <3>5, <3>6 DEF PanelInv, Panel
  <2> QED
    BY <2>1, <2>2, <2>3, <2>4, <2>5, <2>6 DEF PanelNext
<1> QED
  BY <1>1, <1>2 DEF PanelInv

(* The inductive invariant of a call from the page: where the handler and  *)
(* its generator are, which frames are under way, and what they account    *)
(* for (call-panel.tsx:56-145, call-server.ts:335-523).                    *)
THEOREM PanelInvariance == PanelSpec => []PanelInv
BY InitPanel, PanelStep, PTL DEF PanelSpec

(* Every variable of the panel has its type (call-panel.tsx:30-55).        *)
THEOREM PanelTypes == PanelSpec => []PanelTypeOK
<1>1. PanelInv => PanelTypeOK
  <2> SUFFICES ASSUME PanelInv PROVE PanelTypeOK
    OBVIOUS
  <2>1. TypeOK /\ Kept
    BY DEF PanelInv, IInv, Panel
  <2>2. hits \in 0 .. MaxCalls
    BY <2>1, PanelAssumption DEF Kept
  <2>3. {stream, running, notice} \subseteq BOOLEAN
    BY <2>1 DEF Kept
  <2> QED
    BY <2>1, <2>2, <2>3 DEF PanelTypeOK, Kept, Requests, Names
<1> QED
  BY PanelInvariance, <1>1, PTL

(* Whatever is refused, fails, is cut off or is cleared by a new choice,   *)
(* the page shows one call (call-panel.tsx:56-145, call-server.ts:335-523).*)
THEOREM OneCallShown == PanelSpec => []ShowsOneCall
<1>1. PanelInv => ShowsOneCall
  <2> SUFFICES ASSUME PanelInv PROVE ShowsOneCall
    OBVIOUS
  <2>1. ASSUME result # Nil
        PROVE  /\ result.skill = skill
               /\ result.stream => /\ StreamOnPage = page /\ TraceOnPage = traceShown
                                   /\ ResultOnPage # Nil <=> pageEnd = "ok"
    BY <2>1 DEF PanelInv, Panel, Results, StreamOnPage, TraceOnPage, ResultOnPage
  <2>2. ASSUME running, request.stream
        PROVE  /\ Len(text) + Cardinality(Chunks(wire)) = Len(page)
               /\ \A i \in DOMAIN StreamOnPage : StreamOnPage[i] = page[i]
    <3>1. Accounted("chunk", wire, text, page)
      BY <2>2 DEF PanelInv, Panel, Accounts
    <3>2. wire \in Seq(Frames) /\ text \in Seq(0 .. MaxChunks)
      BY DEF PanelInv, Panel, Kept
    <3>3. Chunks(wire) = {i \in 1 .. Len(wire) : wire[i].kind = "chunk"}
      BY <3>2 DEF Chunks
    <3>4. Cardinality(Chunks(wire)) = Count("chunk", wire, Len(wire))
      BY <3>3 DEF Count
    <3> QED
      BY <3>1, <3>2, <3>4 DEF Accounted, StreamOnPage
  <2> QED
    BY <2>1, <2>2 DEF ShowsOneCall
<1> QED
  BY PanelInvariance, <1>1, PTL

(* Behind a page too, a call that is seen to succeed was seen whole        *)
(* (call-server.ts:446-458).                                               *)
THEOREM PanelWhole == PanelSpec => []WholeUnlessMishap
<1>1. PanelInv => WholeUnlessMishap
  BY DEF PanelInv, IInv, TypeOK, Relayed, Closing, Whole, Arriving, WholeUnlessMishap
<1> QED
  BY PanelInvariance, <1>1, PTL

(* What the route is told is an ordered feed with one outcome, also where  *)
(* the panel, its handler and its connection move it (caller.ts:112,       *)
(* call-server.ts:446-455).                                                *)
THEOREM PanelRefinement == PanelSpec => PageSeesStream
<1>1. PanelInit => Feed!Init
  BY DEF PanelInit, Init, Feed!Init
<1>2. PanelInv /\ [PanelNext]_panelVars => [Feed!Next]_<<page, pageEnd>>
  <2> SUFFICES ASSUME PanelInv, [PanelNext]_panelVars PROVE [Feed!Next]_<<page, pageEnd>>
    OBVIOUS
  <2>1. [Next]_vars \/ UNCHANGED <<page, pageEnd>>
    BY StreamMoves DEF panelVars, talk
  <2> QED
    BY <2>1, FeedStep DEF PanelInv
<1> QED
  BY PanelInvariance, <1>1, <1>2, PTL DEF PanelSpec, PageSeesStream, Feed!Spec
=============================================================================
