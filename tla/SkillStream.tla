---------------------------- MODULE SkillStream ----------------------------
(***************************************************************************)
(* A streaming skill call, from the model's deltas to the web page:        *)
(*                                                                         *)
(*   responder   Agent.handleSkillRequest, emitChunk   (agent/agent.ts)    *)
(*   inbox       the bus or AXL node of the caller     (agent/local-bus.ts)*)
(*   caller      callSkillStream                       (agent/caller.ts)   *)
(*   relay       callAgentSkillStream                  (call-server.ts)    *)
(*   page        the SSE response                      (api/call/route.ts) *)
(*                                                                         *)
(* The relay is an async generator that sleeps on a promise whose resolver *)
(* the caller's callbacks call: wake() before the generator sleeps is a    *)
(* no-op, so every callback and every stretch between two awaits of the    *)
(* generator is one step here.  The in-process bus is a reliable FIFO      *)
(* queue; the AXL node it stands in for may lose, repeat, reorder or delay *)
(* messages, MaxFaults times.                                              *)
(***************************************************************************)
EXTENDS Naturals, Sequences

CONSTANTS
  MaxChunks,  \* bound: deltas the skill's stream handler yields
  MaxFaults   \* bound: faults of the network and of its clients

ASSUME StreamAssumption == MaxChunks \in Nat /\ MaxFaults \in Nat

VARIABLES
  responder,  \* "streaming", "failing" after a send threw, "ended"
  emitted,    \* chunks sent: the next value of seq
  inbox,      \* messages on their way to the caller
  caller,     \* callSkillStream: "polling", then its result
  nextSeq,
  settled,    \* done: the .then callbacks of callPromise have run
  buffer,     \* chunkBuffer
  relay,      \* where the generator is
  page,       \* the chunks the page has received
  pageEnd,    \* how the page's stream ended
  faults,
  mishap      \* history: a message to the caller was lost or overtaken

network == <<inbox, faults, mishap>>
server  == <<caller, nextSeq, settled, buffer, relay>>
vars    == <<responder, emitted, network, server, page, pageEnd>>

(* skill.chunk, skill.res with ok = true or false, or traffic of other     *)
(* calls; seq is that of a chunk.  `late`: the message arrives more than   *)
(* maxResponseAgeMs after it was signed.                                   *)
Messages ==
  {m \in [kind : {"chunk", "ok", "error", "foreign"},
          seq : 0 .. MaxChunks, late : BOOLEAN] :
     m.kind = "chunk" => m.seq < MaxChunks}

Message(kind, n) == [kind |-> kind, seq |-> n, late |-> FALSE]

Init ==
  /\ responder = "streaming" /\ emitted = 0
  /\ inbox = <<>>
  /\ caller = "polling" /\ nextSeq = 0 /\ settled = FALSE
  /\ buffer = <<>> /\ relay = "run"
  /\ page = <<>> /\ pageEnd = "open"
  /\ faults = 0 /\ mishap = FALSE

-----------------------------------------------------------------------------
(* The responder.                                                          *)
Fault == faults < MaxFaults /\ faults' = faults + 1

EmitChunk ==
  /\ responder = "streaming"
  /\ emitted < MaxChunks
  /\ inbox' = Append(inbox, Message("chunk", emitted))
  /\ emitted' = emitted + 1
  /\ UNCHANGED <<responder, faults, mishap, server, page, pageEnd>>

(* sendJson of a chunk throws, delivered or not: the handler's catch will  *)
(* send the error answer.                                                  *)
EmitFails ==
  /\ responder = "streaming"
  /\ emitted < MaxChunks
  /\ Fault
  /\ inbox' \in {inbox, Append(inbox, Message("chunk", emitted))}
  /\ responder' = "failing"
  /\ UNCHANGED <<emitted, mishap, server, page, pageEnd>>

(* The terminal answer: the generator returned, or a gate refused or the   *)
(* handler threw.                                                          *)
Reply(kind) ==
  /\ responder # "ended"
  /\ responder = "failing" => kind = "error"
  /\ inbox' = Append(inbox, Message(kind, 0))
  /\ responder' = "ended"
  /\ UNCHANGED <<emitted, faults, mishap, server, page, pageEnd>>

(* sendJson of the answer throws and escapes to the agent's loop, or the   *)
(* request never reached the agent.                                        *)
ReplyFails ==
  /\ responder # "ended"
  /\ Fault
  /\ responder' = "ended"
  /\ UNCHANGED <<emitted, inbox, mishap, server, page, pageEnd>>

-----------------------------------------------------------------------------
(* The network between two AXL nodes.                                      *)
Lose ==
  /\ Fault
  /\ \E i \in DOMAIN inbox :
       inbox' = SubSeq(inbox, 1, i - 1) \o SubSeq(inbox, i + 1, Len(inbox))
  /\ mishap' = TRUE
  /\ UNCHANGED <<responder, emitted, server, page, pageEnd>>

Overtake ==
  /\ Fault
  /\ \E i \in 1 .. Len(inbox) - 1 :
       inbox' = [inbox EXCEPT ![i] = inbox[i + 1], ![i + 1] = inbox[i]]
  /\ mishap' = TRUE
  /\ UNCHANGED <<responder, emitted, server, page, pageEnd>>

Repeat ==
  /\ Fault
  /\ \E i \in DOMAIN inbox : inbox' = Append(inbox, inbox[i])
  /\ UNCHANGED <<responder, emitted, mishap, server, page, pageEnd>>

Delay ==
  /\ Fault
  /\ \E i \in DOMAIN inbox : inbox' = [inbox EXCEPT ![i].late = TRUE]
  /\ UNCHANGED <<responder, emitted, mishap, server, page, pageEnd>>

Stray ==
  /\ Fault
  /\ inbox' = Append(inbox, Message("foreign", 0))
  /\ UNCHANGED <<responder, emitted, mishap, server, page, pageEnd>>

-----------------------------------------------------------------------------
(* callSkillStream.  onChunk pushes to chunkBuffer and calls wake().       *)

(* wake: only a generator that has already gone to sleep has a resolver.   *)
Wake == relay' = IF relay = "asleep" THEN "run" ELSE relay

InSequence(m) == m.seq = nextSeq

Take == caller = "polling" /\ inbox # <<>> /\ inbox' = Tail(inbox)

(* Mutation: nextSeq is taken from the chunk instead of checked against it.*)
AcceptChunkJump(m) ==
  /\ Take
  /\ ~m.late
  /\ nextSeq' = m.seq + 1
  /\ buffer' = Append(buffer, m.seq)
  /\ Wake
  /\ UNCHANGED <<responder, emitted, caller, settled, page, pageEnd, faults, mishap>>

AcceptChunk(m) ==
  /\ Take
  /\ InSequence(m) /\ ~m.late
  /\ nextSeq' = nextSeq + 1
  /\ buffer' = Append(buffer, m.seq)
  /\ Wake
  /\ UNCHANGED <<responder, emitted, caller, settled, page, pageEnd, faults, mishap>>

(* Out of sequence or stale: callSkillStream throws.                       *)
RefuseChunk(m) ==
  /\ Take
  /\ ~InSequence(m) \/ m.late
  /\ caller' = "error"
  /\ UNCHANGED <<responder, emitted, nextSeq, settled, buffer, relay,
                 page, pageEnd, faults, mishap>>

AcceptAnswer(m) ==
  /\ Take
  /\ caller' = IF m.kind = "ok" /\ ~m.late THEN "ok" ELSE "error"
  /\ UNCHANGED <<responder, emitted, nextSeq, settled, buffer, relay,
                 page, pageEnd, faults, mishap>>

Ignore ==
  /\ Take
  /\ UNCHANGED <<responder, emitted, server, page, pageEnd, faults, mishap>>

Receive ==
  /\ inbox # <<>>
  /\ LET m == Head(inbox) IN
       \/ m.kind = "chunk" /\ (AcceptChunk(m) \/ RefuseChunk(m))
       \/ m.kind \in {"ok", "error"} /\ AcceptAnswer(m)
       \/ m.kind = "foreign" /\ Ignore

Throw ==
  /\ caller = "polling"
  /\ caller' = "error"
  /\ UNCHANGED <<responder, emitted, inbox, nextSeq, settled, buffer, relay,
                 page, pageEnd, mishap>>

(* The deadline is looked at before each poll.                             *)
Timeout == Throw /\ UNCHANGED faults

(* recvOnce throws: the AXL node answered with an error.                   *)
ReceiveFails == Throw /\ Fault

-----------------------------------------------------------------------------
(* callAgentSkillStream: the generator and the .then callbacks.            *)

(* Mutation: the callbacks do not wake the generator.                      *)
SettleSilent ==
  /\ caller # "polling" /\ ~settled
  /\ settled' = TRUE
  /\ UNCHANGED <<responder, emitted, network, caller, nextSeq, buffer, relay, page, pageEnd>>

Settle ==
  /\ caller # "polling" /\ ~settled
  /\ settled' = TRUE
  /\ Wake
  /\ UNCHANGED <<responder, emitted, network, caller, nextSeq, buffer, page, pageEnd>>

Yield ==
  /\ relay = "run" /\ buffer # <<>>
  /\ page' = Append(page, Head(buffer))
  /\ buffer' = Tail(buffer)
  /\ relay' = "yielded"
  /\ UNCHANGED <<responder, emitted, network, caller, nextSeq, settled, pageEnd>>

Sleep ==
  /\ relay = "run" /\ buffer = <<>> /\ ~settled
  /\ relay' = "asleep"
  /\ UNCHANGED <<responder, emitted, network, caller, nextSeq, settled, buffer, page, pageEnd>>

(* Mutation: `done` alone ends the loop.                                   *)
DrainedEarly == settled

(* The loop's condition: !done || chunkBuffer.length > 0.                  *)
Drained == settled /\ buffer = <<>>

(* The loop is left: the rest of the generator yields the final event.     *)
Leave ==
  /\ relay = "run" /\ Drained
  /\ relay' = "final"
  /\ UNCHANGED <<responder, emitted, network, caller, nextSeq, settled, buffer, page, pageEnd>>

-----------------------------------------------------------------------------
(* The route's `for await` loop, and the browser.                          *)
Pull ==
  /\ relay = "yielded"
  /\ relay' = "run"
  /\ UNCHANGED <<responder, emitted, network, caller, nextSeq, settled, buffer, page, pageEnd>>

Finish ==
  /\ relay = "final"
  /\ pageEnd' = caller
  /\ relay' = "closed"
  /\ UNCHANGED <<responder, emitted, network, caller, nextSeq, settled, buffer, page>>

(* The browser went away: enqueue throws and `for await` closes the        *)
(* generator.  The call goes on behind it.                                 *)
Disconnect ==
  /\ relay \in {"yielded", "final"}
  /\ pageEnd' = "gone"
  /\ relay' = "closed"
  /\ UNCHANGED <<responder, emitted, network, caller, nextSeq, settled, buffer, page>>

Faulty == EmitFails \/ ReplyFails \/ Lose \/ Overtake \/ Repeat \/ Delay \/ Stray
            \/ ReceiveFails

Next ==
  \/ EmitChunk \/ (\E kind \in {"ok", "error"} : Reply(kind))
  \/ Receive \/ Timeout \/ Settle
  \/ Yield \/ Sleep \/ Leave
  \/ Pull \/ Finish \/ Disconnect
  \/ Faulty

(* Timers fire, promise callbacks run, and the route pulls as fast as it   *)
(* can; nothing is assumed of the responder, the network or the browser.   *)
Fairness ==
  /\ WF_vars(Timeout) /\ WF_vars(Settle)
  /\ WF_vars(Yield) /\ WF_vars(Sleep) /\ WF_vars(Leave)
  /\ WF_vars(Pull) /\ WF_vars(Finish)

Spec == Init /\ [][Next]_vars /\ Fairness

-----------------------------------------------------------------------------
TypeOK ==
  /\ responder \in {"streaming", "failing", "ended"}
  /\ emitted \in 0 .. MaxChunks
  /\ inbox \in Seq(Messages)
  /\ caller \in {"polling", "ok", "error"}
  /\ nextSeq \in 0 .. MaxChunks
  /\ settled \in BOOLEAN
  /\ buffer \in Seq(0 .. MaxChunks)
  /\ relay \in {"run", "asleep", "yielded", "final", "closed"}
  /\ page \in Seq(0 .. MaxChunks)
  /\ pageEnd \in {"open", "ok", "error", "gone"}
  /\ faults \in 0 .. MaxFaults
  /\ mishap \in BOOLEAN

(* What the page has and what waits in chunkBuffer are the accepted chunks.*)
Relayed ==
  /\ Len(page) + Len(buffer) = nextSeq
  /\ \A i \in 1 .. Len(page) : page[i] = i - 1
  /\ \A i \in 1 .. Len(buffer) : buffer[i] = Len(page) + i - 1

(* The stream is closed once, after the call has its result.               *)
Closing ==
  /\ settled => caller # "polling"
  /\ relay = "final" => settled /\ buffer = <<>>
  /\ relay = "closed" <=> pageEnd # "open"
  /\ pageEnd \in {"ok", "error"} => settled /\ buffer = <<>> /\ pageEnd = caller

OkAt(i) == inbox[i].kind = "ok"
ChunkAt(i, n) == inbox[i].kind = "chunk" /\ inbox[i].seq = n

(* Every chunk the caller still lacks is among the first k messages.       *)
ComingWithin(k) ==
  \A n \in 0 .. emitted - 1 : n >= nextSeq => \E j \in 1 .. k : ChunkAt(j, n)

(* Without a mishap the lacking chunks arrive before a successful answer,  *)
(* which is only sent when no chunk beyond `emitted` was.                  *)
AnswerLast ==
  /\ (caller = "ok" \/ \E i \in 1 .. Len(inbox) : OkAt(i)) => responder = "ended"
  /\ (responder = "streaming" \/ caller = "ok" \/ \E i \in 1 .. Len(inbox) : OkAt(i))
       => /\ nextSeq <= emitted
          /\ \A j \in 1 .. Len(inbox) : inbox[j].kind = "chunk" => inbox[j].seq < emitted

Arriving ==
  /\ caller = "polling" =>
       /\ responder = "streaming" => ComingWithin(Len(inbox))
       /\ \A i \in 1 .. Len(inbox) : OkAt(i) => ComingWithin(i - 1)
  /\ caller = "ok" => nextSeq = emitted

Whole == ~mishap => AnswerLast /\ Arriving

IInv == TypeOK /\ Relayed /\ Closing /\ Whole

(* Whatever the network does, the page sees the chunks in order, from the  *)
(* first on and without a gap, then one outcome (caller.ts:112, and the    *)
(* hand-over through chunkBuffer in call-server.ts:405-455).               *)
Feed == INSTANCE OrderedFeed WITH
          seen <- page, outcome <- pageEnd, Outcomes <- {"ok", "error", "gone"}
PageSeesStream == Feed!Spec

(* A page told that the call succeeded has every chunk the caller accepted,*)
(* and every chunk the responder sent when no message was lost or          *)
(* overtaken: neither repeats, delays nor strays can make a short answer   *)
(* look whole (call-server.ts:446-458).                                    *)
WholeUnlessMishap ==
  pageEnd = "ok" => /\ Len(page) = nextSeq
                    /\ ~mishap => Len(page) = emitted
=============================================================================
