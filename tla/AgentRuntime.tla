---------------------------- MODULE AgentRuntime ----------------------------
(***************************************************************************)
(* One agent runtime (packages/agent/src/agent.ts): the loop that polls    *)
(* AXL, the gates a skill request passes, the skill handler, the signed    *)
(* answer, the reputation attestation, the call statistics and the         *)
(* snapshot rotation they trigger.                                         *)
(*                                                                         *)
(* The loop handles one message at a time, so between two of its awaits    *)
(* only the network, the clock, the snapshot rotation it has forked and    *)
(* a stop or a crash of the process can act.  A phase stands for the await *)
(* the loop is suspended in:                                               *)
(*   idle     recvOnce            refuse   replyErr of a failed gate       *)
(*   run      the skill handler   return   replyOk of its output           *)
(*   throw    replyErr of the exception    attest   rep.append             *)
(*                                                                         *)
(* The reputation chain is taken here at its abstraction (AppendOnlyLog):  *)
(* `rep` is what its head commits to.  AppendChain shows the chain is one. *)
(***************************************************************************)
EXTENDS Integers, Sequences, FiniteSets

CONSTANTS
  Requests,         \* the skill requests that may reach the agent
  Nonces,           \* their nonces
  Skills,           \* the skills the agent has registered
  StreamSkills,     \* those with a streamHandler
  InferringSkills,  \* those whose handler completes one DirectCompute inference
  RequirePayment,   \* AgentOpts.requirePayment
  MaxAge,           \* AgentOpts.maxRequestAgeMs
  NonceCacheSize,   \* AgentOpts.nonceCacheSize
  SnapshotEvery,    \* AgentOpts.snapshotEvery, 0 when rotation is off
  Nil,              \* no attestation yet; in the inbox, a body that is no request
  MaxTime,          \* bound: clock ticks
  MaxDeliveries,    \* bound: messages put in the agent's inbox
  MaxFaults,        \* bound: sends and uploads that fail
  MaxRestarts,      \* bound: crashes of the process
  MaxChunks         \* bound: chunks one stream yields

(* A request as the gates see it.  `genuine`: its callerPubkey is the AXL  *)
(* sender.  `paid`: it carries a receipt that checkPayment accepts.        *)
(* `valid`: its input passes the skill's schema.                           *)
RequestType ==
  [nonce : Nonces, ts : Int, genuine : BOOLEAN, skill : STRING,
   paid : BOOLEAN, valid : BOOLEAN, stream : BOOLEAN]

ASSUME RuntimeAssumption ==
  /\ Requests \subseteq RequestType
  /\ Skills \subseteq STRING
  /\ StreamSkills \subseteq Skills
  /\ InferringSkills \subseteq Skills
  /\ RequirePayment \in BOOLEAN
  /\ MaxAge \in Nat
  /\ NonceCacheSize \in Nat
  /\ SnapshotEvery \in Nat
  /\ Nil \notin Requests
  /\ Nil \notin Nat
  /\ MaxTime \in Nat /\ MaxDeliveries \in Nat /\ MaxFaults \in Nat
  /\ MaxRestarts \in Nat /\ MaxChunks \in Nat

VARIABLES
  now,          \* Date.now()
  running,      \* Agent.running
  inbox,        \* the AXL node's queue for this agent
  phase,        \* the await the loop is suspended in
  calls,        \* history: every request handled, and how it ended
  seen,         \* Agent.seenNonces, oldest insertion first
  admitted,     \* history: the nonces remembered since the process started
  chunks,       \* seq of the next chunk of the current stream
  inferred,     \* whether the current handler's inference has completed
  lastTee,      \* compute.lastTeeAttestation: the call whose inference it proves
  rep,          \* the attestations RepChain.head commits to, oldest first
  repRejected,  \* whether RepChain._lock is a rejected promise
  stats,        \* callsTotal, okTotal and skillStats
  rotation,     \* Agent.snapshotInFlight: idle, or the await it is in
  snapshots,    \* history: the snapshot bodies handed to SnapshotChain.append
  outbox,       \* history: the messages sent, oldest first
  delivered, faults, restarts   \* counters of the bounds

loopVars == <<phase, calls, seen, admitted, chunks, inferred, lastTee>>
repVars == <<rep, repRejected, stats>>
snapVars == <<rotation, snapshots>>
bounds == <<delivered, faults, restarts>>
vars == <<now, running, inbox, loopVars, repVars, snapVars, outbox, bounds>>

ZeroStats == [calls |-> 0, ok |-> 0,
              bySkill |-> [s \in Skills |-> [calls |-> 0, ok |-> 0]]]

Init ==
  /\ now = 0
  /\ running = TRUE
  /\ inbox = <<>>
  /\ phase = "idle"
  /\ seen = <<>> /\ admitted = <<>>
  /\ chunks = 0 /\ inferred = FALSE
  /\ lastTee = Nil
  /\ rep = <<>> /\ repRejected = FALSE
  /\ stats = ZeroStats
  /\ rotation = "idle"
  /\ calls = <<>>
  /\ snapshots = <<>>
  /\ outbox = <<>>
  /\ delivered = 0 /\ faults = 0 /\ restarts = 0

Image(s) == {s[i] : i \in DOMAIN s}

-----------------------------------------------------------------------------
(* The environment                                                         *)

Tick ==
  /\ now < MaxTime
  /\ now' = now + 1
  /\ UNCHANGED <<running, inbox, loopVars, repVars, snapVars, outbox, bounds>>

(* The network may deliver a request late, early or more than once; it     *)
(* also carries bodies that are not requests.                              *)
Deliver(m) ==
  /\ delivered < MaxDeliveries
  /\ delivered' = delivered + 1
  /\ inbox' = Append(inbox, m)
  /\ UNCHANGED <<now, running, loopVars, repVars, snapVars, outbox, faults, restarts>>

(* stop(): the loop ends once the message in hand is handled.              *)
Stop ==
  /\ running
  /\ running' = FALSE
  /\ UNCHANGED <<now, inbox, loopVars, repVars, snapVars, outbox, bounds>>

(* The process dies and is started again: everything in memory is lost and *)
(* RepChain starts with a null head.  An AXL node keeps its queue; a       *)
(* LocalBus dies with the process.                                         *)
Restart ==
  /\ restarts < MaxRestarts
  /\ restarts' = restarts + 1
  /\ running' = TRUE
  /\ phase' = "idle"
  /\ seen' = <<>> /\ admitted' = <<>>
  /\ chunks' = 0 /\ inferred' = FALSE
  /\ lastTee' = Nil
  /\ rep' = <<>> /\ repRejected' = FALSE
  /\ stats' = ZeroStats
  /\ rotation' = "idle"
  /\ inbox' \in {inbox, <<>>}
  /\ UNCHANGED <<now, calls, snapshots, outbox, delivered, faults>>

-----------------------------------------------------------------------------
(* The loop: gates                                                         *)

Stale(r) == r.ts - now > MaxAge \/ now - r.ts > MaxAge
Replayed(r) == r.nonce \in Image(seen)

(* Mutation: the bound of the nonce cache is off by one.                   *)
RememberShort(n) ==
  IF Len(seen) + 1 >= NonceCacheSize THEN Tail(Append(seen, n)) ELSE Append(seen, n)

(* seenNonces after the nonce is inserted and the oldest one evicted.      *)
Remember(n) ==
  IF Len(seen) + 1 > NonceCacheSize THEN Tail(Append(seen, n)) ELSE Append(seen, n)

(* SkillRegistry.get finds the skill.                                      *)
Registered(r) == r.skill \in Skills

(* The gates behind the freshness and replay check, in the code's order;   *)
(* all of them only read.                                                  *)
Refused(r) ==
  \/ Stale(r)
  \/ Replayed(r)
  \/ ~r.genuine
  \/ ~Registered(r)
  \/ RequirePayment /\ ~r.paid
  \/ ~r.valid

(* rejectStale remembers a nonce before any other gate is tried, so a      *)
(* request refused later has consumed its nonce all the same.              *)
RememberNonce(r) ==
  IF Stale(r) \/ Replayed(r)
    THEN UNCHANGED <<seen, admitted>>
    ELSE /\ seen' = Remember(r.nonce)
         /\ admitted' = Append(admitted, r.nonce)

(* recvOnce and handleInbound up to the first await: a body that is not a  *)
(* request is dropped, a request passes the gates or is refused.           *)
Receive ==
  /\ running
  /\ phase = "idle"
  /\ inbox # <<>>
  /\ inbox' = Tail(inbox)
  /\ LET r == Head(inbox)
     IN  IF r = Nil
           THEN UNCHANGED loopVars
           ELSE /\ RememberNonce(r)
                /\ calls' = Append(calls, [req |-> r, fate |-> IF Refused(r) THEN "refused" ELSE "open"])
                /\ phase' = IF Refused(r) THEN "refuse" ELSE "run"
                /\ chunks' = 0
                /\ inferred' = FALSE
                /\ UNCHANGED lastTee
  /\ UNCHANGED <<now, running, repVars, snapVars, outbox, bounds>>

-----------------------------------------------------------------------------
(* The loop: answering                                                     *)

Current == Len(calls)
Req == calls[Current].req
Close(fate) == calls' = [calls EXCEPT ![Current].fate = fate]

(* Only chunks carry a sequence number on the wire.                        *)
Reply(ok) == [call |-> Current, kind |-> IF ok THEN "ok" ELSE "err", seq |-> 0]
Chunk == [call |-> Current, kind |-> "chunk", seq |-> chunks]

Send(m) == outbox' = Append(outbox, m) /\ UNCHANGED faults

(* sendJson throws; the message may have reached the peer all the same.    *)
SendFails(m) ==
  /\ faults < MaxFaults
  /\ faults' = faults + 1
  /\ outbox' \in {outbox, Append(outbox, m)}

(* An exception leaves handleSkillRequest: start() logs it and polls on.   *)
Escape(fate) == phase' = "idle" /\ Close(fate)

Elsewhere == UNCHANGED <<now, running, inbox, seen, admitted, repVars, snapVars,
                         delivered, restarts>>

RefuseReply ==
  /\ phase = "refuse"
  /\ phase' = "idle"
  /\ Send(Reply(FALSE)) \/ SendFails(Reply(FALSE))
  /\ UNCHANGED <<calls, chunks, inferred, lastTee>>
  /\ Elsewhere

(* Mutation: the streaming path keeps the attestation it found.            *)
InferStreamUnproven ==
  /\ phase = "run"
  /\ Req.skill \in InferringSkills
  /\ ~inferred
  /\ inferred' = TRUE
  /\ lastTee' = IF Req.stream THEN lastTee ELSE Current
  /\ UNCHANGED <<phase, calls, chunks, outbox, faults>>
  /\ Elsewhere

(* The handler's inference completes: DirectCompute keeps its attestation. *)
Infer ==
  /\ phase = "run"
  /\ Req.skill \in InferringSkills
  /\ ~inferred
  /\ inferred' = TRUE
  /\ lastTee' = Current
  /\ UNCHANGED <<phase, calls, chunks, outbox, faults>>
  /\ Elsewhere

Streaming == Req.stream /\ Req.skill \in StreamSkills

(* The inference of a streaming call has more deltas to yield.             *)
Deltas == phase = "run" /\ Streaming /\ ~inferred /\ chunks < MaxChunks

(* emitChunk for one yielded text; an exception of its send is caught like *)
(* one of the handler.                                                     *)
EmitChunk ==
  /\ Deltas
  /\ \/ Send(Chunk) /\ chunks' = chunks + 1 /\ UNCHANGED phase
     \/ SendFails(Chunk) /\ phase' = "throw" /\ UNCHANGED chunks
  /\ UNCHANGED <<calls, inferred, lastTee>>
  /\ Elsewhere

(* A handler returns what its inference gave it, streamed or in one piece; *)
(* a handler of the agent's own may make none.                             *)
Completed == phase = "run" /\ (Req.skill \in InferringSkills => inferred)

HandlerReturns ==
  /\ Completed
  /\ phase' = "return"
  /\ UNCHANGED <<calls, chunks, inferred, lastTee, outbox, faults>>
  /\ Elsewhere

(* The handler may throw before its inference or after it.                 *)
HandlerThrows ==
  /\ phase = "run"
  /\ phase' = "throw"
  /\ UNCHANGED <<calls, chunks, inferred, lastTee, outbox, faults>>
  /\ Elsewhere

(* Mutation: replyOk is inside the try block, so its failure is answered.  *)
ReplySkillInTry ==
  /\ phase \in {"return", "throw"}
  /\ \/ /\ Send(Reply(phase = "return"))
        /\ Close(IF phase = "return" THEN "answered" ELSE "failed")
        /\ phase' = "attest"
     \/ /\ phase = "return"
        /\ SendFails(Reply(TRUE))
        /\ phase' = "throw"
        /\ UNCHANGED calls
     \/ /\ phase = "throw"
        /\ SendFails(Reply(FALSE))
        /\ Escape("unsent")
  /\ UNCHANGED <<chunks, inferred, lastTee>>
  /\ Elsewhere

(* The terminal answer of an executed call: replyOk after a return,        *)
(* replyErr in the catch block.  Neither is inside the try block.          *)
ReplySkill ==
  /\ phase \in {"return", "throw"}
  /\ \/ /\ Send(Reply(phase = "return"))
        /\ Close(IF phase = "return" THEN "answered" ELSE "failed")
        /\ phase' = "attest"
     \/ /\ SendFails(Reply(phase = "return"))
        /\ Escape("unsent")
  /\ UNCHANGED <<chunks, inferred, lastTee>>
  /\ Elsewhere

-----------------------------------------------------------------------------
(* The loop: attestation, statistics, rotation                             *)

Succeeded == calls[Current].fate = "answered"

(* Mutation: the catch block does not clear the verdict.                   *)
AttestationAlwaysOk == [call |-> Current, skill |-> Req.skill, ok |-> TRUE, tee |-> lastTee]

Attestation == [call |-> Current, skill |-> Req.skill, ok |-> Succeeded, tee |-> lastTee]

One(b) == IF b THEN 1 ELSE 0

(* bumpStats                                                               *)
Bumped ==
  [calls |-> stats.calls + 1,
   ok |-> stats.ok + One(Succeeded),
   bySkill |-> [stats.bySkill EXCEPT
                  ![Req.skill].calls = @ + 1,
                  ![Req.skill].ok = @ + One(Succeeded)]]

(* The body snapshotNow signs: statistics and reputation head, read in one *)
(* go behind its last await before the append.                             *)
SnapshotOf(s, r) == [stats |-> s, rep |-> r]

(* maybeSnapshot on the statistics s and the reputation r of the moment.   *)
(* snapshotNow runs up to its first await: the read of the on-chain root   *)
(* when the snapshot chain has no head yet, otherwise the append.          *)
MaybeSnapshot(s, r) ==
  IF SnapshotEvery = 0 \/ rotation # "idle" THEN UNCHANGED snapVars
  ELSE IF s.calls % SnapshotEvery # 0 THEN UNCHANGED snapVars
  ELSE \/ rotation' = "seeding" /\ UNCHANGED snapshots
       \/ rotation' = "appending" /\ snapshots' = Append(snapshots, SnapshotOf(s, r))

(* Mutation: the attestation is not awaited before the statistics.         *)
AttestNotAwaited ==
  /\ phase = "attest"
  /\ ~repRejected
  /\ phase' = "idle"
  /\ Close("attested")
  /\ rep' = Append(rep, Attestation)
  /\ stats' = Bumped
  /\ MaybeSnapshot(stats', rep)
  /\ UNCHANGED <<now, running, inbox, seen, admitted, chunks, inferred, lastTee,
                 repRejected, outbox, bounds>>

(* attest, bumpStats and maybeSnapshot, once rep.append resolves.          *)
Attest ==
  /\ phase = "attest"
  /\ ~repRejected
  /\ phase' = "idle"
  /\ Close("attested")
  /\ rep' = Append(rep, Attestation)
  /\ stats' = Bumped
  /\ MaybeSnapshot(stats', rep')
  /\ UNCHANGED <<now, running, inbox, seen, admitted, chunks, inferred, lastTee,
                 repRejected, outbox, bounds>>

(* The upload of the attestation fails: append rejects, and so does every  *)
(* append after it.                                                        *)
AttestFails ==
  /\ phase = "attest"
  /\ ~repRejected
  /\ faults < MaxFaults
  /\ faults' = faults + 1
  /\ repRejected' = TRUE
  /\ Escape("unattested")
  /\ UNCHANGED <<now, running, inbox, seen, admitted, chunks, inferred, lastTee,
                 rep, stats, snapVars, outbox, delivered, restarts>>

(* Mutation: an append behind a failed one never settles.                  *)
AttestSkippedHangs == FALSE /\ UNCHANGED vars

(* The chain's lock is a rejected promise: nothing is signed or uploaded.  *)
AttestSkipped ==
  /\ phase = "attest"
  /\ repRejected
  /\ Escape("skipped")
  /\ UNCHANGED <<now, running, inbox, seen, admitted, chunks, inferred, lastTee,
                 repVars, snapVars, outbox, bounds>>

-----------------------------------------------------------------------------
(* The rotation that maybeSnapshot forked                                  *)

(* The read of the on-chain root is over, with or without an answer.       *)
SnapshotSeeded ==
  /\ rotation = "seeding"
  /\ rotation' = "appending"
  /\ snapshots' = Append(snapshots, SnapshotOf(stats, rep))
  /\ UNCHANGED <<now, running, inbox, loopVars, repVars, outbox, bounds>>

(* append and setStateRoot have resolved or rejected; StateAnchor has what *)
(* they do.                                                                *)
SnapshotSettled ==
  /\ rotation = "appending"
  /\ rotation' = "idle"
  /\ UNCHANGED <<now, running, inbox, loopVars, repVars, snapshots, outbox, bounds>>

-----------------------------------------------------------------------------
LoopStep ==
  \/ Receive \/ RefuseReply
  \/ Infer \/ EmitChunk \/ HandlerReturns \/ HandlerThrows
  \/ ReplySkill
  \/ Attest \/ AttestFails \/ AttestSkipped

RotationStep == SnapshotSeeded \/ SnapshotSettled

Next ==
  \/ Tick
  \/ \E m \in Requests \cup {Nil} : Deliver(m)
  \/ Stop
  \/ Restart
  \/ LoopStep
  \/ RotationStep

Spec == Init /\ [][Next]_vars

(* Fairness: the event loop resumes the agent's loop and its rotation once *)
(* what they await is over; handlers, sends and uploads end.               *)
FairSpec == Spec /\ WF_vars(LoopStep) /\ WF_vars(RotationStep)

-----------------------------------------------------------------------------
(* Properties                                                              *)

Phases == {"idle", "refuse", "run", "return", "throw", "attest"}
Fates == {"refused", "open", "unsent", "answered", "failed",
          "attested", "unattested", "skipped"}
Counters == [calls : Nat, ok : Nat, bySkill : [Skills -> [calls : Nat, ok : Nat]]]
Attestations == [call : Nat, skill : Skills, ok : BOOLEAN, tee : Nat \cup {Nil}]
Messages == [call : Nat, kind : {"ok", "err", "chunk"}, seq : Nat]

(* Every variable keeps its type, and a suspended loop has a call in hand. *)
TypeOK ==
  /\ now \in Nat /\ running \in BOOLEAN
  /\ inbox \in Seq(Requests \cup {Nil})
  /\ phase \in Phases
  /\ calls \in Seq([req : Requests, fate : Fates])
  /\ phase # "idle" => calls # <<>>
  /\ phase \notin {"idle", "refuse"} => Req.skill \in Skills
  /\ seen \in Seq(Nonces) /\ admitted \in Seq(Nonces)
  /\ chunks \in Nat /\ inferred \in BOOLEAN
  /\ lastTee \in Nat \cup {Nil}
  /\ rep \in Seq(Attestations) /\ repRejected \in BOOLEAN
  /\ stats \in Counters
  /\ rotation \in {"idle", "seeding", "appending"}
  /\ snapshots \in Seq([stats : Counters, rep : Seq(Attestations)])
  /\ outbox \in Seq(Messages)
  /\ delivered \in Nat /\ faults \in Nat /\ restarts \in Nat

(* Replay defence while the process lives: a nonce gets past rejectStale a *)
(* second time only after NonceCacheSize other nonces did.                 *)
ReplayDistance ==
  \A i, j \in DOMAIN admitted :
    i < j /\ admitted[i] = admitted[j] => j - i > NonceCacheSize

Terminal(m) == m.kind \in {"ok", "err"}

(* The peer sees each request answered at most once, whatever send failed: *)
(* chunks numbered from 0 without a gap, then at most one terminal answer  *)
(* and nothing after it.                                                   *)
OneAnswer ==
  \A j \in DOMAIN outbox :
    LET before == {i \in 1 .. j - 1 : outbox[i].call = outbox[j].call}
    IN  /\ \A i \in before : ~Terminal(outbox[i])
        /\ outbox[j].kind = "chunk" => outbox[j].seq = Cardinality(before)

(* Reputation agrees with what callers were told: the k-th attestation is  *)
(* of a call whose terminal answer was sent, with the same verdict, and no *)
(* call is attested twice.                                                 *)
RepMatchesAnswers ==
  \A k \in DOMAIN rep :
    /\ \E m \in Image(outbox) :
         m.call = rep[k].call /\ m.kind = IF rep[k].ok THEN "ok" ELSE "err"
    /\ \A l \in 1 .. k - 1 : rep[l].call < rep[k].call

Count(r, Test(_)) == Cardinality({k \in DOMAIN r : Test(r[k])})

(* What the counters claim is what the chain proves.                       *)
Agrees(s, r) ==
  /\ s.calls = Len(r)
  /\ s.ok = Count(r, LAMBDA e : e.ok)
  /\ \A sk \in Skills :
       /\ s.bySkill[sk].calls = Count(r, LAMBDA e : e.skill = sk)
       /\ s.bySkill[sk].ok = Count(r, LAMBDA e : e.skill = sk /\ e.ok)

(* The statistics never run ahead of the reputation chain or behind it,    *)
(* through failed sends, failed uploads and restarts; and a memory         *)
(* snapshot is consistent although its rotation runs beside the loop: its  *)
(* counters are those of the reputation head it names (agent.ts:296-374).  *)
SnapshotsAgree ==
  \A k \in DOMAIN snapshots : Agrees(snapshots[k].stats, snapshots[k].rep)
StatsMatchRep == Agrees(stats, rep) /\ SnapshotsAgree

(* The attestation of a successful call carries the TEE proof of that very *)
(* call's inference.                                                       *)
TeeOfAnsweredCall ==
  \A k \in DOMAIN rep :
    rep[k].ok /\ rep[k].skill \in InferringSkills => rep[k].tee = rep[k].call

(* The loop always gets back to its inbox: whatever is delivered is taken  *)
(* out, unless the agent is stopped.                                       *)
LoopDrains == inbox # <<>> ~> (inbox = <<>> \/ ~running)
=============================================================================
