------------------------ MODULE AgentRuntime_proofs ------------------------
(***************************************************************************)
(* What holds of an agent runtime for any requests, any cache size and any *)
(* number of faults and restarts.                                          *)
(*                                                                         *)
(* Replay defence is about the past (`admitted`), the code only has the    *)
(* bounded cache (`seen`).  The strengthening says what the cache is: the  *)
(* last NonceCacheSize nonces admitted, in their order.                    *)
(***************************************************************************)
EXTENDS AgentRuntime, SequenceTheorems, FiniteSetTheorems, TLAPS

(* The part of the state the replay defence works on.                      *)
NoncesOK ==
  /\ inbox \in Seq(Requests \cup {Nil})
  /\ seen \in Seq(Nonces)
  /\ admitted \in Seq(Nonces)

(* The sequence s is the newest part of t, as long as the cache allows.    *)
Recent(s, t) ==
  /\ Len(s) = IF Len(t) < NonceCacheSize THEN Len(t) ELSE NonceCacheSize
  /\ \A k \in 1 .. Len(s) : s[k] = t[Len(t) - Len(s) + k]

CacheIsRecent == Recent(seen, admitted)

ReplayInv == NoncesOK /\ CacheIsRecent /\ ReplayDistance

-----------------------------------------------------------------------------
(* A full cache that drops its oldest nonce for a new one stays recent.    *)
LEMMA ShiftRecent ==
  ASSUME NEW s \in Seq(Nonces), NEW t \in Seq(Nonces), NEW n \in Nonces,
         NEW s2 \in Seq(Nonces), NEW t2 \in Seq(Nonces),
         Recent(s, t),
         Len(s) + 1 > NonceCacheSize,
         Len(t2) = Len(t) + 1,
         \A k \in 1 .. Len(t) : t2[k] = t[k],
         t2[Len(t) + 1] = n,
         Len(s2) = Len(s),
         \A k \in 1 .. Len(s) : s2[k] = IF k = Len(s) THEN n ELSE s[k + 1]
  PROVE  Recent(s2, t2)
<1>1. NonceCacheSize \in Nat /\ Len(s) \in Nat /\ Len(t) \in Nat
  BY RuntimeAssumption
<1>2. Len(s) = NonceCacheSize /\ NonceCacheSize <= Len(t)
  BY <1>1 DEF Recent
<1>3. ASSUME NEW k \in 1 .. Len(s2)
      PROVE  s2[k] = t2[Len(t2) - Len(s2) + k]
  <2>1. CASE k = Len(s)
    BY <1>1, <2>1
  <2>2. CASE k # Len(s)
    <3>1. k + 1 \in 1 .. Len(s)
      BY <1>1, <2>2
    <3>2. s2[k] = t[Len(t) - Len(s) + (k + 1)]
      BY <1>1, <2>2, <3>1 DEF Recent
    <3>3. Len(t) - Len(s) + (k + 1) \in 1 .. Len(t)
      BY <1>1, <1>2, <3>1
    <3>4. Len(t2) - Len(s2) + k = Len(t) - Len(s) + (k + 1)
      BY <1>1
    <3> QED
      BY <3>2, <3>3, <3>4
  <2> QED
    BY <2>1, <2>2
<1>4. Len(s2) = IF Len(t2) < NonceCacheSize THEN Len(t2) ELSE NonceCacheSize
  BY <1>1, <1>2
<1> QED
  BY <1>3, <1>4 DEF Recent

(* A cache with room that takes a new nonce in stays recent.               *)
LEMMA GrowRecent ==
  ASSUME NEW s \in Seq(Nonces), NEW t \in Seq(Nonces), NEW n \in Nonces,
         Recent(s, t), Len(s) + 1 <= NonceCacheSize
  PROVE  Recent(Append(s, n), Append(t, n))
<1> DEFINE s2 == Append(s, n)
           t2 == Append(t, n)
<1>1. /\ NonceCacheSize \in Nat /\ Len(s) \in Nat /\ Len(t) \in Nat
      /\ Len(s2) = Len(s) + 1 /\ \A k \in 1 .. Len(s) : s2[k] = s[k]
      /\ Len(t2) = Len(t) + 1 /\ \A k \in 1 .. Len(t) : t2[k] = t[k]
      /\ s2[Len(s) + 1] = n /\ t2[Len(t) + 1] = n
  BY RuntimeAssumption
<1> HIDE DEF s2, t2
<1>2. Len(s) = Len(t) /\ Len(t) < NonceCacheSize
  BY <1>1 DEF Recent
<1>3. ASSUME NEW k \in 1 .. Len(s2)
      PROVE  s2[k] = t2[Len(t2) - Len(s2) + k]
  <2>1. Len(t2) - Len(s2) + k = k
    BY <1>1, <1>2
  <2>2. k \in 1 .. Len(s) => s[k] = t[Len(t) - Len(s) + k]
    BY DEF Recent
  <2>3. k \in 1 .. Len(s) => Len(t) - Len(s) + k = k
    BY <1>1, <1>2
  <2> QED
    BY <1>1, <1>2, <2>1, <2>2, <2>3
<1>4. Recent(s2, t2)
  BY <1>1, <1>2, <1>3 DEF Recent
<1> QED
  BY <1>4 DEF s2, t2

(* Remembering a nonce keeps the cache the newest part of the admitted.    *)
LEMMA RememberRecent ==
  ASSUME NoncesOK, CacheIsRecent, NEW n \in Nonces
  PROVE  /\ Remember(n) \in Seq(Nonces)
         /\ Append(admitted, n) \in Seq(Nonces)
         /\ Recent(Remember(n), Append(admitted, n))
<1> DEFINE s1 == Append(seen, n)
           t2 == Append(admitted, n)
<1>1. /\ s1 \in Seq(Nonces)
      /\ Len(s1) = Len(seen) + 1
      /\ \A k \in 1 .. Len(seen) : s1[k] = seen[k]
      /\ s1[Len(seen) + 1] = n
      /\ seen \in Seq(Nonces) /\ Len(seen) \in Nat
  BY DEF NoncesOK
<1>2. /\ t2 \in Seq(Nonces)
      /\ Len(t2) = Len(admitted) + 1
      /\ \A k \in 1 .. Len(admitted) : t2[k] = admitted[k]
      /\ t2[Len(admitted) + 1] = n
      /\ admitted \in Seq(Nonces) /\ Len(admitted) \in Nat
  BY DEF NoncesOK
<1>3. NonceCacheSize \in Nat
  BY RuntimeAssumption
<1>4. CASE Len(seen) + 1 > NonceCacheSize
  <2>1. Remember(n) = Tail(s1)
    BY <1>4 DEF Remember
  <2> HIDE DEF s1, t2
  <2>2. /\ Tail(s1) \in Seq(Nonces)
        /\ Len(Tail(s1)) = Len(seen)
        /\ \A k \in 1 .. Len(seen) : Tail(s1)[k] = s1[k + 1]
    BY <1>1
  <2>3. \A k \in 1 .. Len(seen) : Tail(s1)[k] = IF k = Len(seen) THEN n ELSE seen[k + 1]
    BY <1>1, <2>2
  <2>4. Recent(Tail(s1), t2)
    BY <1>1, <1>2, <1>4, <2>2, <2>3, ShiftRecent DEF CacheIsRecent
  <2> QED
    BY <1>2, <2>1, <2>2, <2>4 DEF t2
<1>5. CASE ~(Len(seen) + 1 > NonceCacheSize)
  <2>1. Remember(n) = s1 /\ Len(seen) + 1 <= NonceCacheSize
    BY <1>1, <1>3, <1>5 DEF Remember
  <2>2. seen \in Seq(Nonces) /\ admitted \in Seq(Nonces) /\ Recent(seen, admitted)
    BY DEF NoncesOK, CacheIsRecent
  <2>3. Recent(s1, t2)
    BY <2>1, <2>2, GrowRecent
  <2> QED
    BY <1>1, <1>2, <2>1, <2>3 DEF t2
<1> QED
  BY <1>4, <1>5

(* A nonce the cache does not hold was admitted long ago, if ever.         *)
LEMMA UnseenIsFar ==
  ASSUME NoncesOK, CacheIsRecent, NEW n \in Nonces, n \notin Image(seen),
         NEW i \in DOMAIN admitted, admitted[i] = n
  PROVE  Len(admitted) + 1 - i > NonceCacheSize
<1>1. /\ Len(seen) \in Nat /\ Len(admitted) \in Nat /\ NonceCacheSize \in Nat
      /\ i \in 1 .. Len(admitted)
      /\ DOMAIN seen = 1 .. Len(seen)
  BY RuntimeAssumption DEF NoncesOK
<1>2. i <= Len(admitted) - Len(seen)
  <2> SUFFICES ASSUME i > Len(admitted) - Len(seen) PROVE FALSE
    BY <1>1
  <2> DEFINE k == i - (Len(admitted) - Len(seen))
  <2>1. k \in 1 .. Len(seen) /\ Len(admitted) - Len(seen) + k = i
    BY <1>1
  <2>2. seen[k] = admitted[i]
    BY <2>1 DEF CacheIsRecent, Recent
  <2> QED
    BY <1>1, <2>1, <2>2 DEF Image
<1> QED
  BY <1>1, <1>2 DEF CacheIsRecent, Recent

(* Admitting such a nonce keeps equal nonces apart.                        *)
LEMMA AdmitStep ==
  ASSUME ReplayInv, NEW n \in Nonces, n \notin Image(seen),
         admitted' = Append(admitted, n)
  PROVE  ReplayDistance'
<1>1. /\ DOMAIN admitted = 1 .. Len(admitted)
      /\ DOMAIN admitted' = 1 .. (Len(admitted) + 1)
      /\ \A k \in 1 .. Len(admitted) : admitted'[k] = admitted[k]
      /\ admitted'[Len(admitted) + 1] = n
      /\ Len(admitted) \in Nat
  BY DEF ReplayInv, NoncesOK
<1> SUFFICES ASSUME NEW i \in DOMAIN admitted', NEW j \in DOMAIN admitted',
                    i < j, admitted'[i] = admitted'[j]
             PROVE  j - i > NonceCacheSize
  BY DEF ReplayDistance
<1>2. i \in DOMAIN admitted /\ admitted'[i] = admitted[i]
  BY <1>1
<1>3. CASE j = Len(admitted) + 1
  <2>1. admitted[i] = n
    BY <1>1, <1>2, <1>3
  <2>2. Len(admitted) + 1 - i > NonceCacheSize
    BY <1>2, <2>1, UnseenIsFar DEF ReplayInv
  <2> QED
    BY <1>3, <2>2
<1>4. CASE j \in DOMAIN admitted
  BY <1>1, <1>2, <1>4 DEF ReplayInv, ReplayDistance
<1> QED
  BY <1>1, <1>3, <1>4

-----------------------------------------------------------------------------
LEMMA ReceiveStep ==
  ASSUME ReplayInv, Receive
  PROVE  ReplayInv'
<1> DEFINE r == Head(inbox)
<1>1. /\ inbox # <<>>
      /\ inbox' = Tail(inbox)
      /\ r = Nil => UNCHANGED <<seen, admitted>>
      /\ r # Nil => RememberNonce(r)
  BY DEF Receive, loopVars
<1>2. inbox' \in Seq(Requests \cup {Nil}) /\ r \in Requests \cup {Nil}
  BY <1>1 DEF ReplayInv, NoncesOK
<1>3. CASE UNCHANGED <<seen, admitted>>
  BY <1>2, <1>3 DEF ReplayInv, NoncesOK, CacheIsRecent, ReplayDistance
<1>4. CASE r # Nil /\ ~(Stale(r) \/ Replayed(r))
  <2>1. r.nonce \in Nonces
    BY <1>2, <1>4, RuntimeAssumption DEF RequestType
  <2>2. /\ r.nonce \notin Image(seen)
        /\ seen' = Remember(r.nonce)
        /\ admitted' = Append(admitted, r.nonce)
    BY <1>1, <1>4 DEF RememberNonce, Replayed
  <2>3. ReplayDistance'
    BY <2>1, <2>2, AdmitStep
  <2>4. seen' \in Seq(Nonces) /\ admitted' \in Seq(Nonces) /\ CacheIsRecent'
    BY <2>1, <2>2, RememberRecent DEF ReplayInv, CacheIsRecent
  <2> QED
    BY <1>2, <2>3, <2>4 DEF ReplayInv, NoncesOK
<1> QED
  BY <1>1, <1>3, <1>4 DEF RememberNonce

(* A restart forgets the cache and the process's past with it.             *)
LEMMA RestartStep ==
  ASSUME ReplayInv, Restart
  PROVE  ReplayInv'
<1>1. seen' = <<>> /\ admitted' = <<>> /\ inbox' \in {inbox, <<>>}
  BY DEF Restart
<1>2. NoncesOK'
  <2>1. /\ inbox \in Seq(Requests \cup {Nil}) /\ <<>> \in Seq(Requests \cup {Nil})
        /\ <<>> \in Seq(Nonces)
    BY DEF ReplayInv, NoncesOK
  <2> QED
    BY <1>1, <2>1 DEF NoncesOK
<1>3. CacheIsRecent'
  BY <1>1, RuntimeAssumption DEF CacheIsRecent, Recent
<1>4. ReplayDistance'
  BY <1>1 DEF ReplayDistance
<1> QED
  BY <1>2, <1>3, <1>4 DEF ReplayInv

(* Every other step leaves the cache and what it remembers alone.          *)
LEMMA OtherSteps ==
  ASSUME ReplayInv,
         UNCHANGED <<seen, admitted>>,
         inbox' \in Seq(Requests \cup {Nil})
  PROVE  ReplayInv'
  BY DEF ReplayInv, NoncesOK, CacheIsRecent, ReplayDistance

(* The inductive invariant of the replay defence.                          *)
THEOREM ReplayInvariance == Spec => []ReplayInv
<1>1. Init => ReplayInv
  BY RuntimeAssumption DEF Init, ReplayInv, NoncesOK, CacheIsRecent, Recent, ReplayDistance
<1>2. ReplayInv /\ [Next]_vars => ReplayInv'
  <2> SUFFICES ASSUME ReplayInv, [Next]_vars PROVE ReplayInv'
    OBVIOUS
  <2>1. CASE Receive
    BY <2>1, ReceiveStep
  <2>2. CASE Restart
    BY <2>2, RestartStep
  <2>3. ASSUME NEW m \in Requests \cup {Nil}, Deliver(m) PROVE ReplayInv'
    BY <2>3, OtherSteps DEF Deliver, loopVars, ReplayInv, NoncesOK
  <2>4. CASE Tick \/ Stop \/ RotationStep \/ UNCHANGED vars
    <3>1. UNCHANGED <<seen, admitted, inbox>>
      BY <2>4 DEF Tick, Stop, RotationStep, SnapshotSeeded, SnapshotSettled, loopVars, vars
    <3> QED
      BY <3>1, OtherSteps DEF ReplayInv, NoncesOK
  <2>5. CASE LoopStep /\ ~Receive
    <3>1. UNCHANGED <<seen, admitted, inbox>>
      BY <2>5 DEF LoopStep, RefuseReply, Infer, EmitChunk, HandlerReturns, HandlerThrows,
                  ReplySkill, Attest, AttestFails, AttestSkipped, Elsewhere
    <3> QED
      BY <3>1, OtherSteps DEF ReplayInv, NoncesOK
  <2> QED
    BY <2>1, <2>2, <2>3, <2>4, <2>5 DEF Next
<1> QED
  BY <1>1, <1>2, PTL DEF Spec

(* Replay defence for any cache size and any traffic: while the process    *)
(* lives, a nonce gets past rejectStale again only after NonceCacheSize    *)
(* others did.                                                             *)
THEOREM ReplayDefence == Spec => []ReplayDistance
<1>1. ReplayInv => ReplayDistance
  BY DEF ReplayInv
<1> QED
  BY ReplayInvariance, <1>1, PTL

-----------------------------------------------------------------------------
(* What callers were told                                                  *)

(* What was sent of each call: never anything of a call yet to come, no    *)
(* terminal answer while one is due, and as many chunks as were counted.   *)
Sending ==
  /\ \A i \in DOMAIN outbox : outbox[i].call \in 1 .. Len(calls)
  /\ phase \in {"refuse", "run", "return", "throw"} =>
       \A i \in DOMAIN outbox : outbox[i].call = Current => outbox[i].kind = "chunk"
  /\ phase = "run" =>
       Cardinality({i \in DOMAIN outbox : outbox[i].call = Current}) = chunks

(* What is to be attested was answered, and only earlier calls are.        *)
Attesting ==
  /\ \A k \in DOMAIN rep : rep[k].call <= Current /\ (phase # "idle" => rep[k].call < Current)
  /\ phase = "attest" =>
       \E m \in Image(outbox) : m.call = Current /\ m.kind = IF Succeeded THEN "ok" ELSE "err"

(* The attestation DirectCompute holds is that of the call in hand, once   *)
(* its inference is over.                                                  *)
Proving ==
  /\ phase = "run" /\ inferred => lastTee = Current
  /\ phase = "return" /\ Req.skill \in InferringSkills => lastTee = Current
  /\ phase = "attest" /\ Succeeded /\ Req.skill \in InferringSkills => lastTee = Current

AnswerInv ==
  /\ TypeOK
  /\ Sending /\ OneAnswer
  /\ Attesting /\ RepMatchesAnswers
  /\ Proving /\ TeeOfAnsweredCall
  /\ StatsMatchRep

LEMMA Longer ==
  ASSUME NEW S, NEW s \in Seq(S), NEW e \in S
  PROVE  /\ Append(s, e) \in Seq(S)
         /\ Len(s) \in Nat /\ Len(Append(s, e)) = Len(s) + 1
         /\ DOMAIN s = 1 .. Len(s) /\ DOMAIN Append(s, e) = 1 .. Len(s) + 1
         /\ \A i \in 1 .. Len(s) : Append(s, e)[i] = s[i]
         /\ Append(s, e)[Len(s) + 1] = e
  BY AppendProperties, LenProperties

(* The call in hand, and how a step leaves it.                             *)
LEMMA InHand ==
  ASSUME TypeOK, phase # "idle"
  PROVE  /\ Current \in 1 .. Len(calls) /\ Current \in Nat
         /\ calls[Current] \in [req : Requests, fate : Fates]
         /\ Req \in Requests
<1>1. calls \in Seq([req : Requests, fate : Fates]) /\ calls # <<>>
  BY DEF TypeOK
<1>2. Len(calls) \in Nat /\ Len(calls) # 0
  BY <1>1, LenProperties, EmptySeq
<1>3. Current \in 1 .. Len(calls)
  BY <1>2 DEF Current
<1>4. calls[Current] \in [req : Requests, fate : Fates]
  BY <1>1, <1>3, ElementOfSeq
<1> QED
  BY <1>2, <1>3, <1>4 DEF Current, Req

LEMMA CloseFacts ==
  ASSUME TypeOK, phase # "idle", NEW fate \in Fates, Close(fate)
  PROVE  /\ calls' \in Seq([req : Requests, fate : Fates])
         /\ calls' # <<>> /\ Current' = Current
         /\ Req' = Req /\ calls'[Current].fate = fate
<1> DEFINE c == [calls[Current] EXCEPT !.fate = fate]
<1>1. /\ calls \in Seq([req : Requests, fate : Fates]) /\ Current \in 1 .. Len(calls)
      /\ calls[Current] \in [req : Requests, fate : Fates]
  BY InHand DEF TypeOK
<1>2. c \in [req : Requests, fate : Fates] /\ c.req = calls[Current].req /\ c.fate = fate
  BY <1>1
<1>3. calls' = [calls EXCEPT ![Current] = c]
  BY DEF Close
<1> HIDE DEF c
<1>4. /\ calls' \in Seq([req : Requests, fate : Fates]) /\ Len(calls') = Len(calls)
      /\ calls'[Current] = c
  BY <1>1, <1>2, <1>3, ExceptSeq
<1>5. calls' # <<>>
  BY <1>1, <1>4, EmptySeq
<1> QED
  BY <1>2, <1>4, <1>5 DEF Current, Req

-----------------------------------------------------------------------------
(* Types                                                                   *)

LEMMA RememberType ==
  ASSUME TypeOK, NEW r \in Requests, RememberNonce(r)
  PROVE  seen' \in Seq(Nonces) /\ admitted' \in Seq(Nonces)
<1>1. seen \in Seq(Nonces) /\ admitted \in Seq(Nonces) /\ r.nonce \in Nonces
  BY RuntimeAssumption DEF TypeOK, RequestType
<1>2. /\ Append(seen, r.nonce) \in Seq(Nonces) /\ Append(seen, r.nonce) # <<>>
      /\ Append(admitted, r.nonce) \in Seq(Nonces)
  BY <1>1, AppendProperties, EmptySeq
<1>3. Tail(Append(seen, r.nonce)) \in Seq(Nonces)
  BY <1>2, HeadTailProperties
<1> QED
  BY <1>1, <1>2, <1>3 DEF RememberNonce, Remember

(* Taking a request out of the inbox makes it the call in hand.            *)
LEMMA ReceiveFacts ==
  ASSUME TypeOK, Receive, Head(inbox) # Nil
  PROVE  /\ Head(inbox) \in Requests
         /\ calls' \in Seq([req : Requests, fate : Fates]) /\ calls' # <<>>
         /\ Current' = Current + 1 /\ Current \in Nat
         /\ Req' = Head(inbox)
         /\ phase' \in {"refuse", "run"}
         /\ phase' = "run" => Req'.skill \in Skills
<1> DEFINE r == Head(inbox)
           c == [req |-> r, fate |-> IF Refused(r) THEN "refused" ELSE "open"]
<1>1. r \in Requests
  BY HeadTailProperties DEF TypeOK, Receive
<1>2. c \in [req : Requests, fate : Fates]
  BY <1>1 DEF Fates
<1>3. calls \in Seq([req : Requests, fate : Fates])
  BY DEF TypeOK
<1>4. calls' = Append(calls, c) /\ phase' = IF Refused(r) THEN "refuse" ELSE "run"
  BY DEF Receive
<1>5. c.req = r
  OBVIOUS
<1> HIDE DEF c
<1>6. /\ calls' \in Seq([req : Requests, fate : Fates])
      /\ Len(calls) \in Nat /\ Len(calls') = Len(calls) + 1 /\ calls'[Len(calls) + 1] = c
  BY <1>2, <1>3, <1>4, Longer
<1>7. calls' # <<>>
  BY <1>6, EmptySeq
<1> QED
  BY <1>1, <1>4, <1>5, <1>6, <1>7 DEF Current, Req, Refused, Registered

LEMMA ReceiveType ==
  ASSUME TypeOK, Receive
  PROVE  TypeOK'
<1>1. inbox' \in Seq(Requests \cup {Nil})
  BY HeadTailProperties DEF TypeOK, Receive
<1>2. CASE Head(inbox) = Nil
  BY <1>1, <1>2 DEF TypeOK, Receive, loopVars, repVars, snapVars, bounds, Current, Req
<1>3. CASE Head(inbox) # Nil
  <2>1. seen' \in Seq(Nonces) /\ admitted' \in Seq(Nonces)
    BY <1>3, ReceiveFacts, RememberType DEF Receive
  <2>2. /\ phase' \in Phases
        /\ calls' \in Seq([req : Requests, fate : Fates])
        /\ phase' # "idle" => calls' # <<>>
        /\ phase' \notin {"idle", "refuse"} => Req'.skill \in Skills
    BY <1>3, ReceiveFacts DEF Phases
  <2>3. chunks' = 0 /\ inferred' = FALSE /\ lastTee' = lastTee
    BY <1>3 DEF Receive
  <2> QED
    BY <1>1, <2>1, <2>2, <2>3 DEF TypeOK, Receive, repVars, snapVars, bounds
<1> QED
  BY <1>2, <1>3

(* A message the loop sends is one of the messages on the wire.            *)
LEMMA SentType ==
  ASSUME TypeOK, phase # "idle", NEW m \in {Reply(TRUE), Reply(FALSE), Chunk},
         Send(m) \/ SendFails(m)
  PROVE  m \in Messages /\ outbox' \in Seq(Messages) /\ faults' \in Nat
<1>1. Current \in Nat /\ chunks \in Nat
  BY InHand DEF TypeOK
<1>2. m \in Messages
  BY <1>1 DEF Reply, Chunk, Messages
<1>3. Append(outbox, m) \in Seq(Messages)
  BY <1>2, AppendProperties DEF TypeOK
<1>4. outbox \in Seq(Messages) /\ faults \in Nat
  BY DEF TypeOK
<1>5. CASE Send(m)
  BY <1>2, <1>3, <1>4, <1>5 DEF Send
<1>6. CASE SendFails(m)
  BY <1>2, <1>3, <1>4, <1>6 DEF SendFails
<1> QED
  BY <1>5, <1>6

LEMMA AnsweringType ==
  ASSUME TypeOK,
         RefuseReply \/ Infer \/ EmitChunk \/ HandlerReturns \/ HandlerThrows \/ ReplySkill
  PROVE  TypeOK'
<1> USE DEF Elsewhere, repVars, snapVars
<1>1. CASE RefuseReply
  <2>1. outbox' \in Seq(Messages) /\ faults' \in Nat
    BY <1>1, SentType DEF RefuseReply
  <2> QED
    BY <1>1, <2>1 DEF RefuseReply, TypeOK, Phases, Req, Current
<1>2. CASE Infer
  BY <1>2, InHand DEF Infer, TypeOK, Req, Current
<1>3. CASE EmitChunk
  <2>1. outbox' \in Seq(Messages) /\ faults' \in Nat
    BY <1>3, SentType DEF EmitChunk, Deltas
  <2> QED
    BY <1>3, <2>1 DEF EmitChunk, Deltas, TypeOK, Phases, Req, Current
<1>4. CASE HandlerReturns \/ HandlerThrows
  BY <1>4 DEF HandlerReturns, HandlerThrows, Completed, TypeOK, Phases, Req, Current
<1>5. CASE ReplySkill
  <2>1. outbox' \in Seq(Messages) /\ faults' \in Nat
    BY <1>5, SentType DEF ReplySkill
  <2>2. PICK fate \in Fates : Close(fate) /\ phase' \in {"idle", "attest"}
    BY <1>5 DEF ReplySkill, Escape, Fates
  <2>3. calls' \in Seq([req : Requests, fate : Fates]) /\ calls' # <<>> /\ Req' = Req
    BY <1>5, <2>2, CloseFacts DEF ReplySkill
  <2> QED
    BY <1>5, <2>1, <2>2, <2>3 DEF ReplySkill, TypeOK, Phases
<1> QED
  BY <1>1, <1>2, <1>3, <1>4, <1>5

(* The attestation, and the statistics that follow it.                     *)
LEMMA AttestFacts ==
  ASSUME TypeOK, phase = "attest"
  PROVE  /\ Req.skill \in Skills
         /\ Attestation \in Attestations
         /\ Bumped \in Counters
         /\ stats.calls \in Nat /\ stats.ok \in Nat
<1>1. Current \in Nat /\ Req.skill \in Skills /\ lastTee \in Nat \cup {Nil}
  BY InHand DEF TypeOK
<1>2. Attestation \in Attestations
  BY <1>1 DEF Attestation, Attestations, Succeeded
<1>3. stats \in Counters
  BY DEF TypeOK
<1> QED
  BY <1>1, <1>2, <1>3 DEF Bumped, Counters, One

LEMMA AttestType ==
  ASSUME TypeOK, Attest
  PROVE  TypeOK'
<1>1. rep' \in Seq(Attestations) /\ stats' \in Counters
  <2>1. rep' = Append(rep, Attestation) /\ Attestation \in Attestations /\ rep \in Seq(Attestations)
    BY AttestFacts DEF Attest, TypeOK
  <2>2. stats' \in Counters
    BY AttestFacts DEF Attest
  <2> QED
    BY <2>1, <2>2, AppendProperties
<1>2. calls' \in Seq([req : Requests, fate : Fates]) /\ phase' = "idle"
  BY CloseFacts DEF Attest, Fates
<1>3. /\ rotation' \in {"idle", "seeding", "appending"}
      /\ snapshots' \in Seq([stats : Counters, rep : Seq(Attestations)])
  <2>1. SnapshotOf(stats', rep') \in [stats : Counters, rep : Seq(Attestations)]
    BY <1>1 DEF SnapshotOf
  <2>2. Append(snapshots, SnapshotOf(stats', rep')) \in Seq([stats : Counters, rep : Seq(Attestations)])
    BY <2>1, AppendProperties DEF TypeOK
  <2> QED
    BY <2>2 DEF Attest, MaybeSnapshot, snapVars, TypeOK
<1> QED
  BY <1>1, <1>2, <1>3 DEF Attest, TypeOK, Phases, bounds

LEMMA UnattestedType ==
  ASSUME TypeOK, AttestFails \/ AttestSkipped
  PROVE  TypeOK'
<1>1. PICK fate \in Fates : Close(fate) /\ phase' = "idle"
  BY DEF AttestFails, AttestSkipped, Escape, Fates
<1>2. calls' \in Seq([req : Requests, fate : Fates])
  BY <1>1, CloseFacts DEF AttestFails, AttestSkipped
<1>3. CASE AttestFails
  BY <1>1, <1>2, <1>3 DEF AttestFails, TypeOK, Phases, snapVars
<1>4. CASE AttestSkipped
  BY <1>1, <1>2, <1>4 DEF AttestSkipped, TypeOK, Phases, repVars, snapVars, bounds
<1> QED
  BY <1>3, <1>4

LEMMA RotationType ==
  ASSUME TypeOK, RotationStep
  PROVE  TypeOK'
<1>1. CASE SnapshotSeeded
  <2>1. SnapshotOf(stats, rep) \in [stats : Counters, rep : Seq(Attestations)]
    BY DEF SnapshotOf, TypeOK
  <2>2. snapshots' \in Seq([stats : Counters, rep : Seq(Attestations)])
    BY <1>1, <2>1, AppendProperties DEF SnapshotSeeded, TypeOK
  <2> QED
    BY <1>1, <2>2 DEF SnapshotSeeded, TypeOK, loopVars, repVars, bounds, Req, Current
<1>2. CASE SnapshotSettled
  BY <1>2 DEF SnapshotSettled, TypeOK, loopVars, repVars, bounds, Req, Current
<1> QED
  BY <1>1, <1>2 DEF RotationStep

LEMMA EnvironmentType ==
  ASSUME TypeOK, Tick \/ Stop \/ UNCHANGED vars \/ \E m \in Requests \cup {Nil} : Deliver(m)
  PROVE  TypeOK'
<1> USE DEF TypeOK, loopVars, repVars, snapVars, bounds, Req, Current
<1>1. CASE Tick
  BY <1>1 DEF Tick
<1>2. CASE Stop
  BY <1>2 DEF Stop
<1>3. CASE UNCHANGED vars
  BY <1>3 DEF vars
<1>4. ASSUME NEW m \in Requests \cup {Nil}, Deliver(m) PROVE TypeOK'
  <2>1. inbox' \in Seq(Requests \cup {Nil})
    BY <1>4, AppendProperties DEF Deliver
  <2> QED
    BY <1>4, <2>1 DEF Deliver
<1> QED
  BY <1>1, <1>2, <1>3, <1>4

LEMMA ZeroType == ZeroStats \in Counters
  BY DEF ZeroStats, Counters

LEMMA RestartType ==
  ASSUME TypeOK, Restart
  PROVE  TypeOK'
<1>1. /\ <<>> \in Seq(Requests \cup {Nil}) /\ <<>> \in Seq(Nonces) /\ <<>> \in Seq(Attestations)
  BY EmptySeq
<1>2. inbox' \in Seq(Requests \cup {Nil})
  BY <1>1 DEF TypeOK, Restart
<1>3. phase' = "idle" /\ UNCHANGED <<now, calls, snapshots, outbox, delivered, faults>>
  BY DEF Restart
<1>4. /\ running' \in BOOLEAN /\ seen' \in Seq(Nonces) /\ admitted' \in Seq(Nonces)
      /\ chunks' \in Nat /\ inferred' \in BOOLEAN /\ lastTee' \in Nat \cup {Nil}
      /\ rep' \in Seq(Attestations) /\ repRejected' \in BOOLEAN /\ stats' \in Counters
      /\ rotation' \in {"idle", "seeding", "appending"} /\ restarts' \in Nat
  <2>1. restarts' \in Nat
    BY DEF Restart, TypeOK
  <2>2. /\ running' = TRUE /\ seen' = <<>> /\ admitted' = <<>> /\ chunks' = 0
        /\ inferred' = FALSE /\ lastTee' = Nil /\ rep' = <<>> /\ repRejected' = FALSE
        /\ stats' = ZeroStats /\ rotation' = "idle"
    BY DEF Restart
  <2> QED
    BY <1>1, <2>1, <2>2, ZeroType
<1> QED
  BY <1>2, <1>3, <1>4 DEF TypeOK, Phases

LEMMA TypeStep ==
  ASSUME TypeOK, [Next]_vars
  PROVE  TypeOK'
  BY ReceiveType, AnsweringType, AttestType, UnattestedType, RotationType, EnvironmentType,
     RestartType DEF Next, LoopStep

-----------------------------------------------------------------------------
(* One answer                                                              *)

Answering == phase \in {"refuse", "run", "return", "throw"}

(* What was sent of the call in hand.                                      *)
SentNow(o) == {i \in DOMAIN o : o[i].call = Current}

LEMMA SentFinite ==
  ASSUME TypeOK
  PROVE  IsFiniteSet(SentNow(outbox)) /\ Len(outbox) \in Nat /\ DOMAIN outbox = 1 .. Len(outbox)
<1>1. Len(outbox) \in Nat /\ DOMAIN outbox = 1 .. Len(outbox)
  BY LenProperties DEF TypeOK
<1>2. IsFiniteSet(1 .. Len(outbox))
  BY <1>1, FS_Interval
<1>3. SentNow(outbox) \in SUBSET (1 .. Len(outbox))
  BY <1>1 DEF SentNow
<1> QED
  BY <1>1, <1>2, <1>3, FS_Subset

(* A message of the call in hand, sent while its answer is due, keeps      *)
(* every call's messages in order.                                         *)
LEMMA MessageSent ==
  ASSUME TypeOK, Sending, OneAnswer, Answering,
         NEW m \in {Reply(TRUE), Reply(FALSE), Chunk}, m = Chunk => phase = "run",
         outbox' = Append(outbox, m)
  PROVE  /\ OneAnswer'
         /\ \A i \in DOMAIN outbox' : outbox'[i].call \in 1 .. Len(calls)
         /\ m = Chunk =>
              /\ \A i \in DOMAIN outbox' : outbox'[i].call = Current => outbox'[i].kind = "chunk"
              /\ Cardinality(SentNow(outbox')) = chunks + 1
<1> DEFINE n == Len(outbox)
<1>1. /\ m.call = Current /\ Current \in 1 .. Len(calls)
      /\ m.kind = "chunk" => m = Chunk /\ m.seq = chunks
      /\ m = Chunk => m.kind = "chunk"
  BY InHand DEF Reply, Chunk, Answering
<1>2. m \in Messages
  BY InHand DEF Reply, Chunk, Messages, Answering, TypeOK
<1>3. /\ n \in Nat /\ DOMAIN outbox = 1 .. n /\ DOMAIN outbox' = 1 .. n + 1
      /\ \A i \in 1 .. n : outbox'[i] = outbox[i]
      /\ outbox'[n + 1] = m
  BY <1>2, Longer DEF TypeOK
<1> HIDE DEF n
<1>4. SentNow(outbox) = {i \in 1 .. n : outbox'[i].call = outbox'[n + 1].call}
  BY <1>1, <1>3 DEF SentNow
<1>5. \A i \in SentNow(outbox) : outbox[i].kind = "chunk"
  BY DEF Sending, Answering, SentNow
<1>6. phase = "run" => Cardinality(SentNow(outbox)) = chunks
  BY DEF Sending, SentNow
<1>7. OneAnswer'
  <2> DEFINE Before(o, j) == {i \in 1 .. j - 1 : o[i].call = o[j].call}
  <2> SUFFICES ASSUME NEW j \in 1 .. n + 1
               PROVE  /\ \A i \in Before(outbox', j) : ~Terminal(outbox'[i])
                      /\ outbox'[j].kind = "chunk" =>
                           outbox'[j].seq = Cardinality(Before(outbox', j))
    BY <1>3 DEF OneAnswer, Terminal
  <2>1. CASE j \in 1 .. n
    <3>1. Before(outbox', j) = Before(outbox, j)
      BY <1>3, <2>1
    <3>2. \A i \in Before(outbox, j) : i \in 1 .. n /\ outbox'[i] = outbox[i]
      BY <1>3, <2>1
    <3>3. outbox'[j] = outbox[j] /\ j \in DOMAIN outbox
      BY <1>3, <2>1
    <3>4. /\ \A i \in Before(outbox, j) : ~Terminal(outbox[i])
          /\ outbox[j].kind = "chunk" => outbox[j].seq = Cardinality(Before(outbox, j))
      BY <3>3 DEF OneAnswer
    <3> HIDE DEF Before
    <3> QED
      BY <3>1, <3>2, <3>3, <3>4 DEF Terminal
  <2>2. CASE j = n + 1
    <3>1. Before(outbox', j) = SentNow(outbox)
      BY <1>3, <1>4, <2>2
    <3>2. \A i \in SentNow(outbox) : outbox'[i] = outbox[i]
      BY <1>3 DEF SentNow
    <3> HIDE DEF Before
    <3>3. \A i \in Before(outbox', j) : ~Terminal(outbox'[i])
      BY <1>5, <3>1, <3>2 DEF Terminal
    <3>4. outbox'[j].kind = "chunk" => outbox'[j].seq = Cardinality(Before(outbox', j))
      BY <1>1, <1>3, <1>6, <2>2, <3>1
    <3> QED
      BY <3>3, <3>4
  <2>3. j \in 1 .. n \/ j = n + 1
    BY <1>3
  <2> HIDE DEF Before
  <2> QED
    BY <2>1, <2>2, <2>3
<1>8. \A i \in DOMAIN outbox' : outbox'[i].call \in 1 .. Len(calls)
  <2>1. \A i \in 1 .. n : outbox[i].call \in 1 .. Len(calls)
    BY <1>3 DEF Sending
  <2> QED
    BY <1>1, <1>3, <2>1
<1>9. ASSUME m = Chunk
      PROVE  /\ \A i \in DOMAIN outbox' : outbox'[i].call = Current => outbox'[i].kind = "chunk"
             /\ Cardinality(SentNow(outbox')) = chunks + 1
  <2>1. \A i \in 1 .. n : outbox[i].call = Current => outbox[i].kind = "chunk"
    BY <1>3, <1>5 DEF SentNow
  <2>2. \A i \in DOMAIN outbox' : outbox'[i].call = Current => outbox'[i].kind = "chunk"
    BY <1>1, <1>3, <1>9, <2>1
  <2>3. SentNow(outbox') = SentNow(outbox) \cup {n + 1}
    BY <1>1, <1>3 DEF SentNow
  <2>4. n + 1 \notin SentNow(outbox)
    BY <1>3 DEF SentNow
  <2>5. Cardinality(SentNow(outbox')) = chunks + 1
    BY <1>6, <1>9, <2>3, <2>4, SentFinite, FS_AddElement
  <2> QED
    BY <2>2, <2>5
<1> QED
  BY <1>7, <1>8, <1>9

(* A step that sends nothing and leaves the call in hand, its phase on the *)
(* way to the answer or behind it.                                         *)
LEMMA SilentSends ==
  ASSUME TypeOK, Sending, OneAnswer, UNCHANGED outbox, Len(calls') = Len(calls),
         phase' = "run" => phase = "run" /\ UNCHANGED chunks,
         Answering' => Answering
  PROVE  Sending' /\ OneAnswer'
<1>1. Current' = Current
  BY DEF Current
<1> QED
  BY <1>1 DEF Sending, OneAnswer, Terminal, Answering

LEMMA ReceiveSends ==
  ASSUME TypeOK, Sending, OneAnswer, Receive
  PROVE  Sending' /\ OneAnswer'
<1>1. outbox' = outbox /\ phase = "idle"
  BY DEF Receive
<1>2. OneAnswer'
  BY <1>1 DEF OneAnswer, Terminal
<1>3. CASE Head(inbox) = Nil
  <2>1. UNCHANGED <<phase, calls, chunks>>
    BY <1>3 DEF Receive, loopVars
  <2> QED
    BY <1>1, <2>1, SilentSends DEF Answering
<1>4. CASE Head(inbox) # Nil
  <2>1. Current' = Current + 1 /\ Current \in Nat /\ chunks' = 0
    BY <1>4, ReceiveFacts DEF Receive
  <2>2. \A i \in DOMAIN outbox : outbox[i].call \in 1 .. Len(calls)
    BY DEF Sending
  <2>3. \A i \in DOMAIN outbox : outbox[i].call # Current'
    BY <2>1, <2>2 DEF Current
  <2>4. {i \in DOMAIN outbox' : outbox'[i].call = Current'} = {}
    BY <1>1, <2>3
  <2>5. \A i \in DOMAIN outbox' : outbox'[i].call \in 1 .. Len(calls')
    BY <1>1, <2>1, <2>2 DEF Current
  <2> QED
    BY <1>1, <1>2, <2>1, <2>3, <2>4, <2>5, FS_EmptySet DEF Sending
<1> QED
  BY <1>2, <1>3, <1>4

LEMMA AnswerSends ==
  ASSUME TypeOK, Sending, OneAnswer, RefuseReply \/ EmitChunk \/ ReplySkill
  PROVE  Sending' /\ OneAnswer'
<1>1. CASE RefuseReply
  <2>1. UNCHANGED calls /\ phase' = "idle" /\ Answering
        /\ (outbox' = outbox \/ outbox' = Append(outbox, Reply(FALSE)))
    BY <1>1 DEF RefuseReply, Send, SendFails, Answering
  <2>2. CASE outbox' = outbox
    BY <2>1, <2>2, SilentSends DEF Answering
  <2>3. CASE outbox' = Append(outbox, Reply(FALSE))
    BY <2>1, <2>3, MessageSent DEF Sending, Reply, Chunk, Answering
  <2> QED
    BY <2>1, <2>2, <2>3
<1>2. CASE EmitChunk
  <2>1. UNCHANGED calls /\ phase = "run" /\ Answering
        /\ (outbox' = outbox \/ outbox' = Append(outbox, Chunk))
        /\ (phase' = "run" => outbox' = Append(outbox, Chunk) /\ chunks' = chunks + 1)
        /\ phase' \in {"run", "throw"}
    BY <1>2 DEF EmitChunk, Deltas, Send, SendFails, Answering
  <2>2. CASE outbox' = outbox /\ phase' = "throw"
    BY <2>1, <2>2, SilentSends DEF Answering
  <2>3. CASE outbox' = Append(outbox, Chunk)
    <3>1. /\ OneAnswer'
          /\ \A i \in DOMAIN outbox' : outbox'[i].call \in 1 .. Len(calls)
          /\ \A i \in DOMAIN outbox' : outbox'[i].call = Current => outbox'[i].kind = "chunk"
          /\ Cardinality(SentNow(outbox')) = chunks + 1
      BY <2>1, <2>3, MessageSent
    <3>2. Current' = Current
      BY <2>1 DEF Current
    <3> QED
      BY <2>1, <3>1, <3>2 DEF Sending, SentNow
  <2> QED
    BY <2>1, <2>2, <2>3
<1>3. CASE ReplySkill
  <2>1. PICK m \in {Reply(TRUE), Reply(FALSE)} :
          outbox' = outbox \/ outbox' = Append(outbox, m)
    BY <1>3 DEF ReplySkill, Send, SendFails
  <2>2. Answering /\ phase' \in {"idle", "attest"} /\ phase # "idle"
    BY <1>3 DEF ReplySkill, Escape, Answering
  <2>3. \E fate \in Fates : Close(fate)
    BY <1>3 DEF ReplySkill, Escape, Fates
  <2>4. Len(calls') = Len(calls)
    BY <2>2, <2>3, CloseFacts DEF Current
  <2>5. CASE outbox' = outbox
    BY <2>2, <2>4, <2>5, SilentSends DEF Answering
  <2>6. CASE outbox' = Append(outbox, m)
    BY <2>2, <2>4, <2>6, MessageSent DEF Sending, Reply, Chunk
  <2> QED
    BY <2>1, <2>5, <2>6
<1> QED
  BY <1>1, <1>2, <1>3

LEMMA SendingStep ==
  ASSUME TypeOK, Sending, OneAnswer, [Next]_vars
  PROVE  Sending' /\ OneAnswer'
<1>1. CASE Receive
  BY <1>1, ReceiveSends
<1>2. CASE RefuseReply \/ EmitChunk \/ ReplySkill
  BY <1>2, AnswerSends
<1>3. CASE Infer \/ HandlerReturns \/ HandlerThrows
  <2>1. /\ UNCHANGED <<outbox, calls, chunks>> /\ Answering
        /\ phase' = "run" => phase = "run"
    BY <1>3 DEF Infer, HandlerReturns, HandlerThrows, Completed, Answering
  <2> QED
    BY <2>1, SilentSends
<1>4. CASE Attest \/ AttestFails \/ AttestSkipped
  <2>1. UNCHANGED outbox /\ phase' = "idle" /\ phase # "idle"
    BY <1>4 DEF Attest, AttestFails, AttestSkipped, Escape
  <2>2. \E fate \in Fates : Close(fate)
    BY <1>4 DEF Attest, AttestFails, AttestSkipped, Escape, Fates
  <2>3. Len(calls') = Len(calls)
    BY <2>1, <2>2, CloseFacts DEF Current
  <2> QED
    BY <2>1, <2>3, SilentSends DEF Answering
<1>5. CASE Restart
  <2>1. UNCHANGED <<outbox, calls>> /\ phase' = "idle"
    BY <1>5 DEF Restart
  <2> QED
    BY <2>1, SilentSends DEF Answering
<1>6. CASE Tick \/ Stop \/ RotationStep \/ UNCHANGED vars \/ \E m \in Requests \cup {Nil} : Deliver(m)
  <2>1. UNCHANGED <<outbox, calls, phase, chunks>>
    BY <1>6 DEF Tick, Stop, Deliver, RotationStep, SnapshotSeeded, SnapshotSettled, loopVars, vars
  <2> QED
    BY <2>1, SilentSends DEF Answering
<1> QED
  BY <1>1, <1>2, <1>3, <1>4, <1>5, <1>6 DEF Next, LoopStep

-----------------------------------------------------------------------------
(* Reputation and answers                                                  *)

(* What was sent stays sent.                                               *)
LEMMA SentStays ==
  ASSUME TypeOK, [Next]_vars
  PROVE  Image(outbox) \subseteq Image(outbox')
<1>1. ASSUME NEW m \in {Reply(TRUE), Reply(FALSE), Chunk}, phase # "idle",
             outbox' = Append(outbox, m)
      PROVE  Image(outbox) \subseteq Image(outbox')
  <2>1. m \in Messages
    BY <1>1, InHand DEF Reply, Chunk, Messages, TypeOK
  <2>2. /\ DOMAIN outbox \subseteq DOMAIN outbox'
        /\ \A i \in DOMAIN outbox : outbox'[i] = outbox[i]
    BY <1>1, <2>1, Longer DEF TypeOK
  <2> QED
    BY <2>2 DEF Image
<1>2. CASE RefuseReply \/ EmitChunk \/ ReplySkill
  <2>1. phase # "idle"
    BY <1>2 DEF RefuseReply, EmitChunk, Deltas, ReplySkill
  <2>2. \/ outbox' = outbox
        \/ \E m \in {Reply(TRUE), Reply(FALSE), Chunk} : outbox' = Append(outbox, m)
    BY <1>2 DEF RefuseReply, EmitChunk, ReplySkill, Send, SendFails
  <2> QED
    BY <1>1, <2>1, <2>2
<1>3. CASE LoopStep /\ ~(RefuseReply \/ EmitChunk \/ ReplySkill)
  <2>1. UNCHANGED outbox
    BY <1>3 DEF LoopStep, Receive, Infer, HandlerReturns, HandlerThrows, Attest, AttestFails,
                AttestSkipped
  <2> QED
    BY <2>1
<1>4. CASE Tick \/ Stop \/ Restart \/ RotationStep \/ UNCHANGED vars
           \/ \E m \in Requests \cup {Nil} : Deliver(m)
  <2>1. UNCHANGED outbox
    BY <1>4 DEF Tick, Stop, Restart, Deliver, RotationStep, SnapshotSeeded, SnapshotSettled, vars
  <2> QED
    BY <2>1
<1> QED
  BY <1>2, <1>3, <1>4 DEF Next

(* A step that attests nothing and takes no call in hand.                  *)
LEMMA UnattestingStep ==
  ASSUME Attesting, RepMatchesAnswers, UNCHANGED rep, Current' = Current,
         phase' # "idle" => phase # "idle",
         phase' = "attest" => phase = "attest" /\ UNCHANGED <<calls, outbox>>,
         Image(outbox) \subseteq Image(outbox')
  PROVE  Attesting' /\ RepMatchesAnswers'
<1>1. Attesting'
  <2>1. phase' = "attest" => UNCHANGED <<calls, outbox>> /\ Succeeded' = Succeeded
    BY DEF Succeeded
  <2> QED
    BY <2>1 DEF Attesting
<1>2. RepMatchesAnswers'
  BY DEF RepMatchesAnswers
<1> QED
  BY <1>1, <1>2

LEMMA ReceiveAttests ==
  ASSUME TypeOK, Attesting, RepMatchesAnswers, Receive
  PROVE  Attesting' /\ RepMatchesAnswers'
<1>1. UNCHANGED <<rep, outbox>> /\ phase = "idle"
  BY DEF Receive, repVars
<1>2. CASE Head(inbox) = Nil
  <2>1. UNCHANGED <<calls, phase>>
    BY <1>2 DEF Receive, loopVars
  <2> QED
    BY <1>1, <2>1, UnattestingStep DEF Current
<1>3. CASE Head(inbox) # Nil
  <2>1. Current' = Current + 1 /\ Current \in Nat /\ phase' \in {"refuse", "run"}
    BY <1>3, ReceiveFacts
  <2>2. \A k \in DOMAIN rep : rep[k].call \in Nat /\ rep[k].call <= Current
    <3>1. \A k \in DOMAIN rep : rep[k] \in Attestations
      BY ElementOfSeq, LenProperties DEF TypeOK
    <3> QED
      BY <3>1 DEF Attesting, Attestations
  <2>3. \A k \in DOMAIN rep' : rep'[k].call < Current'
    BY <1>1, <2>1, <2>2
  <2>4. \A k \in DOMAIN rep' : rep'[k].call <= Current' /\ rep'[k].call < Current'
    BY <1>1, <2>1, <2>2, <2>3
  <2>5. Attesting'
    BY <2>1, <2>4 DEF Attesting
  <2>6. RepMatchesAnswers'
    BY <1>1 DEF RepMatchesAnswers
  <2> QED
    BY <2>5, <2>6
<1> QED
  BY <1>2, <1>3

(* The answer that is sent is the one the attestation will be of.          *)
LEMMA ReplyAttests ==
  ASSUME TypeOK, Attesting, RepMatchesAnswers, ReplySkill,
         Image(outbox) \subseteq Image(outbox')
  PROVE  Attesting' /\ RepMatchesAnswers'
<1>1. /\ phase \in {"return", "throw"} /\ phase # "idle"
      /\ UNCHANGED rep
  BY DEF ReplySkill, Elsewhere, repVars
<1>2. CASE SendFails(Reply(phase = "return")) /\ Escape("unsent")
  <2>1. phase' = "idle" /\ Close("unsent")
    BY <1>2 DEF Escape
  <2>2. Current' = Current
    BY <1>1, <2>1, CloseFacts DEF Fates
  <2> QED
    BY <1>1, <2>1, <2>2, UnattestingStep
<1>3. CASE /\ Send(Reply(phase = "return"))
           /\ Close(IF phase = "return" THEN "answered" ELSE "failed")
           /\ phase' = "attest"
  <2> DEFINE m == Reply(phase = "return")
  <2>1. /\ Current' = Current
        /\ calls'[Current].fate = IF phase = "return" THEN "answered" ELSE "failed"
    BY <1>1, <1>3, CloseFacts DEF Fates
  <2>2. Succeeded' = (phase = "return")
    BY <1>1, <2>1 DEF Succeeded
  <2>3. m.call = Current /\ m.kind = IF phase = "return" THEN "ok" ELSE "err"
    BY DEF Reply
  <2>4. m \in Image(outbox')
    <3>1. m \in Messages /\ outbox' = Append(outbox, m)
      BY <1>1, <1>3, InHand DEF Send, Reply, Messages
    <3> HIDE DEF m
    <3>2. Len(outbox) + 1 \in DOMAIN outbox' /\ outbox'[Len(outbox) + 1] = m
      BY <3>1, Longer DEF TypeOK
    <3> QED
      BY <3>2 DEF Image
  <2>5. \A k \in DOMAIN rep' : rep'[k].call <= Current' /\ rep'[k].call < Current'
    BY <1>1, <2>1 DEF Attesting
  <2> HIDE DEF m
  <2>6. \E a \in Image(outbox') : a.call = Current' /\ a.kind = IF Succeeded' THEN "ok" ELSE "err"
    BY <2>1, <2>2, <2>3, <2>4
  <2>7. Attesting'
    BY <1>3, <2>5, <2>6 DEF Attesting
  <2>8. RepMatchesAnswers'
    BY <1>1 DEF RepMatchesAnswers
  <2> QED
    BY <2>7, <2>8
<1> QED
  BY <1>2, <1>3 DEF ReplySkill

(* The new attestation is the one of the answer just sent.                 *)
LEMMA AttestAttests ==
  ASSUME TypeOK, Attesting, RepMatchesAnswers, Attest
  PROVE  Attesting' /\ RepMatchesAnswers'
<1> DEFINE n == Len(rep)
<1>1. /\ phase = "attest" /\ phase' = "idle" /\ UNCHANGED outbox
      /\ rep' = Append(rep, Attestation)
      /\ Close("attested")
  BY DEF Attest
<1>2. Current' = Current
  BY <1>1, CloseFacts DEF Fates
<1>3. /\ n \in Nat /\ DOMAIN rep = 1 .. n /\ DOMAIN rep' = 1 .. n + 1
      /\ \A k \in 1 .. n : rep'[k] = rep[k]
      /\ rep'[n + 1] = Attestation
  BY <1>1, AttestFacts, Longer DEF TypeOK
<1>4. Attestation.call = Current /\ Attestation.ok = Succeeded /\ Current \in Nat
  BY <1>1, InHand DEF Attestation
<1>5. \A k \in 1 .. n : rep[k].call < Current /\ rep[k].call <= Current
  BY <1>1, <1>3 DEF Attesting
<1> HIDE DEF n
<1>6. \A k \in 1 .. n + 1 : rep'[k].call <= Current'
  BY <1>2, <1>3, <1>4, <1>5
<1>7. Attesting'
  BY <1>1, <1>3, <1>6 DEF Attesting
<1>8. RepMatchesAnswers'
  <2> SUFFICES ASSUME NEW k \in 1 .. n + 1
               PROVE  /\ \E m \in Image(outbox') :
                           m.call = rep'[k].call /\ m.kind = IF rep'[k].ok THEN "ok" ELSE "err"
                      /\ \A l \in 1 .. k - 1 : rep'[l].call < rep'[k].call
    BY <1>3 DEF RepMatchesAnswers
  <2>1. CASE k \in 1 .. n
    <3>1. rep'[k] = rep[k] /\ \A l \in 1 .. k - 1 : rep'[l] = rep[l]
      BY <1>3, <2>1
    <3> QED
      BY <1>1, <1>3, <2>1, <3>1 DEF RepMatchesAnswers
  <2>2. CASE k = n + 1
    <3>1. rep'[k] = Attestation /\ \A l \in 1 .. k - 1 : rep'[l] = rep[l] /\ l \in 1 .. n
      BY <1>3, <2>2
    <3>2. \E m \in Image(outbox') :
            m.call = Current /\ m.kind = IF Succeeded THEN "ok" ELSE "err"
      BY <1>1 DEF Attesting
    <3> QED
      BY <1>4, <1>5, <3>1, <3>2
  <2> QED
    BY <1>3, <2>1, <2>2
<1> QED
  BY <1>7, <1>8

LEMMA AttestingStep ==
  ASSUME TypeOK, Attesting, RepMatchesAnswers, [Next]_vars
  PROVE  Attesting' /\ RepMatchesAnswers'
<1>0. Image(outbox) \subseteq Image(outbox')
  BY SentStays
<1>1. CASE Receive
  BY <1>1, ReceiveAttests
<1>2. CASE ReplySkill
  BY <1>0, <1>2, ReplyAttests
<1>3. CASE Attest
  BY <1>3, AttestAttests
<1>4. CASE RefuseReply \/ Infer \/ EmitChunk \/ HandlerReturns \/ HandlerThrows
  <2>1. /\ UNCHANGED <<calls, rep>> /\ phase # "idle" /\ phase' # "attest"
    BY <1>4 DEF RefuseReply, Infer, EmitChunk, Deltas, HandlerReturns, HandlerThrows, Completed,
                Elsewhere, repVars
  <2> QED
    BY <1>0, <2>1, UnattestingStep DEF Current
<1>5. CASE AttestFails \/ AttestSkipped
  <2>1. UNCHANGED rep /\ phase' = "idle" /\ phase # "idle"
    BY <1>5 DEF AttestFails, AttestSkipped, Escape, repVars
  <2>2. \E fate \in Fates : Close(fate)
    BY <1>5 DEF AttestFails, AttestSkipped, Escape, Fates
  <2> QED
    BY <1>0, <2>1, <2>2, CloseFacts, UnattestingStep
<1>6. CASE Restart
  <2>1. rep' = <<>> /\ phase' = "idle"
    BY <1>6 DEF Restart
  <2> QED
    BY <2>1 DEF Attesting, RepMatchesAnswers
<1>7. CASE Tick \/ Stop \/ RotationStep \/ UNCHANGED vars \/ \E m \in Requests \cup {Nil} : Deliver(m)
  <2>1. UNCHANGED <<outbox, calls, phase, rep>>
    BY <1>7 DEF Tick, Stop, Deliver, RotationStep, SnapshotSeeded, SnapshotSettled, loopVars,
                repVars, vars
  <2> QED
    BY <2>1, UnattestingStep DEF Current
<1> QED
  BY <1>1, <1>2, <1>3, <1>4, <1>5, <1>6, <1>7 DEF Next, LoopStep

-----------------------------------------------------------------------------
(* The proof of the inference                                              *)

LEMMA ProvingStep ==
  ASSUME TypeOK, Proving, TeeOfAnsweredCall, [Next]_vars
  PROVE  Proving' /\ TeeOfAnsweredCall'
<1>1. CASE Receive
  <2>1. UNCHANGED rep /\ phase = "idle"
    BY <1>1 DEF Receive, repVars
  <2>2. CASE Head(inbox) = Nil
    <3>1. UNCHANGED <<phase, calls>>
      BY <1>1, <2>2 DEF Receive, loopVars
    <3> QED
      BY <2>1, <3>1 DEF Proving, TeeOfAnsweredCall
  <2>3. CASE Head(inbox) # Nil
    <3>1. phase' \in {"refuse", "run"} /\ inferred' = FALSE
      BY <1>1, <2>3, ReceiveFacts DEF Receive
    <3> QED
      BY <2>1, <3>1 DEF Proving, TeeOfAnsweredCall
  <2> QED
    BY <2>2, <2>3
<1>2. CASE Infer
  <2>1. UNCHANGED <<rep, calls, phase>> /\ lastTee' = Current /\ phase = "run"
    BY <1>2 DEF Infer, Elsewhere, repVars
  <2> QED
    BY <2>1 DEF Proving, TeeOfAnsweredCall, Current, Req, Succeeded
<1>3. CASE RefuseReply \/ EmitChunk \/ HandlerThrows
  <2>1. /\ UNCHANGED <<rep, calls, lastTee, inferred>>
        /\ phase' \in {"idle", "throw", "run"} /\ (phase' = "run" => phase = "run")
    BY <1>3 DEF RefuseReply, EmitChunk, Deltas, HandlerThrows, Elsewhere, repVars
  <2> QED
    BY <2>1 DEF Proving, TeeOfAnsweredCall, Current, Req, Succeeded
<1>4. CASE HandlerReturns
  <2>1. /\ UNCHANGED <<rep, calls, lastTee, inferred>>
        /\ phase = "run" /\ phase' = "return" /\ (Req.skill \in InferringSkills => inferred)
    BY <1>4 DEF HandlerReturns, Completed, Elsewhere, repVars
  <2> QED
    BY <2>1 DEF Proving, TeeOfAnsweredCall, Current, Req, Succeeded
<1>5. CASE ReplySkill
  <2>1. UNCHANGED <<rep, lastTee>> /\ phase # "idle" /\ phase' \in {"idle", "attest"}
    BY <1>5 DEF ReplySkill, Escape, Elsewhere, repVars
  <2>2. \E fate \in Fates : Close(fate) /\ (phase' = "attest" /\ fate = "answered" => phase = "return")
    BY <1>5 DEF ReplySkill, Escape, Fates
  <2>3. PICK fate \in Fates : Close(fate) /\ (phase' = "attest" /\ fate = "answered" => phase = "return")
    BY <2>2
  <2>4. Current' = Current /\ Req' = Req /\ (Succeeded' <=> fate = "answered")
    BY <2>1, <2>3, CloseFacts DEF Succeeded
  <2>5. Proving'
    BY <2>1, <2>3, <2>4 DEF Proving
  <2> QED
    BY <2>1, <2>5 DEF TeeOfAnsweredCall
<1>6. CASE Attest
  <2>1. /\ phase = "attest" /\ phase' = "idle"
        /\ rep' = Append(rep, Attestation)
    BY <1>6 DEF Attest
  <2>2. /\ Len(rep) \in Nat /\ DOMAIN rep = 1 .. Len(rep) /\ DOMAIN rep' = 1 .. Len(rep) + 1
        /\ \A k \in 1 .. Len(rep) : rep'[k] = rep[k]
        /\ rep'[Len(rep) + 1] = Attestation
    BY <2>1, AttestFacts, Longer DEF TypeOK
  <2>3. Attestation.ok /\ Attestation.skill \in InferringSkills => Attestation.tee = Attestation.call
    BY <2>1 DEF Attestation, Proving
  <2> QED
    BY <2>1, <2>2, <2>3 DEF Proving, TeeOfAnsweredCall
<1>7. CASE AttestFails \/ AttestSkipped
  <2>1. UNCHANGED rep /\ phase' = "idle"
    BY <1>7 DEF AttestFails, AttestSkipped, Escape, repVars
  <2> QED
    BY <2>1 DEF Proving, TeeOfAnsweredCall
<1>8. CASE Restart
  <2>1. rep' = <<>> /\ phase' = "idle"
    BY <1>8 DEF Restart
  <2> QED
    BY <2>1 DEF Proving, TeeOfAnsweredCall
<1>9. CASE Tick \/ Stop \/ RotationStep \/ UNCHANGED vars \/ \E m \in Requests \cup {Nil} : Deliver(m)
  <2>1. UNCHANGED <<calls, phase, rep, inferred, lastTee>>
    BY <1>9 DEF Tick, Stop, Deliver, RotationStep, SnapshotSeeded, SnapshotSettled, loopVars,
                repVars, vars
  <2> QED
    BY <2>1 DEF Proving, TeeOfAnsweredCall, Current, Req, Succeeded
<1> QED
  BY <1>1, <1>2, <1>3, <1>4, <1>5, <1>6, <1>7, <1>8, <1>9 DEF Next, LoopStep

-----------------------------------------------------------------------------
(* Statistics and reputation                                               *)

OkIn(r) == {k \in DOMAIN r : r[k].ok}
OfSkill(r, sk) == {k \in DOMAIN r : r[k].skill = sk}
OkOfSkill(r, sk) == {k \in DOMAIN r : r[k].skill = sk /\ r[k].ok}

LEMMA AgreesMeans ==
  ASSUME NEW s, NEW r
  PROVE  Agrees(s, r) <=>
           /\ s.calls = Len(r)
           /\ s.ok = Cardinality(OkIn(r))
           /\ \A sk \in Skills : /\ s.bySkill[sk].calls = Cardinality(OfSkill(r, sk))
                                 /\ s.bySkill[sk].ok = Cardinality(OkOfSkill(r, sk))
  BY DEF Agrees, Count, OkIn, OfSkill, OkOfSkill

(* One more attestation is counted once, or not at all.                    *)
LEMMA CountOneMore ==
  ASSUME NEW n \in Nat, NEW T \in SUBSET (1 .. n), NEW b \in BOOLEAN
  PROVE  /\ Cardinality(T) \in Nat
         /\ Cardinality(IF b THEN T \cup {n + 1} ELSE T) = Cardinality(T) + One(b)
<1>1. IsFiniteSet(T) /\ n + 1 \notin T
  <2>1. IsFiniteSet(1 .. n)
    BY FS_Interval
  <2>2. IsFiniteSet(T)
    BY <2>1, FS_Subset, Zenon
  <2> QED
    BY <2>2
<1>2. Cardinality(T) \in Nat /\ Cardinality(T \cup {n + 1}) = Cardinality(T) + 1
  BY <1>1, FS_CardinalityType, FS_AddElement
<1> QED
  BY <1>2 DEF One

LEMMA AgreesGrows ==
  ASSUME TypeOK, phase = "attest", Agrees(stats, rep)
  PROVE  Agrees(Bumped, Append(rep, Attestation))
<1> DEFINE n == Len(rep)
           e == Attestation
           r == Append(rep, e)
           sk0 == Req.skill
<1>1. /\ e.skill = sk0 /\ e.ok = Succeeded /\ e \in Attestations
      /\ sk0 \in Skills /\ Succeeded \in BOOLEAN
  BY AttestFacts DEF Attestation, Attestations
<1>2. /\ n \in Nat /\ Len(r) = n + 1 /\ DOMAIN rep = 1 .. n /\ DOMAIN r = 1 .. n + 1
      /\ \A k \in 1 .. n : r[k] = rep[k]
      /\ r[n + 1] = e
  BY AttestFacts, Longer DEF TypeOK
<1>3. /\ Bumped.calls = stats.calls + 1
      /\ Bumped.ok = stats.ok + One(Succeeded)
  BY DEF Bumped
<1>4. ASSUME NEW sk \in Skills
      PROVE  /\ Bumped.bySkill[sk].calls = stats.bySkill[sk].calls + One(sk = sk0)
             /\ Bumped.bySkill[sk].ok = stats.bySkill[sk].ok + One(sk = sk0 /\ Succeeded)
  <2>1. stats.bySkill \in [Skills -> [calls : Nat, ok : Nat]]
    BY DEF TypeOK, Counters
  <2> QED
    BY <1>1, <2>1 DEF Bumped, One
<1> HIDE DEF n, e, r, sk0
<1>5. Cardinality(OkIn(r)) = Cardinality(OkIn(rep)) + One(Succeeded)
  <2>1. OkIn(r) = IF Succeeded THEN OkIn(rep) \cup {n + 1} ELSE OkIn(rep)
    BY <1>1, <1>2 DEF OkIn
  <2>2. OkIn(rep) \in SUBSET (1 .. n)
    BY <1>2 DEF OkIn
  <2> QED
    BY <1>1, <1>2, <2>1, <2>2, CountOneMore
<1>6. ASSUME NEW sk \in Skills
      PROVE  Cardinality(OfSkill(r, sk)) = Cardinality(OfSkill(rep, sk)) + One(sk = sk0)
  <2>1. OfSkill(r, sk) = IF sk = sk0 THEN OfSkill(rep, sk) \cup {n + 1} ELSE OfSkill(rep, sk)
    BY <1>1, <1>2 DEF OfSkill
  <2>2. OfSkill(rep, sk) \in SUBSET (1 .. n)
    BY <1>2 DEF OfSkill
  <2> QED
    BY <1>2, <2>1, <2>2, CountOneMore
<1>7. ASSUME NEW sk \in Skills
      PROVE  Cardinality(OkOfSkill(r, sk)) =
               Cardinality(OkOfSkill(rep, sk)) + One(sk = sk0 /\ Succeeded)
  <2> DEFINE b == sk = sk0 /\ Succeeded
             T == OkOfSkill(rep, sk)
  <2>1. OkOfSkill(r, sk) = IF b THEN T \cup {n + 1} ELSE T
    BY <1>1, <1>2 DEF OkOfSkill
  <2>2. T \in SUBSET (1 .. n) /\ b \in BOOLEAN /\ n \in Nat
    BY <1>1, <1>2 DEF OkOfSkill
  <2> HIDE DEF b, T
  <2>3. Cardinality(OkOfSkill(r, sk)) = Cardinality(T) + One(b)
    BY <2>1, <2>2, CountOneMore
  <2> QED
    BY <2>3 DEF b, T
<1>8. /\ stats.calls = n
      /\ stats.ok = Cardinality(OkIn(rep))
      /\ \A sk \in Skills : /\ stats.bySkill[sk].calls = Cardinality(OfSkill(rep, sk))
                            /\ stats.bySkill[sk].ok = Cardinality(OkOfSkill(rep, sk))
  BY AgreesMeans DEF n
<1>9. Agrees(Bumped, r)
  BY <1>2, <1>3, <1>4, <1>5, <1>6, <1>7, <1>8, AgreesMeans
<1> QED
  BY <1>9 DEF r, e

LEMMA ZeroAgrees == Agrees(ZeroStats, <<>>)
<1>1. OkIn(<<>>) = {} /\ \A sk \in Skills : OfSkill(<<>>, sk) = {} /\ OkOfSkill(<<>>, sk) = {}
  BY DEF OkIn, OfSkill, OkOfSkill
<1> QED
  BY <1>1, AgreesMeans, FS_EmptySet DEF ZeroStats

(* A snapshot of counters that agree with the reputation they are taken    *)
(* with is consistent.                                                     *)
LEMMA SnapshotTaken ==
  ASSUME TypeOK, SnapshotsAgree, NEW s \in Counters, NEW r \in Seq(Attestations), Agrees(s, r),
         \/ UNCHANGED snapshots
         \/ snapshots' = Append(snapshots, SnapshotOf(s, r))
  PROVE  SnapshotsAgree'
<1>1. CASE UNCHANGED snapshots
  <2>1. \A k \in DOMAIN snapshots' : Agrees(snapshots'[k].stats, snapshots'[k].rep)
    BY <1>1 DEF SnapshotsAgree
  <2> QED
    BY <2>1 DEF SnapshotsAgree, Agrees, Count
<1>2. CASE snapshots' = Append(snapshots, SnapshotOf(s, r))
  <2> DEFINE b == SnapshotOf(s, r)
  <2>1. b \in [stats : Counters, rep : Seq(Attestations)] /\ b.stats = s /\ b.rep = r
    BY DEF SnapshotOf
  <2> HIDE DEF b
  <2>2. /\ DOMAIN snapshots = 1 .. Len(snapshots) /\ Len(snapshots) \in Nat
        /\ DOMAIN snapshots' = 1 .. Len(snapshots) + 1
        /\ \A k \in 1 .. Len(snapshots) : snapshots'[k] = snapshots[k]
        /\ snapshots'[Len(snapshots) + 1] = b
    BY <1>2, <2>1, Longer DEF TypeOK, b
  <2>3. \A k \in DOMAIN snapshots' : Agrees(snapshots'[k].stats, snapshots'[k].rep)
    BY <2>1, <2>2 DEF SnapshotsAgree
  <2> QED
    BY <2>3 DEF SnapshotsAgree, Agrees, Count
<1> QED
  BY <1>1, <1>2

LEMMA StatsStep ==
  ASSUME TypeOK, StatsMatchRep, [Next]_vars
  PROVE  StatsMatchRep'
<1>1. CASE Attest
  <2>1. phase = "attest" /\ rep' = Append(rep, Attestation) /\ stats' = Bumped
    BY <1>1 DEF Attest
  <2>2. Agrees(stats', rep')
    BY <2>1, AgreesGrows DEF StatsMatchRep
  <2>3. \/ UNCHANGED snapshots
        \/ snapshots' = Append(snapshots, SnapshotOf(stats', rep'))
    BY <1>1 DEF Attest, MaybeSnapshot, snapVars
  <2>4. stats' \in Counters /\ rep' \in Seq(Attestations)
    BY <1>1, AttestType DEF TypeOK
  <2>5. SnapshotsAgree'
    BY <2>2, <2>3, <2>4, SnapshotTaken DEF StatsMatchRep
  <2> QED
    BY <2>2, <2>5 DEF StatsMatchRep, Agrees, Count
<1>2. CASE SnapshotSeeded
  <2>1. UNCHANGED <<rep, stats>> /\ snapshots' = Append(snapshots, SnapshotOf(stats, rep))
    BY <1>2 DEF SnapshotSeeded, repVars
  <2>2. SnapshotsAgree'
    BY <2>1, SnapshotTaken DEF StatsMatchRep, TypeOK
  <2> QED
    BY <2>1, <2>2 DEF StatsMatchRep, Agrees, Count
<1>3. CASE Restart
  <2>1. rep' = <<>> /\ stats' = ZeroStats /\ UNCHANGED snapshots
    BY <1>3 DEF Restart
  <2>2. Agrees(stats', rep')
    BY <2>1, ZeroAgrees
  <2>3. \A k \in DOMAIN snapshots' : Agrees(snapshots'[k].stats, snapshots'[k].rep)
    BY <2>1 DEF StatsMatchRep, SnapshotsAgree
  <2> QED
    BY <2>2, <2>3 DEF StatsMatchRep, SnapshotsAgree, Agrees, Count
<1>4. CASE \/ LoopStep /\ ~Attest
           \/ Tick \/ Stop \/ SnapshotSettled \/ UNCHANGED vars
           \/ \E m \in Requests \cup {Nil} : Deliver(m)
  <2>1. UNCHANGED <<rep, stats, snapshots>>
    <3>1. CASE LoopStep /\ ~Attest
      BY <3>1 DEF LoopStep, Receive, RefuseReply, Infer, EmitChunk, HandlerReturns, HandlerThrows,
                  ReplySkill, AttestFails, AttestSkipped, Elsewhere, repVars, snapVars
    <3>2. CASE \/ Tick \/ Stop \/ SnapshotSettled \/ UNCHANGED vars
               \/ \E m \in Requests \cup {Nil} : Deliver(m)
      BY <3>2 DEF Tick, Stop, SnapshotSettled, Deliver, vars, repVars, snapVars
    <3> QED
      BY <1>4, <3>1, <3>2
  <2>2. Agrees(stats', rep')
    BY <2>1 DEF StatsMatchRep
  <2>3. \A k \in DOMAIN snapshots' : Agrees(snapshots'[k].stats, snapshots'[k].rep)
    BY <2>1 DEF StatsMatchRep, SnapshotsAgree
  <2> QED
    BY <2>2, <2>3 DEF StatsMatchRep, SnapshotsAgree, Agrees, Count
<1> QED
  BY <1>1, <1>2, <1>3, <1>4 DEF Next, RotationStep

-----------------------------------------------------------------------------
LEMMA InitAnswer ==
  ASSUME Init
  PROVE  AnswerInv
<1>1. TypeOK
  <2>1. /\ <<>> \in Seq(Requests \cup {Nil}) /\ <<>> \in Seq(Nonces) /\ <<>> \in Seq(Attestations)
        /\ <<>> \in Seq([req : Requests, fate : Fates]) /\ <<>> \in Seq(Messages)
        /\ <<>> \in Seq([stats : Counters, rep : Seq(Attestations)])
    BY EmptySeq
  <2> QED
    BY <2>1, ZeroType DEF Init, TypeOK, Phases
<1>2. Sending /\ OneAnswer /\ Attesting /\ RepMatchesAnswers /\ Proving /\ TeeOfAnsweredCall
  BY DEF Init, Sending, OneAnswer, Attesting, RepMatchesAnswers, Proving, TeeOfAnsweredCall
<1>3. StatsMatchRep
  BY ZeroAgrees DEF Init, StatsMatchRep, SnapshotsAgree
<1> QED
  BY <1>1, <1>2, <1>3 DEF AnswerInv

(* The invariant of the answers, the reputation and the statistics: what   *)
(* the loop is suspended in says what was sent of the call in hand, and so *)
(* what its attestation may claim.                                         *)
THEOREM AnswerInvariance == Spec => []AnswerInv
<1>1. AnswerInv /\ [Next]_vars => AnswerInv'
  BY TypeStep, SendingStep, AttestingStep, ProvingStep, StatsStep DEF AnswerInv
<1> QED
  BY InitAnswer, <1>1, PTL DEF Spec

(* Every variable of the runtime keeps its type, and a suspended loop has  *)
(* a registered skill's call in hand.                                      *)
THEOREM RuntimeTypes == Spec => []TypeOK
<1>1. AnswerInv => TypeOK
  BY DEF AnswerInv
<1> QED
  BY AnswerInvariance, <1>1, PTL

(* For any traffic and any failures of the network: a caller sees the      *)
(* chunks of its call numbered without a gap, then at most one terminal    *)
(* answer and nothing after it.                                            *)
THEOREM AnsweredOnce == Spec => []OneAnswer
<1>1. AnswerInv => OneAnswer
  BY DEF AnswerInv
<1> QED
  BY AnswerInvariance, <1>1, PTL

(* Every attestation is of a call whose answer was sent with that verdict, *)
(* and no call is attested twice.                                          *)
THEOREM ReputationIsAnswered == Spec => []RepMatchesAnswers
<1>1. AnswerInv => RepMatchesAnswers
  BY DEF AnswerInv
<1> QED
  BY AnswerInvariance, <1>1, PTL

(* The counters are those of the reputation chain at every moment, and so  *)
(* in every snapshot the rotation takes beside the loop.                   *)
THEOREM StatisticsAreProved == Spec => []StatsMatchRep
<1>1. AnswerInv => StatsMatchRep
  BY DEF AnswerInv
<1> QED
  BY AnswerInvariance, <1>1, PTL

(* A successful attestation of an inferring skill carries the TEE proof of *)
(* its own call, never that of the call before.                            *)
THEOREM AttestedInference == Spec => []TeeOfAnsweredCall
<1>1. AnswerInv => TeeOfAnsweredCall
  BY DEF AnswerInv
<1> QED
  BY AnswerInvariance, <1>1, PTL

=============================================================================
