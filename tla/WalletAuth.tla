----------------------------- MODULE WalletAuth -----------------------------
(***************************************************************************)
(* Wallet challenges (Frontend/lib/wallet-auth.ts): issueChallenge puts a  *)
(* nonce in the Mongo collection auth_nonces; verifyAndConsume spends it.  *)
(*                                                                         *)
(* verifyAndConsume consumes first and checks the signature afterwards, so *)
(* that two parallel requests cannot both pass, and gives the nonce back   *)
(* when the signature is bad.  Each of the three is a separate round trip  *)
(* or an await: requests of several server processes interleave between    *)
(* them, a process may die between them, and Mongo's TTL monitor deletes   *)
(* expired nonces whenever it gets to it.                                  *)
(***************************************************************************)
EXTENDS Naturals, FiniteSets

CONSTANTS
  Nonces,     \* random nonces, each issued at most once
  Wallets,    \* the addresses nonces are issued to
  Names,      \* the ENS names they are issued for
  Requests,   \* calls of verifyAndConsume
  Nil,        \* no document
  TTL,        \* NONCE_TTL_SEC
  MaxTime,    \* bound: clock ticks
  MaxFaults   \* bound: process deaths and failed writes

ASSUME AuthAssumption ==
  /\ TTL \in Nat /\ MaxTime \in Nat /\ MaxFaults \in Nat
  /\ Nil \notin [wallet : Wallets, name : Names, expires : Nat, consumed : BOOLEAN]

(* What a request presents.  `intact`: the message is the one issued with  *)
(* the nonce it contains.  `signed`: the signature over it is the wallet's.*)
Inputs == [nonce : Nonces, wallet : Wallets, name : Names,
           intact : BOOLEAN, signed : BOOLEAN]

VARIABLES
  now,
  doc,      \* auth_nonces: the document of each nonce, or Nil
  issued,   \* history: the nonces issued so far
  input,    \* what each request presented
  pc,       \* where each request is
  faults

vars == <<now, doc, issued, input, pc, faults>>

Documents == [wallet : Wallets, name : Names, expires : Nat, consumed : BOOLEAN]

Init ==
  /\ now = 0
  /\ doc = [n \in Nonces |-> Nil]
  /\ issued = {}
  /\ input \in [Requests -> Inputs]
  /\ pc = [r \in Requests |-> "idle"]
  /\ faults = 0

-----------------------------------------------------------------------------
(* issueChallenge                                                          *)
Issue(n, w, nm) ==
  /\ n \notin issued
  /\ issued' = issued \cup {n}
  /\ doc' = [doc EXCEPT ![n] =
               [wallet |-> w, name |-> nm, expires |-> now + TTL, consumed |-> FALSE]]
  /\ UNCHANGED <<now, input, pc, faults>>

(* Mutation: the filter forgets consumedAt.                                *)
MatchesConsumed(d, i) ==
  d # Nil /\ d.wallet = i.wallet /\ d.name = i.name /\ now < d.expires

(* The filter of findOneAndUpdate.                                         *)
Matches(d, i) ==
  /\ d # Nil
  /\ d.wallet = i.wallet /\ d.name = i.name
  /\ ~d.consumed
  /\ now < d.expires

Nonce(r) == input[r].nonce
GoTo(r, s) == pc' = [pc EXCEPT ![r] = s]

(* findOneAndUpdate finds the document and sets consumedAt in one go.  A   *)
(* message other than the issued one is refused with the nonce consumed.   *)
Consume(r) ==
  /\ pc[r] = "idle"
  /\ Matches(doc[Nonce(r)], input[r])
  /\ doc' = [doc EXCEPT ![Nonce(r)].consumed = TRUE]
  /\ GoTo(r, IF input[r].intact THEN "verifying" ELSE "mismatched")
  /\ UNCHANGED <<now, issued, input, faults>>

(* It finds nothing: missing, expired or replayed.                         *)
Refuse(r) ==
  /\ pc[r] = "idle"
  /\ ~Matches(doc[Nonce(r)], input[r])
  /\ GoTo(r, "refused")
  /\ UNCHANGED <<now, doc, issued, input, faults>>

Accept(r) ==
  /\ pc[r] = "verifying"
  /\ input[r].signed
  /\ GoTo(r, "accepted")
  /\ UNCHANGED <<now, doc, issued, input, faults>>

(* Mutation: a bad signature is refused without giving the nonce back.     *)
BadSignatureBurns(r) ==
  /\ pc[r] = "verifying"
  /\ ~input[r].signed
  /\ GoTo(r, "refused")
  /\ UNCHANGED <<now, doc, issued, input, faults>>

BadSignature(r) ==
  /\ pc[r] = "verifying"
  /\ ~input[r].signed
  /\ GoTo(r, "restoring")
  /\ UNCHANGED <<now, doc, issued, input, faults>>

(* updateOne({_id: nonce}) clears consumedAt, if the document still exists.*)
Restore(r) ==
  /\ pc[r] = "restoring"
  /\ doc' = [doc EXCEPT ![Nonce(r)] = IF @ = Nil THEN Nil ELSE [@ EXCEPT !.consumed = FALSE]]
  /\ GoTo(r, "refused")
  /\ UNCHANGED <<now, issued, input, faults>>

(* The server process dies, or the write fails: the request gets no answer *)
(* or an error, and the nonce stays as it is.                              *)
Abort(r) ==
  /\ pc[r] \in {"verifying", "restoring"}
  /\ faults < MaxFaults
  /\ faults' = faults + 1
  /\ GoTo(r, "aborted")
  /\ UNCHANGED <<now, doc, issued, input>>

Tick ==
  /\ now < MaxTime
  /\ now' = now + 1
  /\ UNCHANGED <<doc, issued, input, pc, faults>>

(* The TTL index on expiresAt.                                             *)
Sweep(n) ==
  /\ doc[n] # Nil
  /\ doc[n].expires <= now
  /\ doc' = [doc EXCEPT ![n] = Nil]
  /\ UNCHANGED <<now, issued, input, pc, faults>>

-----------------------------------------------------------------------------
Handle(r) ==
  Consume(r) \/ Refuse(r) \/ Accept(r) \/ BadSignature(r) \/ Restore(r) \/ Abort(r)

Next ==
  \/ \E n \in Nonces, w \in Wallets, nm \in Names : Issue(n, w, nm)
  \/ \E r \in Requests : Handle(r)
  \/ Tick
  \/ \E n \in Nonces : Sweep(n)

Spec == Init /\ [][Next]_vars

-----------------------------------------------------------------------------
(* Properties                                                              *)

States == {"idle", "verifying", "restoring", "accepted", "refused",
           "mismatched", "aborted"}

(* Every variable keeps its type.                                          *)
TypeOK ==
  /\ now \in Nat
  /\ doc \in [Nonces -> Documents \cup {Nil}]
  /\ issued \subseteq Nonces
  /\ input \in [Requests -> Inputs]
  /\ pc \in [Requests -> States]
  /\ faults \in Nat

(* Only issued nonces have documents.                                      *)
DocsIssued == \A n \in Nonces : doc[n] # Nil => n \in issued

Holding == {"verifying", "restoring", "accepted"}

(* A nonce is in the hands of one request at a time: as long as one is     *)
(* checking its signature, is giving it back or was authorized by it, no   *)
(* other request is.  So the unconditional update of Restore never undoes  *)
(* the consumption of another request.                                     *)
Exclusive ==
  \A r, s \in Requests :
    pc[r] \in Holding /\ pc[s] \in Holding /\ Nonce(r) = Nonce(s) => r = s

(* The nonce a request holds is not up for taking.                         *)
HeldIsConsumed ==
  \A r \in Requests :
    pc[r] \in Holding => /\ Nonce(r) \in issued
                         /\ doc[Nonce(r)] # Nil => doc[Nonce(r)].consumed

(* Each challenge authorizes at most one request.                          *)
AtMostOnce ==
  \A r, s \in Requests :
    pc[r] = "accepted" /\ pc[s] = "accepted" /\ Nonce(r) = Nonce(s) => r = s

(* "so a typo doesn't burn the user's nonce": a nonce that stays consumed  *)
(* is held by a request, or one presented another message with it, or one  *)
(* died with it in hand.                                                   *)
TypoKeepsNonce ==
  \A n \in Nonces :
    doc[n] # Nil /\ doc[n].consumed =>
      \E r \in Requests :
        Nonce(r) = n /\ pc[r] \in Holding \cup {"mismatched", "aborted"}

(* The collection and the handler together implement the abstract single-  *)
(* use challenge.                                                          *)
Granted == {<<Nonce(r), r>> : r \in {q \in Requests : pc[q] = "accepted"}}
Abstract == INSTANCE SingleUse
              WITH Challenges <- Nonces, Requesters <- Requests, granted <- Granted
ImplementsSingleUse == Abstract!Spec

IInv == TypeOK /\ DocsIssued /\ Exclusive /\ HeldIsConsumed
=============================================================================
