----------------------------- MODULE Settlement -----------------------------
(***************************************************************************)
(* Payment for a skill call (packages/sdk/src/payments.ts): a client has   *)
(* KeeperHub execute a transfer, polls the execution until a deadline, and *)
(* signs a receipt with the hash of the transaction.                       *)
(*                                                                         *)
(* The payee reads neither the chain nor KeeperHub: a receipt is what its   *)
(* payer has signed, so one that was signed by hand, without settle(), is  *)
(* as good.  Token and network are those that the agent expects.           *)
(***************************************************************************)
EXTENDS Naturals

CONSTANTS
  Clients,      \* nodes that call agents
  Payers,       \* those that pay
  SkillNames,   \* the skills that agents offer
  Recipients,   \* payment addresses
  Amounts,
  SettleArgs,   \* what settle() is called with
  ByHand,       \* receipts that were signed without settle()
  Nil           \* no receipt, no price, no address

(* `settled` says where a receipt comes from: it is no part of its text.   *)
Receipts == [payer : Clients, recipient : Recipients, amount : Amounts, skill : SkillNames,
             settled : BOOLEAN]

ASSUME SettlementAssumption ==
  /\ Payers \subseteq Clients
  /\ SettleArgs \subseteq [recipient : Recipients, amount : Amounts, skill : SkillNames]
  /\ SettleArgs # {}
  /\ ByHand \subseteq {r \in Receipts : ~r.settled}
  /\ Nil \notin Receipts \cup Recipients \cup Amounts

VARIABLES
  execution,   \* at KeeperHub: the status of the client's transfer
  hashKnown,   \* at KeeperHub: the status answer carries the transaction hash
  pay,         \* where settle() of the client is
  terms,       \* what the client settles
  sawHash,     \* its txHash is set
  gaveUp       \* history: settle() gave up on a transfer that may complete

payVars == <<execution, hashKnown, pay, terms, sawHash, gaveUp>>

Statuses == {"none", "pending", "completed", "failed"}
(* A client that polls has seen the status pending, completed or failed.   *)
PayStates == {"unpaid", "pending", "completed", "failed", "reading", "receipt", "gone"}

PayInit ==
  /\ execution = [c \in Clients |-> "none"]
  /\ hashKnown = [c \in Clients |-> FALSE]
  /\ pay = [c \in Clients |-> "unpaid"]
  /\ terms \in [Clients -> SettleArgs]
  /\ \A c \in Clients \ Payers : terms[c] = CHOOSE s \in SettleArgs : TRUE
  /\ sawHash = [c \in Clients |-> FALSE]
  /\ gaveUp = [c \in Clients |-> FALSE]

-----------------------------------------------------------------------------
PayTo(c, s) == pay' = [pay EXCEPT ![c] = s]
GiveUp(c) == PayTo(c, "gone") /\ gaveUp' = [gaveUp EXCEPT ![c] = TRUE]

(* POST /execute/transfer starts a transfer, which may be over when it     *)
(* answers.  The answer does not carry the hash.                           *)
Trigger(c) ==
  /\ pay[c] = "unpaid"
  /\ \E s \in {"pending", "completed", "failed"} :
       /\ execution' = [execution EXCEPT ![c] = s]
       /\ PayTo(c, s)
  /\ UNCHANGED <<hashKnown, terms, sawHash, gaveUp>>

(* The POST is refused, or its answer is lost or lacks the executionId.    *)
TriggerFails(c) ==
  /\ pay[c] = "unpaid"
  /\ \/ PayTo(c, "gone") /\ UNCHANGED <<execution, gaveUp>>
     \/ execution' = [execution EXCEPT ![c] = "pending"] /\ GiveUp(c)
  /\ UNCHANGED <<hashKnown, terms, sawHash>>

(* The transfer goes on; the hash may be reported later than the status.   *)
Execute(c) ==
  /\ \/ /\ execution[c] = "pending"
        /\ \E s \in {"completed", "failed"} : execution' = [execution EXCEPT ![c] = s]
        /\ UNCHANGED hashKnown
     \/ /\ execution[c] = "completed" /\ ~hashKnown[c]
        /\ hashKnown' = [hashKnown EXCEPT ![c] = TRUE]
        /\ UNCHANGED execution
  /\ UNCHANGED <<pay, terms, sawHash, gaveUp>>

(* GET /execute/:id/status, every 1.5 s.  An answer that is not ok is      *)
(* skipped.                                                                *)
Poll(c) ==
  /\ pay[c] = "pending"
  /\ PayTo(c, execution[c])
  /\ sawHash' = [sawHash EXCEPT ![c] = hashKnown[c]]
  /\ UNCHANGED <<execution, hashKnown, terms, gaveUp>>

PollFails(c) ==
  /\ pay[c] = "pending"
  /\ GiveUp(c)
  /\ UNCHANGED <<execution, hashKnown, terms, sawHash>>

Deadline(c) ==
  /\ pay[c] = "pending"
  /\ GiveUp(c)
  /\ UNCHANGED <<execution, hashKnown, terms, sawHash>>

(* Mutation: a transfer that is not completed at the first look has failed.*)
FailureHasty(s) == s \in {"failed", "pending"}

(* The statuses on which settle() throws.                                  *)
Failure(s) == s = "failed"

(* A terminal status ends the loop: throw, or sign, or look for the hash.  *)
Terminal(c) ==
  /\ \/ Failure(pay[c]) /\ PayTo(c, "gone")
     \/ pay[c] = "completed" /\ PayTo(c, IF sawHash[c] THEN "receipt" ELSE "reading")
  /\ UNCHANGED <<execution, hashKnown, terms, sawHash, gaveUp>>

(* One more status request; without a hash in its answer settle() throws.  *)
ReadHash(c) ==
  /\ pay[c] = "reading"
  /\ IF hashKnown[c] THEN PayTo(c, "receipt") /\ UNCHANGED gaveUp ELSE GiveUp(c)
  /\ sawHash' = [sawHash EXCEPT ![c] = hashKnown[c]]
  /\ UNCHANGED <<execution, hashKnown, terms>>

ReadFails(c) ==
  /\ pay[c] = "reading"
  /\ GiveUp(c)
  /\ UNCHANGED <<execution, hashKnown, terms, sawHash>>

Settle(c) ==
  \/ Trigger(c) \/ TriggerFails(c) \/ Poll(c) \/ PollFails(c) \/ Deadline(c)
  \/ Terminal(c) \/ ReadHash(c) \/ ReadFails(c)

(* signReceipt, over what was settled.                                     *)
Receipt(c) ==
  [payer |-> c, recipient |-> terms[c].recipient, amount |-> terms[c].amount,
   skill |-> terms[c].skill, settled |-> TRUE]

(* checkReceiptShape and verifyReceipt: all that a payee asks.             *)
ReceiptFits(receipt, exp) ==
  \A field \in {"payer", "recipient", "amount", "skill"} : receipt[field] = exp[field]

-----------------------------------------------------------------------------
PayTypeOK ==
  /\ execution \in [Clients -> Statuses]
  /\ hashKnown \in [Clients -> BOOLEAN]
  /\ pay \in [Clients -> PayStates]
  /\ terms \in [Clients -> SettleArgs]
  /\ sawHash \in [Clients -> BOOLEAN]
  /\ gaveUp \in [Clients -> BOOLEAN]

(* Who holds a receipt has paid: the transfer of the receipt completed.    *)
ReceiptMeansPaid == \A c \in Clients : pay[c] = "receipt" => execution[c] = "completed"

(* Who paid and will get no receipt had an answer lost, met the deadline,  *)
(* or met a KeeperHub that did not report the hash of a completed transfer *)
(* when it was asked: no other path of settle() throws money away.         *)
PaidHasReceipt ==
  \A c \in Clients : (execution[c] = "completed" /\ pay[c] = "gone") => gaveUp[c]
=============================================================================
