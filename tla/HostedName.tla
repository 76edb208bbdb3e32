----------------------------- MODULE HostedName -----------------------------
(***************************************************************************)
(* What one handle of the hosted service keeps outside its requests: the   *)
(* row of the Mongo collection identities with its memo in the server      *)
(* process (Frontend/lib/identity-store.ts), the active rows of            *)
(* prompt_skills (Frontend/lib/prompt-skills.ts), and the text records of  *)
(* its ENS name, written by one server account                             *)
(* (packages/sdk/src/ens-writer.ts) and read by anyone (ens.ts).           *)
(*                                                                         *)
(* A record is written by sending a transaction; nobody waits for a text   *)
(* record to be mined.  The transactions of the account are mined in the   *)
(* order they were sent.  The contract address is the same in every card   *)
(* and is left out.                                                        *)
(***************************************************************************)
EXTENDS Naturals, Sequences

CONSTANTS
  Flows,       \* runs of the mint page; each has a keypair of its own
  Edits,       \* requests that add, update or delete a custom skill
  SkillIds,    \* ids of custom skills
  Nil,         \* no document, no record
  MaxFaults    \* bound: calls that fail, answers that are lost, restarts

ASSUME HostedAssumption ==
  /\ Nil \notin Flows \cup Edits
  /\ Nil \notin [pub : Flows, token : Nat]
  /\ Nil \notin [pub : Flows, token : Nat, skills : [SkillIds -> Edits \cup {Nil}]]
  /\ Nil \notin Nat
  /\ MaxFaults \in Nat

VARIABLES
  row,        \* the identities document: whose keypair, which token
  memo,       \* the copy loadIdentity keeps in the process
  catalog,    \* the edit that wrote each active custom skill, or Nil
  resolver,   \* the name is registered with a resolver
  records,    \* its text records
  pool,       \* transactions of the server account, sent and not mined
  mishaps,    \* history: what happened that can leave the name inconsistent
  faults

Mishaps == {"overlap", "halfway", "builtinsOnly", "unpublished", "overtaken", "capRace"}

nameVars == <<row, memo, catalog, resolver, records, pool>>

(* ENS_RECORD_KEYS, as far as the server writes them, in that order.       *)
Keys == <<"card", "pubkey", "tokenId">>
KeySet == {Keys[i] : i \in DOMAIN Keys}

(* The skills of a card: the built-ins, always, and these custom ones.     *)
Catalogs == [SkillIds -> Edits \cup {Nil}]
BuiltinsOnly == [s \in SkillIds |-> Nil]
Identities == [pub : Flows, token : Nat]
Cards == [pub : Flows, token : Nat, skills : Catalogs]

(* buildAgentCard                                                          *)
Card(id, skills) == [pub |-> id.pub, token |-> id.token, skills |-> skills]

(* bundleFromCard                                                          *)
Bundle(card) ==
  [k \in KeySet |-> CASE k = "card" -> card
                      [] k = "pubkey" -> card.pub
                      [] k = "tokenId" -> card.token]

NameInit ==
  /\ row = Nil /\ memo = Nil
  /\ catalog = BuiltinsOnly
  /\ resolver = FALSE
  /\ records = [k \in KeySet |-> Nil]
  /\ pool = <<>>
  /\ mishaps = {}
  /\ faults = 0

-----------------------------------------------------------------------------
Fault == faults < MaxFaults /\ faults' = faults + 1

Note(S) == mishaps' = mishaps \cup S

(* loadIdentity: the memo, or the active document; Nil if it throws.       *)
Known == IF memo # Nil THEN memo ELSE row

(* EnsResolver.getText                                                     *)
Text(k) == IF resolver THEN records[k] ELSE Nil

(* writeContract of the server account: setSubnodeRecord or setText.       *)
SendRegistration(f) == pool' = Append(pool, [key |-> "subnode", val |-> f])
SendText(k, card) == pool' = Append(pool, [key |-> k, val |-> Bundle(card)[k]])

(* The oldest transaction of the account is mined.                         *)
MineRecord ==
  /\ pool # <<>>
  /\ LET tx == Head(pool)
     IN  IF tx.key = "subnode"
         THEN resolver' = TRUE /\ UNCHANGED records
         ELSE records' = [records EXCEPT ![tx.key] = tx.val] /\ UNCHANGED resolver
  /\ pool' = Tail(pool)
  /\ UNCHANGED <<row, memo, catalog, mishaps, faults>>

Writable(k, val) ==
  CASE k = "card" -> val \in Cards
    [] k = "tokenId" -> val \in Nat
    [] k \in {"pubkey", "subnode"} -> val \in Flows

NameTypeOK ==
  /\ row \in Identities \cup {Nil}
  /\ memo \in Identities \cup {Nil}
  /\ catalog \in Catalogs
  /\ resolver \in BOOLEAN
  /\ DOMAIN records = KeySet
  /\ \A k \in KeySet : records[k] # Nil => Writable(k, records[k])
  /\ \A i \in 1 .. Len(pool) :
       pool[i].key \in KeySet \cup {"subnode"} /\ Writable(pool[i].key, pool[i].val)
  /\ mishaps \subseteq Mishaps
  /\ faults \in 0 .. MaxFaults
=============================================================================
