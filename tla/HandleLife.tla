----------------------------- MODULE HandleLife -----------------------------
(***************************************************************************)
(* The life of one handle: flows of the mint page that compete for it, the *)
(* publication of its records, and edits of its skills, in one server      *)
(* process that may be restarted.  MintFlow and SkillCatalog act on the    *)
(* same row, memo, catalog and ENS records (HostedName).                   *)
(***************************************************************************)
EXTENDS MintFlow, SkillCatalog

vars == <<nameVars, mishaps, faults, mintVars, editVars>>

Init == NameInit /\ MintInit /\ CatalogInit

(* pm2 restarts the one instance.  A crash loses the handlers, the memo    *)
(* and nothing else.                                                       *)
Restart ==
  /\ Fault
  /\ memo' = Nil
  /\ MintCrash
  /\ CatalogCrash
  /\ UNCHANGED <<row, catalog, resolver, records, pool>>

Next ==
  \/ (MintNext /\ UNCHANGED editVars)
  \/ (CatalogNext /\ UNCHANGED mintVars)
  \/ (MineRecord /\ UNCHANGED <<mintVars, editVars>>)
  \/ Restart

Spec == Init /\ [][Next]_vars

-----------------------------------------------------------------------------
TypeOK == NameTypeOK /\ MintTypeOK /\ CatalogTypeOK

Genuine(k, v) ==
  /\ row # Nil
  /\ CASE k = "card" -> v.pub = row.pub /\ v.token = row.token
       [] k = "pubkey" -> v = row.pub
       [] k = "tokenId" -> v = row.token

(* Whatever flows, edits, failures and restarts interleave, a record that  *)
(* can be read under the name is that of the keypair and the token in the  *)
(* identity row: a call that resolves the name reaches the runtime the     *)
(* server hosts.  (publish/route.ts checks the request against the row,    *)
(* skills/route.ts takes its card from the row.)                           *)
RecordsMatchRow == \A k \in KeySet : Text(k) # Nil => Genuine(k, Text(k))

(* The row of a handle never changes hands: "Retrying overwrites would     *)
(* silently rebind a privkey, which we never want"                         *)
(* (identity-store.ts, saveIdentity).                                      *)
RowNeverRebound == [][row # Nil => row' = row]_vars

(* A page that reports success has it all, for good: the row holds its     *)
(* keypair, the row's token was minted for it, and the card says so.       *)
DoneMeansOwned ==
  \A f \in Flows : ShowsDone(f) =>
    /\ row # Nil
    /\ row.pub = f
    /\ row.token \in Ids /\ tokens[row.token] = f
    /\ Text("card") # Nil

(* A second token is minted for a handle only if two flows overlapped or   *)
(* an earlier one ended halfway, after its mint transaction was sent.      *)
SecondTokenOnlyByMishap ==
  Len(tokens) > 1 => mishaps \cap {"overlap", "halfway"} # {}

Editing == \E e \in Edits : stage[e] \in {"relisting", "sending"}

(* Once everything sent is mined, the card lists exactly the active        *)
(* skills in their latest version, unless an edit was lost between its     *)
(* write and its card, an edit took its list before another wrote, or the  *)
(* card of the mint was written over a catalog that was not empty.         *)
CardListsActive ==
  (pool = <<>> /\ ~Editing /\ Text("card") # Nil
     /\ mishaps \cap {"unpublished", "overtaken", "builtinsOnly"} = {})
    => Text("card").skills = catalog

(* More skills than the cap are active only if two additions raced.        *)
CapUnlessRaced == Cardinality(Active) > MaxSkills => "capRace" \in mishaps
=============================================================================
