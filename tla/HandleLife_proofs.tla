-------------------------- MODULE HandleLife_proofs --------------------------
(***************************************************************************)
(* What holds of a handle for any number of flows, edits and skills, any   *)
(* cap and any number of failures and restarts.                            *)
(*                                                                         *)
(* The inductive invariant IInv says that everything that was ever told    *)
(* the identity of the handle was told the one in the row; that the row's  *)
(* token was minted for the row's keypair, and no keypair has two; what a  *)
(* flow may have reached in each of its stages; and that a second flow     *)
(* sends a mint transaction only after a mishap.                           *)
(***************************************************************************)
EXTENDS HandleLife, SequenceTheorems, FiniteSetTheorems, TLAPS

Transactions == [key : KeySet \cup {"subnode"}, val : Flows \cup Cards \cup Nat]

Types ==
  /\ row \in Identities \cup {Nil}
  /\ memo \in Identities \cup {Nil}
  /\ catalog \in Catalogs
  /\ DOMAIN records = KeySet
  /\ pool \in Seq(Transactions)
  /\ flow \in [Flows -> PageStates]
  /\ srv \in [Flows -> {"none"} \cup MintStates \cup PublishStates \cup Answers]
  /\ unmined \in SUBSET Flows
  /\ tokens \in Seq(Flows)
  /\ stage \in [Edits -> EditStages]
  /\ id \in [Edits -> Identities \cup {Nil}]
  /\ listed \in [Edits -> Catalogs]

Admitted == {"counting", "listing", "writing", "relisting", "sending"}

(* Who knows an identity knows the row's.                                  *)
KnowTheRow ==
  /\ memo # Nil => memo = row
  /\ \A e \in Edits :
       /\ id[e] # Nil => id[e] = row
       /\ stage[e] \in Admitted => id[e] # Nil

(* What is written under the name, or sent to be written, is the row's.    *)
WrittenIsGenuine ==
  /\ \A k \in KeySet : records[k] # Nil => Genuine(k, records[k])
  /\ \A i \in 1 .. Len(pool) :
       pool[i].key \in KeySet =>
         Writable(pool[i].key, pool[i].val) /\ Genuine(pool[i].key, pool[i].val)

(* The row's token is its keypair's; nobody has two, or one and another    *)
(* that may still be mined.                                                *)
TokensOfRow ==
  /\ row # Nil => row.token \in Ids /\ tokens[row.token] = row.pub
  /\ \A i, j \in Ids : tokens[i] = tokens[j] => i = j
  /\ \A f \in unmined : ~HasToken(f)

Owns(f) == row # Nil /\ row.pub = f

(* What a flow has, or has not, in each of its stages.                     *)
AtStage(f) ==
  /\ flow[f] \in {"idle", "free", "taken"} => srv[f] = "none"
  /\ (flow[f] \in {"idle", "free", "taken"} \/ srv[f] \in {"checking", "sending"})
       => f \notin unmined /\ ~HasToken(f)
  /\ srv[f] = "saving" => HasToken(f)
  /\ srv[f] \in {"minted", "published"} \cup PublishStates => Owns(f)
  /\ flow[f] \in {"verifying", "done"} => Owns(f)
  /\ flow[f] = "done" => Text("card") # Nil

FlowStages == \A f \in Flows : AtStage(f)

(* A flow that has sent a mint transaction, or is bound to.                *)
Started(f) == srv[f] \in {"sending", "waiting", "saving"} \/ f \in unmined \/ HasToken(f)

OneStarted ==
  mishaps \cap {"overlap", "halfway"} = {} =>
    \A f, g \in Flows : Started(f) /\ Started(g) => f = g

IInv == Types /\ KnowTheRow /\ WrittenIsGenuine /\ TokensOfRow /\ FlowStages /\ OneStarted

-----------------------------------------------------------------------------
(* The token of a keypair that has one.                                    *)
LEMMA TokenOfHas ==
  ASSUME NEW f, HasToken(f)
  PROVE  TokenOf(f) \in Ids /\ tokens[TokenOf(f)] = f
  BY DEF TokenOf, HasToken

(* The owner of the row names the row's identity by its own key and token. *)
LEMMA OwnerNamesRow ==
  ASSUME Types, TokensOfRow, NEW f \in Flows, Owns(f)
  PROVE  /\ row = [pub |-> f, token |-> TokenOf(f)]
         /\ TokenOf(f) = row.token
<1>1. row.token \in Ids /\ tokens[row.token] = f /\ row \in Identities
  BY DEF TokensOfRow, Owns, Types
<1>2. HasToken(f)
  BY <1>1 DEF HasToken
<1>3. TokenOf(f) = row.token
  BY <1>1, <1>2, TokenOfHas DEF TokensOfRow
<1> QED
  BY <1>1, <1>3 DEF Identities, Owns

(* A card of the row's identity is genuine, and so is what is cut from it. *)
LEMMA CardIsGenuine ==
  ASSUME Types, row # Nil, NEW skills \in Catalogs, NEW k \in KeySet
  PROVE  /\ Card(row, skills) \in Cards
         /\ Writable(k, Bundle(Card(row, skills))[k])
         /\ Genuine(k, Bundle(Card(row, skills))[k])
         /\ [key |-> k, val |-> Bundle(Card(row, skills))[k]] \in Transactions
<1> DEFINE card == Card(row, skills)
<1>1. row \in Identities /\ row.pub \in Flows /\ row.token \in Nat
  BY DEF Types, Identities
<1>2. card \in Cards /\ card.pub = row.pub /\ card.token = row.token
  BY <1>1 DEF Card, Cards
<1>3. k \in {"card", "pubkey", "tokenId"}
  BY DEF KeySet, Keys
<1>4. /\ k = "card" => Bundle(card)[k] = card
      /\ k = "pubkey" => Bundle(card)[k] = row.pub
      /\ k = "tokenId" => Bundle(card)[k] = row.token
  BY <1>2 DEF Bundle
<1> HIDE DEF card
<1>5. Writable(k, Bundle(card)[k]) /\ Genuine(k, Bundle(card)[k])
  BY <1>1, <1>2, <1>3, <1>4 DEF Writable, Genuine
<1>6. Bundle(card)[k] \in Flows \cup Cards \cup Nat
  BY <1>1, <1>2, <1>3, <1>4
<1>7. [key |-> k, val |-> Bundle(card)[k]] \in Transactions
  BY <1>6 DEF Transactions
<1> QED
  BY <1>2, <1>5, <1>7 DEF card

-----------------------------------------------------------------------------
(* Only the insert of a flow that is saving changes the row, and only when *)
(* there is none.                                                          *)
Saves(f) ==
  /\ srv[f] = "saving"
  /\ row = Nil
  /\ row' = [pub |-> f, token |-> TokenOf(f)]
  /\ memo' \in {memo, Nil}
  /\ UNCHANGED <<catalog, resolver, records, pool, mishaps, flow, unmined, tokens, editVars>>
  /\ srv' \in {[srv EXCEPT ![f] = "minted"], [srv EXCEPT ![f] = "error"]}

LEMMA RowStep ==
  ASSUME [Next]_vars
  PROVE  row' = row \/ \E f \in Flows : Saves(f)
<1>1. CASE MintNext /\ UNCHANGED editVars
  <2>1. PICK f \in Flows : MintHandler(f) \/ PublishHandler(f) \/ Page(f) \/ MineMint(f)
    BY <1>1 DEF MintNext
  <2>2. CASE SaveIdentity(f)
    BY <1>1, <2>2 DEF SaveIdentity, Saves, SrvTo
  <2>3. CASE MintFails(f)
    BY <1>1, <2>3 DEF MintFails, Saves, SrvTo
  <2>4. CASE CheckName(f) \/ SendMint(f) \/ GetReceipt(f) \/ ReceiptTimesOut(f)
               \/ PublishHandler(f)
    BY <2>4 DEF CheckName, SendMint, GetReceipt, ReceiptTimesOut, PublishHandler,
       PublishRefused, LoadForPublish, Register, Registered, RegisterTimesOut, WriteRecord,
       PublishFails, nameVars
  <2>5. CASE Page(f) \/ MineMint(f)
    BY <2>5 DEF Page, RunCheck, StartFlow, FlowRefused, MintAnswered, PublishAnswered,
       Verified, VerifyTimesOut, LosesAnswer, MineMint, nameVars
  <2> QED
    BY <2>1, <2>2, <2>3, <2>4, <2>5 DEF MintHandler
<1>2. CASE CatalogNext
  BY <1>2 DEF CatalogNext, Admit, EditRefused, Handle, CountActive, CheckCap, WriteSkill,
     Relist, SendCard, EditFails, nameVars
<1>3. CASE MineRecord \/ Restart \/ UNCHANGED vars
  BY <1>3 DEF MineRecord, Restart, vars, nameVars
<1> QED
  BY <1>1, <1>2, <1>3 DEF Next

(* Tokens are only ever added, one at a time, to flows that wait for one.  *)
Mines(f) ==
  /\ f \in unmined
  /\ unmined' = unmined \ {f}
  /\ tokens' = Append(tokens, f)
  /\ UNCHANGED <<nameVars, mishaps, faults, flow, srv, editVars>>

Sends(f) ==
  /\ srv[f] = "sending"
  /\ unmined' = unmined \cup {f}
  /\ srv' \in {[srv EXCEPT ![f] = "waiting"], [srv EXCEPT ![f] = "error"]}
  /\ UNCHANGED <<nameVars, mishaps, flow, tokens, editVars>>

LEMMA TokenStep ==
  ASSUME [Next]_vars
  PROVE  \/ UNCHANGED <<tokens, unmined>>
         \/ \E f \in Flows : Mines(f) \/ Sends(f)
<1>1. CASE MintNext /\ UNCHANGED editVars
  <2>1. PICK f \in Flows : MintHandler(f) \/ PublishHandler(f) \/ Page(f) \/ MineMint(f)
    BY <1>1 DEF MintNext
  <2>2. CASE MineMint(f)
    BY <1>1, <2>2 DEF MineMint, Mines
  <2>3. CASE SendMint(f)
    BY <1>1, <2>3 DEF SendMint, Sends, SrvTo
  <2>4. CASE MintFails(f)
    BY <1>1, <2>4 DEF MintFails, Sends, SrvTo, nameVars
  <2>5. CASE CheckName(f) \/ SaveIdentity(f) \/ GetReceipt(f) \/ ReceiptTimesOut(f)
               \/ PublishHandler(f)
    BY <2>5 DEF CheckName, SaveIdentity, GetReceipt, ReceiptTimesOut, PublishHandler,
       PublishRefused, LoadForPublish, Register, Registered, RegisterTimesOut, WriteRecord,
       PublishFails
  <2>6. CASE Page(f)
    BY <2>6 DEF Page, RunCheck, StartFlow, FlowRefused, MintAnswered, PublishAnswered,
       Verified, VerifyTimesOut, LosesAnswer
  <2> QED
    BY <2>1, <2>2, <2>3, <2>4, <2>5, <2>6 DEF MintHandler
<1>2. CASE Restart \/ UNCHANGED vars
  BY <1>2 DEF Restart, MintCrash, vars, mintVars
<1>3. CASE UNCHANGED mintVars
  BY <1>3 DEF mintVars
<1> QED
  BY <1>1, <1>2, <1>3 DEF Next

(* A transaction is sent with the identity its sender knows.               *)
Entry(t) ==
  \/ t.key = "subnode" /\ t \in Transactions
  \/ /\ t.key \in KeySet /\ t \in Transactions
     /\ Writable(t.key, t.val) /\ Genuine(t.key, t.val)

LEMMA SendTextEntry ==
  ASSUME Types, NEW k \in KeySet, NEW skills \in Catalogs, NEW who, who = row, row # Nil,
         SendText(k, Card(who, skills))
  PROVE  \E t : Entry(t) /\ pool' = Append(pool, t)
  BY CardIsGenuine DEF SendText, Entry

LEMMA RegistrationEntry ==
  ASSUME NEW f \in Flows, SendRegistration(f)
  PROVE  \E t : Entry(t) /\ pool' = Append(pool, t)
<1>1. [key |-> "subnode", val |-> f] \in Transactions
  BY DEF Transactions
<1> QED
  BY <1>1 DEF SendRegistration, Entry

LEMMA PublisherOwns ==
  ASSUME Types, TokensOfRow, FlowStages, NEW f \in Flows, srv[f] \in PublishStates
  PROVE  row # Nil /\ row = [pub |-> f, token |-> TokenOf(f)]
<1>1. Owns(f)
  BY DEF FlowStages, AtStage
<1> QED
  BY <1>1, OwnerNamesRow DEF Owns

LEMMA NoSkillsCatalog == Nil \in Edits \cup {Nil} /\ BuiltinsOnly \in Catalogs
  BY DEF BuiltinsOnly, Catalogs

(* What a step does to what is sent and written.                           *)
PoolSame == UNCHANGED <<pool, records, resolver>>
PoolSent == UNCHANGED <<records, resolver>> /\ \E t : Entry(t) /\ pool' = Append(pool, t)
PoolMined == MineRecord /\ UNCHANGED <<mintVars, editVars>>

LEMMA PoolStep ==
  ASSUME IInv, [Next]_vars
  PROVE  PoolSame \/ PoolSent \/ PoolMined
<1> USE DEF IInv
<1>1. CASE MintNext /\ UNCHANGED editVars
  <2>1. PICK f \in Flows : MintHandler(f) \/ PublishHandler(f) \/ Page(f) \/ MineMint(f)
    BY <1>1 DEF MintNext
  <2>2. ASSUME SendRecord(f), srv[f] \in KeySet
        PROVE  \E t : Entry(t) /\ pool' = Append(pool, t)
    <3>1. row # Nil /\ row = [pub |-> f, token |-> TokenOf(f)]
      BY <2>2, PublisherOwns DEF PublishStates
    <3> QED
      BY <2>2, <3>1, SendTextEntry, NoSkillsCatalog DEF SendRecord
  <2>3. CASE WriteRecord(f)
    BY <2>2, <2>3 DEF WriteRecord, PoolSent
  <2>4. CASE Register(f)
    BY <2>4, RegistrationEntry DEF Register, PoolSent
  <2>5. CASE PublishFails(f)
    BY <2>2, <2>5, RegistrationEntry DEF PublishFails, PoolSent, PoolSame
  <2>6. CASE MintHandler(f) \/ PublishRefused(f) \/ LoadForPublish(f) \/ Registered(f)
               \/ RegisterTimesOut(f)
    BY <2>6 DEF MintHandler, CheckName, SaveIdentity, SendMint, MintFails, GetReceipt,
       ReceiptTimesOut, PublishRefused, LoadForPublish, Registered, RegisterTimesOut,
       PoolSame, nameVars
  <2>7. CASE Page(f) \/ MineMint(f)
    BY <2>7 DEF Page, RunCheck, StartFlow, FlowRefused, MintAnswered, PublishAnswered,
       Verified, VerifyTimesOut, LosesAnswer, MineMint, PoolSame, nameVars
  <2> QED
    BY <2>1, <2>3, <2>4, <2>5, <2>6, <2>7 DEF PublishHandler
<1>2. CASE CatalogNext /\ UNCHANGED mintVars
  <2>1. PICK e \in Edits : Admit(e) \/ EditRefused(e) \/ Handle(e)
    BY <1>2 DEF CatalogNext
  <2>2. ASSUME stage[e] = "sending", SendText("card", Card(id[e], listed[e]))
        PROVE  \E t : Entry(t) /\ pool' = Append(pool, t)
    <3>1. id[e] # Nil /\ id[e] = row
      BY <2>2 DEF KnowTheRow, Admitted
    <3>2. listed[e] \in Catalogs /\ "card" \in KeySet
      BY DEF Types, KeySet, Keys
    <3> QED
      BY <2>2, <3>1, <3>2, SendTextEntry
  <2>3. CASE SendCard(e)
    BY <2>2, <2>3 DEF SendCard, PoolSent
  <2>4. CASE EditFails(e)
    BY <2>2, <2>4 DEF EditFails, PoolSent, PoolSame
  <2>5. CASE Admit(e) \/ EditRefused(e) \/ CountActive(e) \/ CheckCap(e) \/ WriteSkill(e)
               \/ Relist(e)
    BY <2>5 DEF Admit, EditRefused, CountActive, CheckCap, WriteSkill, Relist, PoolSame,
       nameVars
  <2> QED
    BY <2>1, <2>3, <2>4, <2>5 DEF Handle
<1>3. CASE Restart \/ UNCHANGED vars
  BY <1>3 DEF Restart, vars, nameVars, PoolSame
<1> QED
  BY <1>1, <1>2, <1>3 DEF Next, PoolMined

-----------------------------------------------------------------------------
(* What was told stays what it is, or becomes the row's, or is forgotten.  *)
LEMMA MemoStep ==
  ASSUME [Next]_vars
  PROVE  memo' \in {memo, Nil, Known}
<1>1. CASE MintNext /\ UNCHANGED editVars
  <2>1. PICK f \in Flows : MintHandler(f) \/ PublishHandler(f) \/ Page(f) \/ MineMint(f)
    BY <1>1 DEF MintNext
  <2>2. CASE MintHandler(f)
    BY <2>2 DEF MintHandler, CheckName, SaveIdentity, SendMint, MintFails, GetReceipt,
       ReceiptTimesOut, nameVars
  <2>3. CASE PublishHandler(f)
    BY <2>3 DEF PublishHandler, PublishRefused, LoadForPublish, Register, Registered,
       RegisterTimesOut, WriteRecord, PublishFails, nameVars
  <2>4. CASE Page(f) \/ MineMint(f)
    BY <2>4 DEF Page, RunCheck, StartFlow, FlowRefused, MintAnswered, PublishAnswered,
       Verified, VerifyTimesOut, LosesAnswer, MineMint, nameVars
  <2> QED
    BY <2>1, <2>2, <2>3, <2>4
<1>2. CASE CatalogNext
  BY <1>2 DEF CatalogNext, Admit, EditRefused, Handle, CountActive, CheckCap, WriteSkill,
     Relist, SendCard, EditFails, nameVars
<1>3. CASE MineRecord \/ Restart \/ UNCHANGED vars
  BY <1>3 DEF MineRecord, Restart, vars, nameVars
<1> QED
  BY <1>1, <1>2, <1>3 DEF Next

(* A step of the edits keeps their types and what they know of the row.    *)
LEMMA EditStep ==
  ASSUME IInv, CatalogNext
  PROVE  /\ stage' \in [Edits -> EditStages]
         /\ id' \in [Edits -> Identities \cup {Nil}]
         /\ listed' \in [Edits -> Catalogs]
         /\ catalog' \in Catalogs
         /\ row' = row
         /\ \A e \in Edits : /\ id'[e] # Nil => id'[e] = row
                             /\ stage'[e] \in Admitted => id'[e] # Nil
<1> USE DEF IInv, Types, KnowTheRow
<1>1. PICK e \in Edits : Admit(e) \/ EditRefused(e) \/ Handle(e)
  BY DEF CatalogNext
<1>2. CASE Admit(e)
  <2>1. Known = row /\ Known # Nil
    BY <1>2 DEF Admit, Known
  <2>2. PICK s \in EditStages : stage' = [stage EXCEPT ![e] = s]
    BY <1>2 DEF Admit, StageTo, EditStages
  <2> QED
    BY <1>2, <2>1, <2>2 DEF Admit, Admitted
<1>3. CASE EditRefused(e) \/ CountActive(e) \/ CheckCap(e)
  BY <1>3 DEF EditRefused, CountActive, CheckCap, StageTo, EditStages, Admitted, nameVars
<1>4. CASE WriteSkill(e)
  <2>1. catalog' \in Catalogs
    BY <1>4 DEF WriteSkill, Catalogs
  <2> QED
    BY <1>4, <2>1 DEF WriteSkill, StageTo, EditStages, Admitted
<1>5. CASE Relist(e) \/ SendCard(e)
  BY <1>5 DEF Relist, SendCard, StageTo, EditStages, Admitted, nameVars
<1>6. CASE EditFails(e)
  <2>1. catalog' \in Catalogs
    BY <1>6 DEF EditFails, Catalogs
  <2> QED
    BY <1>6, <2>1 DEF EditFails, StageTo, EditStages, Admitted
<1> QED
  BY <1>1, <1>2, <1>3, <1>4, <1>5, <1>6 DEF Handle

(* A step of a flow keeps the types of flows.                              *)
SrvStates == {"none"} \cup MintStates \cup PublishStates \cup Answers

LEMMA FlowTypes ==
  ASSUME IInv, MintNext
  PROVE  flow' \in [Flows -> PageStates] /\ srv' \in [Flows -> SrvStates]
<1> USE DEF IInv, Types, SrvTo, PageTo, PageStates, SrvStates, MintStates, PublishStates,
        Answers, KeySet
<1>1. PICK f \in Flows : MintHandler(f) \/ PublishHandler(f) \/ Page(f) \/ MineMint(f)
  BY DEF MintNext
<1>2. CASE MintHandler(f)
  BY <1>2 DEF MintHandler, CheckName, SaveIdentity, SendMint, MintFails, GetReceipt,
     ReceiptTimesOut
<1>3. CASE WriteRecord(f)
  <2>1. AfterKey(srv[f]) \in SrvStates
    BY <1>3 DEF WriteRecord, AfterKey, Keys
  <2> QED
    BY <1>3, <2>1 DEF WriteRecord
<1>4. CASE Registered(f)
  <2>1. Keys[1] \in SrvStates
    BY DEF Keys
  <2> QED
    BY <1>4, <2>1 DEF Registered
<1>5. CASE PublishRefused(f) \/ LoadForPublish(f) \/ Register(f) \/ RegisterTimesOut(f)
             \/ PublishFails(f)
  BY <1>5 DEF PublishRefused, LoadForPublish, Register, RegisterTimesOut, PublishFails
<1>6. CASE Page(f) \/ MineMint(f)
  BY <1>6 DEF Page, RunCheck, StartFlow, FlowRefused, MintAnswered, PublishAnswered,
     Verified, VerifyTimesOut, LosesAnswer, MineMint
<1> QED
  BY <1>1, <1>2, <1>3, <1>4, <1>5, <1>6 DEF PublishHandler

(* The oldest transaction is one of the pool, and the rest still are.      *)
LEMMA MinedPool ==
  ASSUME Types, pool # <<>>
  PROVE  /\ Head(pool) \in Transactions
         /\ Head(pool) = pool[1] /\ 1 \in 1 .. Len(pool)
         /\ Tail(pool) \in Seq(Transactions)
         /\ \A i \in 1 .. Len(Tail(pool)) :
              Tail(pool)[i] = pool[i + 1] /\ i + 1 \in 1 .. Len(pool)
<1>1. pool \in Seq(Transactions)
  BY DEF Types
<1> QED
  BY <1>1, HeadTailProperties, LenProperties

LEMMA LongerPool ==
  ASSUME Types, NEW t, Entry(t), pool' = Append(pool, t)
  PROVE  /\ pool' \in Seq(Transactions)
         /\ Len(pool') = Len(pool) + 1 /\ Len(pool) \in Nat
         /\ \A i \in 1 .. Len(pool') : pool'[i] = IF i <= Len(pool) THEN pool[i] ELSE t
<1>1. pool \in Seq(Transactions) /\ t \in Transactions
  BY DEF Types, Entry
<1> QED
  BY <1>1, AppendProperties, LenProperties

-----------------------------------------------------------------------------
(* The flow whose transaction is mined has a token, and so has everybody   *)
(* who had one.                                                            *)
LEMMA MinedToken ==
  ASSUME Types, NEW f \in Flows, Mines(f)
  PROVE  /\ tokens' \in Seq(Flows)
         /\ Len(tokens) \in Nat /\ Len(tokens') = Len(tokens) + 1
         /\ \A i \in Ids : tokens'[i] = tokens[i]
         /\ tokens'[Len(tokens')] = f
         /\ \A g : HasToken(g)' <=> HasToken(g) \/ g = f
<1>1. tokens \in Seq(Flows) /\ tokens' = Append(tokens, f)
  BY DEF Types, Mines
<1>2. /\ tokens' \in Seq(Flows)
      /\ Len(tokens) \in Nat /\ Len(tokens') = Len(tokens) + 1
      /\ \A i \in Ids : tokens'[i] = tokens[i]
      /\ tokens'[Len(tokens')] = f
  BY <1>1, AppendProperties, LenProperties DEF Ids
<1>3. \A g : HasToken(g)' <=> HasToken(g) \/ g = f
  BY <1>2 DEF HasToken, Ids
<1> QED
  BY <1>2, <1>3

LEMMA SavedTypes ==
  ASSUME IInv, NEW f \in Flows, Saves(f)
  PROVE  row' \in Identities /\ row'.token \in Ids /\ tokens[row'.token] = f /\ row'.pub = f
<1>1. HasToken(f)
  BY DEF IInv, FlowStages, AtStage, Saves
<1>2. TokenOf(f) \in Ids /\ tokens[TokenOf(f)] = f
  BY <1>1, TokenOfHas
<1>3. TokenOf(f) \in Nat
  BY <1>2 DEF Ids
<1> QED
  BY <1>2, <1>3 DEF Saves, Identities

(* Every step keeps the types.                                             *)
LEMMA TypesStep == IInv /\ [Next]_vars => Types'
<1> SUFFICES ASSUME IInv, [Next]_vars PROVE Types'
  OBVIOUS
<1>0. Types
  BY DEF IInv
<1>1. row' \in Identities \cup {Nil}
  BY <1>0, RowStep, SavedTypes DEF Types
<1>2. memo' \in Identities \cup {Nil}
  BY <1>0, MemoStep DEF Types, Known
<1>3. tokens' \in Seq(Flows) /\ unmined' \in SUBSET Flows
  <2>1. CASE UNCHANGED <<tokens, unmined>>
    BY <1>0, <2>1 DEF Types
  <2>2. ASSUME NEW f \in Flows, Mines(f) \/ Sends(f)
        PROVE  tokens' \in Seq(Flows) /\ unmined' \in SUBSET Flows
    BY <1>0, <2>2, MinedToken DEF Types, Mines, Sends
  <2> QED
    BY <2>1, <2>2, TokenStep
<1>4. pool' \in Seq(Transactions) /\ DOMAIN records' = KeySet
  <2>1. CASE PoolSame
    BY <1>0, <2>1 DEF PoolSame, Types
  <2>2. CASE PoolSent
    BY <1>0, <2>2, LongerPool DEF PoolSent, Types
  <2>3. CASE PoolMined
    <3>1. pool' \in Seq(Transactions)
      BY <1>0, <2>3, MinedPool DEF PoolMined, MineRecord
    <3>2. DOMAIN records' = KeySet
      BY <1>0, <2>3 DEF PoolMined, MineRecord, Types
    <3> QED
      BY <3>1, <3>2
  <2> QED
    BY <2>1, <2>2, <2>3, PoolStep
<1>5. /\ flow' \in [Flows -> PageStates]
      /\ srv' \in [Flows -> {"none"} \cup MintStates \cup PublishStates \cup Answers]
  <2>1. CASE MintNext
    BY <2>1, FlowTypes DEF SrvStates
  <2>2. CASE Restart
    BY <1>0, <2>2 DEF Restart, MintCrash, Types, PageStates
  <2>3. CASE UNCHANGED mintVars
    BY <1>0, <2>3 DEF mintVars, Types
  <2> QED
    BY <2>1, <2>2, <2>3 DEF Next, vars, mintVars
<1>6. /\ stage' \in [Edits -> EditStages]
      /\ id' \in [Edits -> Identities \cup {Nil}]
      /\ listed' \in [Edits -> Catalogs]
  <2>1. CASE CatalogNext
    BY <2>1, EditStep
  <2>2. CASE Restart
    BY <1>0, <2>2 DEF Restart, CatalogCrash, Types, EditStages
  <2>3. CASE UNCHANGED editVars
    BY <1>0, <2>3 DEF editVars, Types
  <2> QED
    BY <2>1, <2>2, <2>3 DEF Next, vars, editVars
<1>7. catalog' \in Catalogs
  <2>1. CASE CatalogNext
    BY <2>1, EditStep
  <2>2. CASE MintNext
    <3>1. PICK f \in Flows : MintHandler(f) \/ PublishHandler(f) \/ Page(f) \/ MineMint(f)
      BY <2>2 DEF MintNext
    <3>2. CASE MintHandler(f)
      BY <1>0, <3>2 DEF Types, MintHandler, CheckName, SaveIdentity, SendMint, MintFails,
         GetReceipt, ReceiptTimesOut, nameVars
    <3>3. CASE PublishHandler(f)
      BY <1>0, <3>3 DEF Types, PublishHandler, PublishRefused, LoadForPublish, Register,
         Registered, RegisterTimesOut, WriteRecord, PublishFails, nameVars
    <3>4. CASE Page(f) \/ MineMint(f)
      BY <1>0, <3>4 DEF Types, Page, RunCheck, StartFlow, FlowRefused, MintAnswered,
         PublishAnswered, Verified, VerifyTimesOut, LosesAnswer, MineMint, nameVars
    <3> QED
      BY <3>1, <3>2, <3>3, <3>4
  <2>3. CASE MineRecord \/ Restart \/ UNCHANGED vars
    BY <1>0, <2>3 DEF Types, MineRecord, Restart, vars, nameVars
  <2> QED
    BY <2>1, <2>2, <2>3 DEF Next
<1> QED
  BY <1>1, <1>2, <1>3, <1>4, <1>5, <1>6, <1>7 DEF Types

(* Every step keeps what is known of the row.                              *)
LEMMA KnowStep == IInv /\ [Next]_vars => KnowTheRow'
<1> SUFFICES ASSUME IInv, [Next]_vars PROVE KnowTheRow'
  OBVIOUS
<1>0. KnowTheRow
  BY DEF IInv
<1>1. memo' # Nil => memo' = row'
  <2>1. CASE row' = row
    BY <1>0, <2>1, MemoStep DEF KnowTheRow, Known
  <2>2. ASSUME NEW f \in Flows, Saves(f) PROVE memo' = Nil
    BY <1>0, <2>2 DEF KnowTheRow, Saves
  <2> QED
    BY <2>1, <2>2, RowStep
<1>2. ASSUME NEW e \in Edits
      PROVE  /\ id'[e] # Nil => id'[e] = row'
             /\ stage'[e] \in Admitted => id'[e] # Nil
  <2>1. CASE CatalogNext
    BY <2>1, EditStep
  <2>2. CASE Restart
    BY <1>0, <2>2 DEF Restart, CatalogCrash, KnowTheRow, Admitted
  <2>3. CASE UNCHANGED editVars
    <3>1. id' = id /\ stage' = stage
      BY <2>3 DEF editVars
    <3>2. CASE row' = row
      BY <1>0, <3>1, <3>2 DEF KnowTheRow
    <3>3. ASSUME NEW f \in Flows, Saves(f) PROVE id[e] = Nil
      BY <1>0, <3>3 DEF KnowTheRow, Saves
    <3> QED
      BY <1>0, <3>1, <3>2, <3>3, RowStep DEF KnowTheRow
  <2> QED
    BY <2>1, <2>2, <2>3 DEF Next, vars, editVars
<1> QED
  BY <1>1, <1>2 DEF KnowTheRow

(* The row is never bound to another identity.                             *)
LEMMA RowStays == [Next]_vars => (row # Nil => row' = row)
  BY RowStep DEF Saves

(* A row that something is genuine by stays.                               *)
LEMMA GenuineStays ==
  ASSUME [Next]_vars, NEW k, NEW v, Genuine(k, v)
  PROVE  row' = row
  BY RowStays DEF Genuine

(* Every step writes and sends what is the row's.                          *)
LEMMA WrittenStep == IInv /\ [Next]_vars => WrittenIsGenuine'
<1> SUFFICES ASSUME IInv, [Next]_vars PROVE WrittenIsGenuine'
  OBVIOUS
<1>0. Types /\ WrittenIsGenuine
  BY DEF IInv
<1>1. \A k \in KeySet : records'[k] # Nil =>
        (\E i \in 1 .. Len(pool) : pool[i].key = k /\ pool[i].val = records'[k])
          \/ records'[k] = records[k]
  <2>1. CASE PoolMined
    BY <1>0, <2>1, MinedPool DEF PoolMined, MineRecord, Types
  <2> QED
    BY <2>1, PoolStep DEF PoolSame, PoolSent
<1>2. ASSUME NEW k \in KeySet, records'[k] # Nil
      PROVE  Genuine(k, records[k])' 
  <2>1. Genuine(k, records'[k])
    BY <1>0, <1>1, <1>2 DEF WrittenIsGenuine
  <2>2. row' = row
    BY <2>1, GenuineStays
  <2> QED
    BY <2>1, <2>2 DEF Genuine
<1>3. ASSUME NEW i \in 1 .. Len(pool'), pool'[i].key \in KeySet
      PROVE  (Writable(pool[i].key, pool[i].val) /\ Genuine(pool[i].key, pool[i].val))'
  <2>1. Writable(pool'[i].key, pool'[i].val) /\ Genuine(pool'[i].key, pool'[i].val)
    <3>1. CASE PoolSame
      BY <1>0, <1>3, <3>1 DEF PoolSame, WrittenIsGenuine
    <3>2. ASSUME NEW t, Entry(t), pool' = Append(pool, t)
          PROVE  Writable(pool'[i].key, pool'[i].val) /\ Genuine(pool'[i].key, pool'[i].val)
      <4>1. pool'[i] = IF i <= Len(pool) THEN pool[i] ELSE t
        BY <1>0, <3>2, LongerPool
      <4>2. CASE i <= Len(pool)
        BY <1>0, <1>3, <3>2, <4>1, <4>2, LongerPool DEF WrittenIsGenuine
      <4>3. CASE ~(i <= Len(pool))
        <5>1. pool'[i] = t
          BY <4>1, <4>3
        <5>2. "subnode" \notin KeySet
          BY DEF KeySet, Keys
        <5> QED
          BY <1>3, <3>2, <5>1, <5>2 DEF Entry
      <4> QED
        BY <4>2, <4>3
    <3>3. CASE PoolMined
      <4>1. pool # <<>> /\ pool' = Tail(pool)
        BY <3>3 DEF PoolMined, MineRecord
      <4>2. pool'[i] = pool[i + 1] /\ i + 1 \in 1 .. Len(pool)
        BY <1>0, <4>1, MinedPool
      <4> QED
        BY <1>0, <1>3, <4>2 DEF WrittenIsGenuine
    <3> QED
      BY <3>1, <3>2, <3>3, PoolStep DEF PoolSent
  <2>2. row' = row
    BY <2>1, GenuineStays
  <2> QED
    BY <2>1, <2>2 DEF Genuine, Writable
<1> QED
  BY <1>2, <1>3 DEF WrittenIsGenuine

(* A card that can be read can be read for good.                           *)
LEMMA CardStays ==
  ASSUME IInv, [Next]_vars, Text("card") # Nil
  PROVE  Text("card")' # Nil
<1>0. Types /\ WrittenIsGenuine /\ "card" \in KeySet
  BY DEF IInv, KeySet, Keys
<1>1. resolver /\ records["card"] # Nil
  BY DEF Text
<1>2. CASE PoolSame \/ PoolSent
  BY <1>1, <1>2 DEF PoolSame, PoolSent, Text
<1>3. CASE PoolMined
  <2> DEFINE tx == Head(pool)
  <2>1. /\ pool # <<>>
        /\ IF tx.key = "subnode"
           THEN resolver' = TRUE /\ UNCHANGED records
           ELSE records' = [records EXCEPT ![tx.key] = tx.val] /\ UNCHANGED resolver
    BY <1>3 DEF PoolMined, MineRecord
  <2>2. tx.key = "card" => tx.val \in Cards
    BY <1>0, <2>1, MinedPool DEF WrittenIsGenuine, Writable
  <2>3. Nil \notin Cards
    BY HostedAssumption DEF Cards, Catalogs
  <2>4. records'["card"] # Nil
    BY <1>0, <1>1, <2>1, <2>2, <2>3 DEF Types
  <2> QED
    BY <1>1, <2>1, <2>4 DEF Text
<1> QED
  BY <1>2, <1>3, PoolStep

(* Every step keeps what is known of tokens.                               *)
LEMMA TokensOfRowStep == IInv /\ [Next]_vars => TokensOfRow'
<1> SUFFICES ASSUME IInv, [Next]_vars PROVE TokensOfRow'
  OBVIOUS
<1>0. Types /\ TokensOfRow /\ FlowStages
  BY DEF IInv
<1>1. CASE UNCHANGED <<tokens, unmined>>
  <2>1. CASE row' = row
    BY <1>0, <1>1, <2>1 DEF TokensOfRow, Ids, HasToken
  <2>2. ASSUME NEW f \in Flows, Saves(f) PROVE TokensOfRow'
    BY <1>0, <1>1, <2>2, SavedTypes DEF TokensOfRow, Ids, HasToken
  <2> QED
    BY <2>1, <2>2, RowStep
<1>2. ASSUME NEW f \in Flows, Mines(f) PROVE TokensOfRow'
  <2>1. row' = row /\ unmined' = unmined \ {f} /\ f \in unmined
    BY <1>2 DEF Mines, nameVars
  <2>2. ~HasToken(f)
    BY <1>0, <2>1 DEF TokensOfRow
  <2>3. row' # Nil => row'.token \in Ids' /\ tokens'[row'.token] = row'.pub
    BY <1>0, <1>2, <2>1, MinedToken DEF TokensOfRow, Ids
  <2>4. \A i, j \in Ids' : tokens'[i] = tokens'[j] => i = j
    <3>1. ASSUME NEW i \in Ids', NEW j \in Ids', tokens'[i] = tokens'[j], i \in Ids
          PROVE  i = j
      BY <1>0, <1>2, <2>2, <3>1, MinedToken DEF TokensOfRow, Ids, HasToken
    <3>2. ASSUME NEW i \in Ids', NEW j \in Ids', i \notin Ids, j \notin Ids
          PROVE  i = j
      BY <1>0, <1>2, <3>2, MinedToken DEF Ids
    <3> QED
      BY <3>1, <3>2
  <2>5. \A g \in unmined' : ~HasToken(g)'
    BY <1>0, <1>2, <2>1, MinedToken DEF TokensOfRow
  <2> QED
    BY <2>3, <2>4, <2>5 DEF TokensOfRow
<1>3. ASSUME NEW f \in Flows, Sends(f) PROVE TokensOfRow'
  <2>1. row' = row /\ tokens' = tokens /\ unmined' = unmined \cup {f}
    BY <1>3 DEF Sends, nameVars
  <2>2. ~HasToken(f)
    BY <1>0, <1>3 DEF FlowStages, AtStage, Sends
  <2> QED
    BY <1>0, <2>1, <2>2 DEF TokensOfRow, Ids, HasToken
<1> QED
  BY <1>1, <1>2, <1>3, TokenStep

(* What a flow owns and what can be read is not taken away.                *)
LEMMA KeepsWhatItHas ==
  ASSUME IInv, [Next]_vars, NEW f
  PROVE  /\ Owns(f) => Owns(f)'
         /\ HasToken(f) => HasToken(f)'
         /\ Text("card") # Nil => Text("card")' # Nil
<1>1. Owns(f) => Owns(f)'
  BY RowStays DEF Owns
<1>2. HasToken(f) => HasToken(f)'
  <2>1. CASE tokens' = tokens
    BY <2>1 DEF HasToken, Ids
  <2>2. ASSUME NEW g \in Flows, Mines(g) PROVE HasToken(f) => HasToken(f)'
    BY <2>2, MinedToken DEF IInv
  <2> QED
    BY <2>1, <2>2, TokenStep DEF Sends
<1> QED
  BY <1>1, <1>2, CardStays

(* A flow for which nothing moves stays where it is.                       *)
LEMMA StillAtStage ==
  ASSUME IInv, [Next]_vars, NEW f, AtStage(f),
         flow'[f] = flow[f], srv'[f] = srv[f],
         f \in unmined' => f \in unmined, HasToken(f)' => HasToken(f)
  PROVE  AtStage(f)'
  BY KeepsWhatItHas DEF AtStage

(* A step of the mint handler.                                             *)
LEMMA MintHandlerStage ==
  ASSUME IInv, [Next]_vars, NEW f \in Flows, MintHandler(f)
  PROVE  AtStage(f)'
<1>0. Types /\ TokensOfRow /\ AtStage(f)
  BY DEF IInv, FlowStages
<1> USE <1>0 DEF SrvTo, PublishStates, KeySet, Keys, MintStates
<1>1. CASE CheckName(f)
  BY <1>1, KeepsWhatItHas DEF CheckName, AtStage, HasToken, Ids, Types
<1>2. CASE SendMint(f)
  BY <1>2, KeepsWhatItHas DEF SendMint, AtStage, HasToken, Ids, Types
<1>3. CASE GetReceipt(f) \/ ReceiptTimesOut(f)
  BY <1>3, KeepsWhatItHas DEF GetReceipt, ReceiptTimesOut, AtStage, HasToken, Ids, Types
<1>4. CASE SaveIdentity(f)
  <2>1. srv'[f] = "minted" => Owns(f)'
    <3>1. HasToken(f)
      BY <1>4 DEF SaveIdentity, AtStage
    <3>2. TokenOf(f) \in Nat
      BY <3>1, TokenOfHas DEF Ids
    <3>3. [pub |-> f, token |-> TokenOf(f)] # Nil
      BY <3>2, HostedAssumption
    <3> QED
      BY <1>4, <3>3 DEF SaveIdentity, Owns, Types
  <2> QED
    BY <1>4, <2>1, KeepsWhatItHas DEF SaveIdentity, AtStage, HasToken, Ids, Types
<1>5. CASE MintFails(f)
  BY <1>5, KeepsWhatItHas DEF MintFails, AtStage, HasToken, Ids, Types
<1> QED
  BY <1>1, <1>2, <1>3, <1>4, <1>5 DEF MintHandler

(* A step of the publish handler.                                          *)
LEMMA PublishHandlerStage ==
  ASSUME IInv, [Next]_vars, NEW f \in Flows, PublishHandler(f)
  PROVE  AtStage(f)'
<1>0. Types /\ TokensOfRow /\ AtStage(f)
  BY DEF IInv, FlowStages
<1>1. srv[f] \in PublishStates
  BY DEF PublishHandler, PublishRefused, LoadForPublish, Register, Registered,
     RegisterTimesOut, WriteRecord, PublishFails, PublishStates
<1>2. Owns(f) /\ Owns(f)'
  BY <1>0, <1>1, KeepsWhatItHas DEF AtStage
<1>3. /\ UNCHANGED <<flow, unmined, tokens>>
      /\ srv'[f] \notin {"checking", "sending", "saving", "none"}
  <2> USE <1>0 DEF SrvTo, Types, KeySet, Keys
  <2>1. CASE WriteRecord(f)
    BY <2>1 DEF WriteRecord, AfterKey
  <2>2. CASE PublishRefused(f) \/ LoadForPublish(f) \/ Register(f)
    BY <2>2 DEF PublishRefused, LoadForPublish, Register
  <2>3. CASE Registered(f) \/ RegisterTimesOut(f) \/ PublishFails(f)
    BY <2>3 DEF Registered, RegisterTimesOut, PublishFails
  <2> QED
    BY <2>1, <2>2, <2>3 DEF PublishHandler
<1>4. flow[f] \notin {"idle", "free", "taken"}
  BY <1>0, <1>1 DEF AtStage, PublishStates, KeySet, Keys
<1> QED
  BY <1>0, <1>2, <1>3, <1>4, KeepsWhatItHas DEF AtStage

(* A step of the page.                                                     *)
LEMMA PageStage ==
  ASSUME IInv, [Next]_vars, NEW f \in Flows, Page(f)
  PROVE  AtStage(f)'
<1>0. Types /\ AtStage(f)
  BY DEF IInv, FlowStages
<1>1. UNCHANGED <<unmined, tokens>> /\ (HasToken(f)' <=> HasToken(f))
  BY DEF Page, RunCheck, StartFlow, FlowRefused, MintAnswered, PublishAnswered,
     Verified, VerifyTimesOut, LosesAnswer, HasToken, Ids
<1> USE <1>0, <1>1 DEF PageTo, SrvTo, Types, PublishStates, KeySet, Keys
<1>2. CASE RunCheck(f) \/ StartFlow(f) \/ FlowRefused(f)
  BY <1>2, KeepsWhatItHas DEF RunCheck, StartFlow, FlowRefused, CanStart, AtStage
<1>3. CASE MintAnswered(f)
  BY <1>3, KeepsWhatItHas DEF MintAnswered, AtStage
<1>4. CASE PublishAnswered(f)
  BY <1>4, KeepsWhatItHas DEF PublishAnswered, AtStage
<1>5. CASE Verified(f) \/ VerifyTimesOut(f) \/ LosesAnswer(f)
  BY <1>5, KeepsWhatItHas DEF Verified, VerifyTimesOut, LosesAnswer, AtStage
<1> QED
  BY <1>2, <1>3, <1>4, <1>5 DEF Page

(* Every step keeps every flow at a stage it may have reached.             *)
LEMMA FlowStagesStep == IInv /\ [Next]_vars => FlowStages'
<1> SUFFICES ASSUME IInv, [Next]_vars, NEW g \in Flows PROVE AtStage(g)'
  BY DEF FlowStages
<1>0. Types /\ TokensOfRow /\ AtStage(g)
  BY DEF IInv, FlowStages
<1>1. CASE MintNext /\ UNCHANGED editVars
  <2>1. PICK f \in Flows : MintHandler(f) \/ PublishHandler(f) \/ Page(f) \/ MineMint(f)
    BY <1>1 DEF MintNext
  <2>2. CASE MineMint(f)
    <3>1. Mines(f)
      BY <1>1, <2>2 DEF MineMint, Mines
    <3>2. flow' = flow /\ srv' = srv /\ (g \in unmined' => g \in unmined)
      BY <3>1 DEF Mines
    <3>3. g # f => (HasToken(g)' => HasToken(g))
      BY <1>0, <3>1, MinedToken
    <3>4. CASE g = f
      BY <1>0, <3>1, <3>2, <3>4, KeepsWhatItHas DEF AtStage, Mines
    <3> QED
      BY <1>0, <3>2, <3>3, <3>4, StillAtStage
  <2>3. CASE g = f
    BY <2>1, <2>2, <2>3, MintHandlerStage, PublishHandlerStage, PageStage
  <2>4. CASE g # f /\ ~MineMint(f)
    <3>1. flow'[g] = flow[g] /\ srv'[g] = srv[g]
      <4> USE <1>0, <2>4 DEF Types, SrvTo, PageTo
      <4>1. CASE MintHandler(f)
        BY <4>1 DEF MintHandler, CheckName, SaveIdentity, SendMint, MintFails, GetReceipt,
           ReceiptTimesOut
      <4>2. CASE PublishHandler(f)
        BY <4>2 DEF PublishHandler, PublishRefused, LoadForPublish, Register, Registered,
           RegisterTimesOut, WriteRecord, PublishFails
      <4>3. CASE Page(f)
        BY <4>3 DEF Page, RunCheck, StartFlow, FlowRefused, MintAnswered, PublishAnswered,
           Verified, VerifyTimesOut, LosesAnswer
      <4> QED
        BY <2>1, <4>1, <4>2, <4>3
    <3>2. tokens' = tokens /\ (g \in unmined' => g \in unmined)
      <4>1. CASE MintHandler(f)
        BY <2>4, <4>1 DEF MintHandler, CheckName, SaveIdentity, SendMint, MintFails,
           GetReceipt, ReceiptTimesOut
      <4>2. CASE PublishHandler(f)
        BY <4>2 DEF PublishHandler, PublishRefused, LoadForPublish, Register, Registered,
           RegisterTimesOut, WriteRecord, PublishFails
      <4>3. CASE Page(f)
        BY <4>3 DEF Page, RunCheck, StartFlow, FlowRefused, MintAnswered, PublishAnswered,
           Verified, VerifyTimesOut, LosesAnswer
      <4> QED
        BY <2>1, <2>4, <4>1, <4>2, <4>3
    <3> QED
      BY <1>0, <3>1, <3>2, StillAtStage DEF HasToken, Ids
  <2> QED
    BY <2>2, <2>3, <2>4
<1>2. CASE Restart
  BY <1>0, <1>2, KeepsWhatItHas DEF Restart, MintCrash, AtStage, HasToken, Ids, PublishStates,
     KeySet, Keys
<1>3. CASE UNCHANGED mintVars
  BY <1>0, <1>3, StillAtStage DEF mintVars, HasToken, Ids
<1> QED
  BY <1>1, <1>2, <1>3 DEF Next, vars, mintVars

-----------------------------------------------------------------------------
(* Only a flow whose name is looked up begins to be one that may send, and *)
(* the look-up notes every other that has begun.                           *)
LEMMA StartsWhenLookedUp ==
  ASSUME IInv, [Next]_vars, NEW f \in Flows, Started(f)', ~Started(f)
  PROVE  CheckName(f)
<1>0. Types /\ AtStage(f)
  BY DEF IInv, FlowStages
<1>1. CASE MintNext
  <2>1. PICK h \in Flows : MintHandler(h) \/ PublishHandler(h) \/ Page(h) \/ MineMint(h)
    BY <1>1 DEF MintNext
  <2> USE <1>0 DEF SrvTo, PageTo, Types, Started, HasToken, Ids
  <2>2. CASE CheckName(h) \/ SendMint(h) \/ GetReceipt(h) \/ ReceiptTimesOut(h)
               \/ SaveIdentity(h) \/ MintFails(h)
    <3>1. CASE CheckName(h)
      BY <3>1 DEF CheckName
    <3>2. CASE SendMint(h)
      BY <3>2 DEF SendMint
    <3>3. CASE GetReceipt(h) \/ ReceiptTimesOut(h)
      BY <3>3 DEF GetReceipt, ReceiptTimesOut
    <3>4. CASE SaveIdentity(h)
      BY <3>4 DEF SaveIdentity
    <3>5. CASE MintFails(h)
      BY <3>5 DEF MintFails
    <3> QED
      BY <2>2, <3>1, <3>2, <3>3, <3>4, <3>5
  <2>3. CASE PublishHandler(h)
    <3>1. UNCHANGED <<unmined, tokens>>
      BY <2>3 DEF PublishHandler, PublishRefused, LoadForPublish, Register, Registered,
         RegisterTimesOut, WriteRecord, PublishFails
    <3>2. srv'[f] \in {"sending", "waiting", "saving"} => srv[f] = srv'[f]
      <4>1. CASE WriteRecord(h)
        BY <4>1 DEF WriteRecord, AfterKey, KeySet, Keys
      <4>2. CASE Registered(h)
        BY <4>2 DEF Registered, Keys
      <4>3. CASE PublishRefused(h) \/ LoadForPublish(h) \/ Register(h)
                   \/ RegisterTimesOut(h) \/ PublishFails(h)
        BY <4>3 DEF PublishRefused, LoadForPublish, Register, RegisterTimesOut, PublishFails
      <4> QED
        BY <2>3, <4>1, <4>2, <4>3 DEF PublishHandler
    <3> QED
      BY <3>1, <3>2
  <2>4. CASE Page(h)
    BY <2>4 DEF Page, RunCheck, StartFlow, FlowRefused, MintAnswered, PublishAnswered,
       Verified, VerifyTimesOut, LosesAnswer
  <2>5. CASE MineMint(h)
    <3>1. tokens \in Seq(Flows) /\ tokens' = Append(tokens, h) /\ h \in unmined
      BY <2>5 DEF MineMint
    <3>2. HasToken(f)' => HasToken(f) \/ f = h
      BY <3>1, AppendProperties, LenProperties
    <3> QED
      BY <2>5, <3>1, <3>2 DEF MineMint
  <2> QED
    BY <2>1, <2>2, <2>3, <2>4, <2>5 DEF MintHandler
<1>2. CASE Restart
  BY <1>2 DEF Restart, MintCrash, Started, HasToken, Ids
<1>3. CASE UNCHANGED mintVars
  BY <1>3 DEF mintVars, Started, HasToken, Ids
<1> QED
  BY <1>1, <1>2, <1>3 DEF Next, vars, mintVars

LEMMA LookUpNotes ==
  ASSUME IInv, NEW f \in Flows, NEW g \in Flows, f # g, CheckName(f), Started(g),
         srv'[f] = "sending"
  PROVE  mishaps' \cap {"overlap", "halfway"} # {}
<1>0. Types /\ AtStage(g)
  BY DEF IInv, FlowStages
<1>1. Text("card") = Nil
  BY <1>0 DEF CheckName, SrvTo, Types
<1>2. flow[g] # "done"
  BY <1>0, <1>1 DEF AtStage
<1>3. flow[g] \notin {"idle", "free", "taken"}
  BY <1>0 DEF AtStage, Started
<1>4. Underway(g) \/ Halfway(g)
  BY <1>0, <1>2, <1>3 DEF Types, PageStates, Underway, Halfway, Started, MintStates
<1> DEFINE note(h) == IF Underway(h) THEN {"overlap"} ELSE IF Halfway(h) THEN {"halfway"} ELSE {}
<1>5. note(g) \cap {"overlap", "halfway"} # {}
  BY <1>4
<1>6. mishaps' = mishaps \cup UNION {note(h) : h \in Flows \ {f}}
  BY <1>0, <1>1 DEF CheckName, Met, SrvTo, Types, Note
<1> HIDE DEF note
<1>7. note(g) \subseteq mishaps'
  BY <1>6
<1> QED
  BY <1>5, <1>7

(* What happened is not forgotten.                                         *)
LEMMA MishapsStay ==
  ASSUME [Next]_vars
  PROVE  mishaps \subseteq mishaps'
<1>1. CASE MintNext
  <2>1. PICK f \in Flows : MintHandler(f) \/ PublishHandler(f) \/ Page(f) \/ MineMint(f)
    BY <1>1 DEF MintNext
  <2>2. CASE MintHandler(f)
    BY <2>2 DEF MintHandler, CheckName, SaveIdentity, SendMint, MintFails, GetReceipt,
       ReceiptTimesOut, Note
  <2>3. CASE PublishHandler(f)
    BY <2>3 DEF PublishHandler, PublishRefused, LoadForPublish, Register, Registered,
       RegisterTimesOut, WriteRecord, PublishFails, SendRecord, Note
  <2>4. CASE Page(f) \/ MineMint(f)
    BY <2>4 DEF Page, RunCheck, StartFlow, FlowRefused, MintAnswered, PublishAnswered,
       Verified, VerifyTimesOut, LosesAnswer, MineMint
  <2> QED
    BY <2>1, <2>2, <2>3, <2>4
<1>2. CASE CatalogNext
  BY <1>2 DEF CatalogNext, Admit, EditRefused, Handle, CountActive, CheckCap, WriteSkill,
     Relist, SendCard, EditFails, Note
<1>3. CASE MineRecord \/ Restart \/ UNCHANGED vars
  BY <1>3 DEF MineRecord, Restart, CatalogCrash, Note, vars
<1> QED
  BY <1>1, <1>2, <1>3 DEF Next

(* Every step keeps a second flow from starting without a mishap.          *)
LEMMA OneStartedStep == IInv /\ [Next]_vars => OneStarted'
<1> SUFFICES ASSUME IInv, [Next]_vars, mishaps' \cap {"overlap", "halfway"} = {},
                    NEW f \in Flows, NEW g \in Flows, Started(f)', Started(g)', f # g
             PROVE  FALSE
  BY DEF OneStarted
<1>1. ~(Started(f) /\ Started(g))
  BY MishapsStay DEF IInv, OneStarted
<1>2. ASSUME NEW h \in Flows, NEW k \in Flows, h # k, ~Started(h), Started(h)', Started(k)'
      PROVE  FALSE
  <2>1. CheckName(h)
    BY <1>2, StartsWhenLookedUp
  <2>2. UNCHANGED <<unmined, tokens>> /\ srv'[k] = srv[k]
    BY <1>2, <2>1 DEF CheckName, SrvTo, IInv, Types
  <2>3. srv'[h] = "sending" /\ Started(k)
    BY <1>2, <2>1, <2>2 DEF CheckName, SrvTo, IInv, Types, Started, HasToken, Ids
  <2> QED
    BY <1>2, <2>1, <2>3, LookUpNotes
<1> QED
  BY <1>1, <1>2

(* The invariant holds of a handle nobody has touched.                     *)
LEMMA InitIInv == Init => IInv
<1> SUFFICES ASSUME Init PROVE IInv
  OBVIOUS
<1> USE DEF Init, NameInit, MintInit, CatalogInit
<1>1. Types
  BY NoSkillsCatalog, EmptySeq DEF Types, PageStates, EditStages
<1>2. KnowTheRow /\ WrittenIsGenuine
  BY DEF KnowTheRow, WrittenIsGenuine, Admitted
<1>3. \A f \in Flows : ~HasToken(f)
  <2>1. Len(tokens) = 0
    BY EmptySeq
  <2>2. Ids = {}
    BY <2>1 DEF Ids
  <2> QED
    BY <2>2 DEF HasToken
<1>4. TokensOfRow
  BY DEF TokensOfRow, Ids
<1>5. FlowStages
  <2> SUFFICES ASSUME NEW f \in Flows PROVE AtStage(f)
    BY DEF FlowStages
  <2>1. flow[f] = "idle" /\ srv[f] = "none" /\ f \notin unmined /\ ~HasToken(f)
    BY <1>3
  <2> QED
    BY <2>1 DEF AtStage, PublishStates, KeySet, Keys
<1>6. OneStarted
  BY <1>3 DEF OneStarted, Started
<1> QED
  BY <1>1, <1>2, <1>4, <1>5, <1>6 DEF IInv

LEMMA StepIInv == IInv /\ [Next]_vars => IInv'
  BY TypesStep, KnowStep, WrittenStep, TokensOfRowStep, FlowStagesStep, OneStartedStep
     DEF IInv

-----------------------------------------------------------------------------
(* The inductive invariant holds of every handle.                          *)
THEOREM Coherent == Spec => []IInv
  BY InitIInv, StepIInv, PTL DEF Spec

(* Every record that can be read under the name is the row's, whatever     *)
(* flows, edits, failures and restarts interleave.                         *)
THEOREM RecordsAreTheRows == Spec => []RecordsMatchRow
<1>1. IInv => RecordsMatchRow
  BY DEF IInv, WrittenIsGenuine, RecordsMatchRow, Text
<1> QED
  BY <1>1, Coherent, PTL

(* The row of a handle never changes hands.                                *)
THEOREM NeverRebound == Spec => RowNeverRebound
<1>1. [Next]_vars => [row # Nil => row' = row]_vars
  BY RowStays
<1> QED
  BY <1>1, PTL DEF Spec, RowNeverRebound

(* A page that reports success owns the row, the token and the card.       *)
THEOREM DoneIsOwned == Spec => []DoneMeansOwned
<1>1. IInv => DoneMeansOwned
  BY DEF IInv, FlowStages, AtStage, Owns, TokensOfRow, DoneMeansOwned, ShowsDone
<1> QED
  BY <1>1, Coherent, PTL

(* No handle gets a second token unless two flows overlapped or one had    *)
(* ended halfway.                                                          *)
THEOREM OneTokenWithoutMishap == Spec => []SecondTokenOnlyByMishap
<1>1. ASSUME IInv, Len(tokens) > 1, mishaps \cap {"overlap", "halfway"} = {}
      PROVE  FALSE
  <2>1. tokens \in Seq(Flows) /\ Len(tokens) \in Nat
    BY <1>1, LenProperties DEF IInv, Types
  <2>2. 1 \in Ids /\ 2 \in Ids /\ tokens[1] \in Flows /\ tokens[2] \in Flows
    BY <1>1, <2>1, ElementOfSeq DEF Ids
  <2>3. Started(tokens[1]) /\ Started(tokens[2])
    BY <2>2 DEF Started, HasToken
  <2>4. tokens[1] = tokens[2]
    BY <1>1, <2>2, <2>3 DEF IInv, OneStarted
  <2> QED
    BY <1>1, <2>2, <2>4 DEF IInv, TokensOfRow
<1>2. IInv => SecondTokenOnlyByMishap
  BY <1>1 DEF SecondTokenOnlyByMishap
<1> QED
  BY <1>2, Coherent, PTL

-----------------------------------------------------------------------------
(* What the edits of the skills keep.  An edit that holds a list holds the *)
(* catalog; with no edit between its write and its card, the last card     *)
(* that was sent, or is there, lists the catalog.                          *)
Calm == mishaps \cap {"unpublished", "overtaken", "builtinsOnly"} = {}

Settles(s) ==
  \/ /\ \A i \in 1 .. Len(pool) : pool[i].key # "card"
     /\ records["card"] = Nil \/ records["card"].skills = s
  \/ \E i \in 1 .. Len(pool) :
       /\ pool[i].key = "card" /\ pool[i].val.skills = s
       /\ \A j \in 1 .. Len(pool) : j > i => pool[j].key # "card"

ListInv ==
  Calm => /\ \A e \in Edits : stage[e] = "sending" => listed[e] = catalog
          /\ ~Editing => Settles(catalog)

(* A count that an addition took is not below what is active; one that     *)
(* passed the cap leaves room for its skill.                               *)
Asked ==
  /\ DOMAIN request = Edits /\ DOMAIN counted = Edits
  /\ \A e \in Edits : stage[e] \in Admitted => request[e] \in Requests

Room ==
  "capRace" \notin mishaps =>
    /\ Cardinality(Active) <= MaxSkills
    /\ \A e \in Edits : stage[e] = "listing" /\ ~Deletes(e)
         => counted[e] \in Nat /\ Cardinality(Active) <= counted[e]
    /\ \A e \in Edits : stage[e] = "writing" /\ ~Deletes(e)
         => Cardinality(Active \cup {Target(e)}) <= MaxSkills

EditsInv == IInv /\ Asked /\ Room /\ ListInv

(* An edit writes its skill, and notes whom it overtakes.                  *)
Writes(e) ==
  /\ stage[e] = "writing"
  /\ \E s \in {"relisting", "failed"} : StageTo(e, s)
  /\ stage'[e] = "failed" => "unpublished" \in mishaps'
  /\ catalog' = [catalog EXCEPT ![Target(e)] = IF Deletes(e) THEN Nil ELSE e]
  /\ Overtaken(e) \subseteq mishaps'
  /\ UNCHANGED <<request, counted, listed>>

LEMMA CatalogStep ==
  ASSUME Types, [Next]_vars
  PROVE  catalog' = catalog \/ \E e \in Edits : Writes(e)
<1>1. CASE MintNext
  <2>1. PICK f \in Flows : MintHandler(f) \/ PublishHandler(f) \/ Page(f) \/ MineMint(f)
    BY <1>1 DEF MintNext
  <2>2. CASE MintHandler(f)
    BY <2>2 DEF MintHandler, CheckName, SaveIdentity, SendMint, MintFails, GetReceipt,
       ReceiptTimesOut, nameVars
  <2>3. CASE PublishHandler(f)
    BY <2>3 DEF PublishHandler, PublishRefused, LoadForPublish, Register, Registered,
       RegisterTimesOut, WriteRecord, PublishFails, nameVars
  <2>4. CASE Page(f) \/ MineMint(f)
    BY <2>4 DEF Page, RunCheck, StartFlow, FlowRefused, MintAnswered, PublishAnswered,
       Verified, VerifyTimesOut, LosesAnswer, MineMint, nameVars
  <2> QED
    BY <2>1, <2>2, <2>3, <2>4
<1>2. CASE CatalogNext
  <2>1. PICK e \in Edits : Admit(e) \/ EditRefused(e) \/ Handle(e)
    BY <1>2 DEF CatalogNext
  <2>2. CASE WriteSkill(e)
    <3>1. CASE catalog' = catalog
      BY <3>1
    <3>2. CASE catalog' # catalog
      <4>1. StageTo(e, "relisting") /\ mishaps' = mishaps \cup Overtaken(e)
            /\ catalog' = [catalog EXCEPT ![Target(e)] = IF Deletes(e) THEN Nil ELSE e]
        BY <2>2, <3>2 DEF WriteSkill, Note
      <4>2. stage'[e] = "relisting"
        BY <4>1 DEF StageTo, Types
      <4> QED
        BY <2>2, <4>1, <4>2 DEF WriteSkill, Writes
    <3> QED
      BY <3>1, <3>2
  <2>3. CASE EditFails(e)
    <3>1. CASE catalog' = catalog
      BY <3>1
    <3>2. CASE catalog' # catalog
      <4>1. stage[e] = "writing" /\ StageTo(e, "failed")
            /\ catalog' = [catalog EXCEPT ![Target(e)] = IF Deletes(e) THEN Nil ELSE e]
        BY <2>3, <3>2 DEF EditFails
      <4>2. {"unpublished"} \cup Overtaken(e) \subseteq mishaps'
        BY <2>3, <3>2 DEF EditFails, Note
      <4> QED
        BY <2>3, <4>1, <4>2 DEF EditFails, Writes
    <3> QED
      BY <3>1, <3>2
  <2>4. CASE Admit(e) \/ EditRefused(e) \/ CountActive(e) \/ CheckCap(e) \/ Relist(e)
               \/ SendCard(e)
    BY <2>4 DEF Admit, EditRefused, CountActive, CheckCap, Relist, SendCard, nameVars
  <2> QED
    BY <2>1, <2>2, <2>3, <2>4 DEF Handle
<1>3. CASE MineRecord \/ Restart \/ UNCHANGED vars
  BY <1>3 DEF MineRecord, Restart, vars, nameVars
<1> QED
  BY <1>1, <1>2, <1>3 DEF Next

(* The cap.                                                                *)
LEMMA ActiveIsFinite ==
  /\ IsFiniteSet(Active) /\ Cardinality(Active) \in Nat
  /\ \A x : /\ IsFiniteSet(Active \cup {x}) /\ Cardinality(Active \cup {x}) \in Nat
            /\ Cardinality(Active \cup {x}) <= Cardinality(Active) + 1
            /\ x \in Active => Cardinality(Active \cup {x}) = Cardinality(Active)
<1>1. IsFiniteSet(SkillIds) /\ Active \subseteq SkillIds
  BY CatalogAssumption DEF Active
<1>2. IsFiniteSet(Active) /\ Cardinality(Active) \in Nat
  BY <1>1, FS_Subset, FS_CardinalityType
<1>3. ASSUME NEW x
      PROVE  /\ IsFiniteSet(Active \cup {x}) /\ Cardinality(Active \cup {x}) \in Nat
             /\ Cardinality(Active \cup {x}) <= Cardinality(Active) + 1
             /\ x \in Active => Cardinality(Active \cup {x}) = Cardinality(Active)
  <2>1. IsFiniteSet(Active \cup {x})
        /\ Cardinality(Active \cup {x}) = IF x \in Active THEN Cardinality(Active)
                                                         ELSE Cardinality(Active) + 1
    BY <1>2, FS_AddElement
  <2> QED
    BY <1>2, <2>1
<1> QED
  BY <1>2, <1>3

LEMMA NothingWritten ==
  ASSUME catalog' = catalog
  PROVE  Active' = Active /\ Cardinality(Active)' = Cardinality(Active)
  BY DEF Active

LEMMA AskedStep == Types /\ Asked /\ [Next]_vars => Asked'
<1> SUFFICES ASSUME Types, Asked, [Next]_vars PROVE Asked'
  OBVIOUS
<1>1. CASE UNCHANGED editVars
  BY <1>1 DEF Asked, editVars
<1>2. CASE CatalogNext
  <2>1. PICK e \in Edits : Admit(e) \/ EditRefused(e) \/ Handle(e)
    BY <1>2 DEF CatalogNext
  <2>2. CASE Admit(e)
    <3>1. PICK q \in Requests : request' = [request EXCEPT ![e] = q]
      BY <2>2 DEF Admit
    <3>2. PICK s : stage' = [stage EXCEPT ![e] = s]
      BY <2>2 DEF Admit, StageTo
    <3> QED
      BY <2>2, <3>1, <3>2 DEF Asked, Types, Admit
  <2>3. CASE EditRefused(e) \/ Handle(e)
    <3>1. request' = request
      BY <2>3 DEF EditRefused, Handle, CountActive, CheckCap, WriteSkill, Relist, SendCard,
         EditFails
    <3>2. stage'[e] \in Admitted => stage[e] \in Admitted
      BY <2>3 DEF EditRefused, Handle, CountActive, CheckCap, WriteSkill, Relist, SendCard,
         EditFails, Admitted, StageTo, Types
    <3>3. \A d \in Edits \ {e} : stage'[d] = stage[d]
      BY <2>3 DEF EditRefused, Handle, CountActive, CheckCap, WriteSkill, Relist, SendCard,
         EditFails, StageTo, Types
    <3>4. DOMAIN counted' = Edits
      BY <2>3 DEF EditRefused, Handle, CountActive, CheckCap, WriteSkill, Relist, SendCard,
         EditFails, Asked
    <3> QED
      BY <3>1, <3>2, <3>3, <3>4 DEF Asked
  <2> QED
    BY <2>1, <2>2, <2>3
<1>3. CASE Restart
  BY <1>3 DEF Restart, CatalogCrash, Asked, Admitted
<1> QED
  BY <1>1, <1>2, <1>3 DEF Next, MineRecord, vars, editVars

LEMMA RoomStep == IInv /\ Asked /\ Room /\ [Next]_vars => Room'
<1> SUFFICES ASSUME Types, Asked, Room, [Next]_vars, "capRace" \notin mishaps'
             PROVE  Room'
  BY DEF Room, IInv
<1>0. /\ Cardinality(Active) <= MaxSkills
      /\ \A e \in Edits : stage[e] = "listing" /\ ~Deletes(e)
           => counted[e] \in Nat /\ Cardinality(Active) <= counted[e]
      /\ \A e \in Edits : stage[e] = "writing" /\ ~Deletes(e)
           => Cardinality(Active \cup {Target(e)}) <= MaxSkills
  BY MishapsStay DEF Room
<1>1. ASSUME NEW e \in Edits, Writes(e) PROVE Room'
  <2>1. request' = request /\ counted' = counted
        /\ stage'[e] \notin {"listing", "writing"} /\ \A d \in Edits \ {e} : stage'[d] = stage[d]
    BY <1>1 DEF Writes, StageTo, Types
  <2>2. Target(e) \in SkillIds /\ stage[e] = "writing"
    BY <1>1 DEF Writes, Asked, Admitted, Target, Requests
  <2>3. \A d \in Edits : Deletes(d)' = Deletes(d) /\ Target(d)' = Target(d)
    BY <2>1 DEF Deletes, Target
  <2>4. CASE Deletes(e)
    <3>1. Active' \subseteq Active
      BY <1>1, <2>2, <2>4 DEF Writes, Active, Types, Catalogs
    <3>2. Cardinality(Active') <= Cardinality(Active) /\ Cardinality(Active') \in Nat
      BY <3>1, ActiveIsFinite, FS_Subset, FS_CardinalityType
    <3>3. \A x : Cardinality(Active' \cup {x}) <= Cardinality(Active \cup {x})
                 /\ Cardinality(Active' \cup {x}) \in Nat
      <4> SUFFICES ASSUME NEW x
                   PROVE  Cardinality(Active' \cup {x}) <= Cardinality(Active \cup {x})
                          /\ Cardinality(Active' \cup {x}) \in Nat
        OBVIOUS
      <4>1. Active' \cup {x} \subseteq Active \cup {x}
        BY <3>1
      <4> QED
        BY <4>1, ActiveIsFinite, FS_Subset, FS_CardinalityType
    <3>4. MaxSkills \in Nat /\ Cardinality(Active) \in Nat
          /\ \A x : Cardinality(Active \cup {x}) \in Nat
      BY CatalogAssumption, ActiveIsFinite
    <3>5. Cardinality(Active') <= MaxSkills
      BY <1>0, <3>2, <3>4
    <3>6. ASSUME NEW d \in Edits, stage'[d] = "listing", ~Deletes(d)'
          PROVE  counted'[d] \in Nat /\ Cardinality(Active') <= counted'[d]
      <4>1. counted[d] \in Nat /\ Cardinality(Active) <= counted[d] /\ counted'[d] = counted[d]
        BY <1>0, <2>1, <2>3, <3>6
      <4> QED
        BY <3>2, <3>4, <4>1
    <3>7. ASSUME NEW d \in Edits, stage'[d] = "writing", ~Deletes(d)'
          PROVE  Cardinality(Active' \cup {Target(d)'}) <= MaxSkills
      <4>1. Cardinality(Active \cup {Target(d)}) <= MaxSkills /\ Target(d)' = Target(d)
        BY <1>0, <2>1, <2>3, <3>7
      <4>2. Cardinality(Active' \cup {Target(d)}) <= Cardinality(Active \cup {Target(d)})
            /\ Cardinality(Active' \cup {Target(d)}) \in Nat
        BY <3>3
      <4>3. Cardinality(Active' \cup {Target(d)}) <= MaxSkills
        BY <3>4, <4>1, <4>2
      <4> QED
        BY <4>1, <4>3
    <3> QED
      BY <3>5, <3>6, <3>7 DEF Room
  <2>5. CASE ~Deletes(e)
    <3>1. \A d \in Edits \ {e} : stage[d] \in {"listing", "writing"} => Deletes(d)
      BY <1>1, <2>5 DEF Writes, Overtaken
    <3>2. Active' = Active \cup {Target(e)}
      <4>1. e # Nil /\ catalog' = [catalog EXCEPT ![Target(e)] = e]
        BY <1>1, <2>5, HostedAssumption DEF Writes
      <4> QED
        BY <2>2, <4>1 DEF Active, Types, Catalogs
    <3>3. Cardinality(Active') <= MaxSkills
      BY <1>0, <2>2, <2>5, <3>2
    <3> QED
      BY <2>1, <2>3, <3>1, <3>3 DEF Room
  <2> QED
    BY <2>4, <2>5
<1>2. CASE catalog' = catalog
  <2>0. Active' = Active
    BY <1>2, NothingWritten
  <2>1. CASE UNCHANGED editVars
    BY <1>0, <2>0, <2>1 DEF Room, editVars, Deletes, Target
  <2>2. CASE Restart
    BY <1>0, <2>0, <2>2 DEF Room, Restart, CatalogCrash
  <2>3. ASSUME NEW e \in Edits, Admit(e) PROVE Room'
    <3>1. PICK q \in Requests :
            /\ request' = [request EXCEPT ![e] = q]
            /\ StageTo(e, IF q.deletes THEN "writing" ELSE "counting")
      BY <2>3 DEF Admit
    <3>2. \A d \in Edits \ {e} : stage'[d] = stage[d] /\ Deletes(d)' = Deletes(d)
                                 /\ Target(d)' = Target(d) /\ counted'[d] = counted[d]
      BY <2>3, <3>1 DEF Admit, StageTo, Types, Asked, Deletes, Target
    <3>3. stage'[e] = "writing" => Deletes(e)'
      BY <3>1 DEF StageTo, Types, Asked, Deletes
    <3>4. stage'[e] # "listing"
      BY <3>1 DEF StageTo, Types
    <3> QED
      BY <1>0, <2>0, <3>2, <3>3, <3>4 DEF Room
  <2>4. ASSUME NEW e \in Edits, CountActive(e) PROVE Room'
    <3>1. counted'[e] = Cardinality(Active) /\ stage'[e] = "listing"
          /\ \A d \in Edits \ {e} : stage'[d] = stage[d] /\ counted'[d] = counted[d]
      BY <2>4 DEF CountActive, StageTo, Types, Asked
    <3>2. \A d \in Edits : Deletes(d)' = Deletes(d) /\ Target(d)' = Target(d)
      BY <2>4 DEF CountActive, Deletes, Target
    <3> QED
      BY <1>0, <2>0, <3>1, <3>2, ActiveIsFinite DEF Room
  <2>5. ASSUME NEW e \in Edits, CheckCap(e) PROVE Room'
    <3>1. /\ stage'[e] = (IF catalog[Target(e)] = Nil /\ counted[e] >= MaxSkills
                          THEN "failed" ELSE "writing")
          /\ stage[e] = "listing" /\ counted' = counted
          /\ \A d \in Edits \ {e} : stage'[d] = stage[d]
      BY <2>5 DEF CheckCap, StageTo, Types
    <3>2. \A d \in Edits : Deletes(d)' = Deletes(d) /\ Target(d)' = Target(d)
      BY <2>5 DEF CheckCap, Deletes, Target
    <3>3. ASSUME stage'[e] = "writing", ~Deletes(e)
          PROVE  Cardinality(Active \cup {Target(e)}) <= MaxSkills
      <4>1. CASE catalog[Target(e)] # Nil
        <5>1. Target(e) \in SkillIds
          BY <3>1 DEF Asked, Admitted, Target, Requests
        <5>2. Target(e) \in Active
          BY <4>1, <5>1 DEF Active
        <5> QED
          BY <1>0, <5>2, ActiveIsFinite
      <4>2. CASE catalog[Target(e)] = Nil
        <5>1. ~(counted[e] >= MaxSkills) /\ counted[e] \in Nat
              /\ Cardinality(Active) <= counted[e]
          BY <1>0, <3>1, <3>3, <4>2
        <5>2. Cardinality(Active) + 1 <= MaxSkills
          BY <5>1, ActiveIsFinite, CatalogAssumption
        <5> QED
          BY <5>2, ActiveIsFinite, CatalogAssumption
      <4> QED
        BY <4>1, <4>2
    <3>4. stage'[e] # "listing"
      BY <3>1
    <3> QED
      BY <1>0, <2>0, <3>1, <3>2, <3>3, <3>4 DEF Room
  <2>6. ASSUME NEW e \in Edits,
               EditRefused(e) \/ WriteSkill(e) \/ Relist(e) \/ SendCard(e) \/ EditFails(e)
        PROVE  Room'
    <3>1. request' = request /\ counted' = counted /\ stage'[e] \notin {"listing", "writing"}
          /\ \A d \in Edits \ {e} : stage'[d] = stage[d]
      BY <2>6 DEF EditRefused, WriteSkill, Relist, SendCard, EditFails, StageTo, Types
    <3>2. \A d \in Edits : Deletes(d)' = Deletes(d) /\ Target(d)' = Target(d)
      BY <3>1 DEF Deletes, Target
    <3> QED
      BY <1>0, <2>0, <3>1, <3>2 DEF Room
  <2> QED
    BY <2>1, <2>2, <2>3, <2>4, <2>5, <2>6
       DEF Next, CatalogNext, Handle, MineRecord, vars, editVars
<1> QED
  BY <1>1, <1>2, CatalogStep

-----------------------------------------------------------------------------
(* The cards.                                                              *)
LEMMA SettlesSent ==
  ASSUME pool \in Seq(Transactions), NEW t \in Transactions, pool' = Append(pool, t),
         records' = records
  PROVE  /\ t.key = "card" => Settles(t.val.skills)'
         /\ \A s : t.key # "card" /\ Settles(s) => Settles(s)'
<1>1. /\ Len(pool') = Len(pool) + 1 /\ Len(pool) \in Nat
      /\ \A i \in 1 .. Len(pool) : pool'[i] = pool[i]
      /\ pool'[Len(pool) + 1] = t
  BY AppendProperties, LenProperties
<1>2. ASSUME t.key = "card" PROVE Settles(t.val.skills)'
  <2>1. Len(pool) + 1 \in 1 .. Len(pool') /\ ~ \E j \in 1 .. Len(pool') : j > Len(pool) + 1
    BY <1>1
  <2> QED
    BY <1>1, <1>2, <2>1 DEF Settles
<1>3. ASSUME NEW s, t.key # "card", Settles(s) PROVE Settles(s)'
  <2>1. \A i \in 1 .. Len(pool') : i \in 1 .. Len(pool) \/ i = Len(pool) + 1
    BY <1>1
  <2>2. CASE /\ \A i \in 1 .. Len(pool) : pool[i].key # "card"
             /\ records["card"] = Nil \/ records["card"].skills = s
    <3>1. \A i \in 1 .. Len(pool') : pool'[i].key # "card"
      BY <1>1, <1>3, <2>1, <2>2
    <3> QED
      BY <2>2, <3>1 DEF Settles
  <2>3. ASSUME NEW i \in 1 .. Len(pool), pool[i].key = "card", pool[i].val.skills = s,
               \A j \in 1 .. Len(pool) : j > i => pool[j].key # "card"
        PROVE  Settles(s)'
    <3>1. i \in 1 .. Len(pool') /\ pool'[i].key = "card" /\ pool'[i].val.skills = s
      BY <1>1, <2>3
    <3>2. \A j \in 1 .. Len(pool') : j > i => pool'[j].key # "card"
      BY <1>1, <1>3, <2>1, <2>3
    <3> QED
      BY <3>1, <3>2 DEF Settles
  <2> QED
    BY <1>3, <2>2, <2>3 DEF Settles
<1> QED
  BY <1>2, <1>3

LEMMA SettlesMined ==
  ASSUME Types, MineRecord, NEW s, Settles(s)
  PROVE  Settles(s)'
<1>1. pool # <<>> /\ pool' = Tail(pool)
  BY DEF MineRecord
<1>2. pool \in Seq(Transactions) /\ "card" \in DOMAIN records
  BY DEF Types, KeySet, Keys
<1>3. /\ Head(pool) = pool[1] /\ 1 \in 1 .. Len(pool)
      /\ \A i \in 1 .. Len(pool') : i + 1 \in 1 .. Len(pool) /\ pool'[i] = pool[i + 1]
  BY <1>1, MinedPool
<1>4. Len(pool) \in Nat /\ Len(pool') = Len(pool) - 1
  BY <1>1, <1>2, HeadTailProperties, LenProperties
<1>5. \A i \in 1 .. Len(pool) : i # 1 => i - 1 \in 1 .. Len(pool') /\ pool'[i - 1] = pool[i]
  <2> SUFFICES ASSUME NEW i \in 1 .. Len(pool), i # 1
               PROVE  i - 1 \in 1 .. Len(pool') /\ pool'[i - 1] = pool[i]
    OBVIOUS
  <2>1. i - 1 \in 1 .. Len(pool') /\ (i - 1) + 1 = i
    BY <1>4
  <2>2. pool'[i - 1] = pool[(i - 1) + 1]
    BY <1>3, <2>1
  <2> QED
    BY <2>1, <2>2
<1>6. IF pool[1].key = "card" THEN records'["card"] = pool[1].val
                              ELSE records'["card"] = records["card"]
  BY <1>2, <1>3 DEF MineRecord
<1>7. CASE /\ \A i \in 1 .. Len(pool) : pool[i].key # "card"
           /\ records["card"] = Nil \/ records["card"].skills = s
  <2>1. \A i \in 1 .. Len(pool') : pool'[i].key # "card"
    BY <1>3, <1>7
  <2> QED
    BY <1>3, <1>6, <1>7, <2>1 DEF Settles
<1>8. ASSUME NEW i \in 1 .. Len(pool), pool[i].key = "card", pool[i].val.skills = s,
             \A j \in 1 .. Len(pool) : j > i => pool[j].key # "card"
      PROVE  Settles(s)'
  <2>1. CASE i = 1
    <3>1. \A j \in 1 .. Len(pool') : pool'[j].key # "card"
      <4> SUFFICES ASSUME NEW j \in 1 .. Len(pool') PROVE pool'[j].key # "card"
        OBVIOUS
      <4>1. j + 1 \in 1 .. Len(pool) /\ pool'[j] = pool[j + 1] /\ j + 1 > i
        BY <1>3, <2>1
      <4> QED
        BY <1>8, <4>1
    <3> QED
      BY <1>6, <1>8, <2>1, <3>1 DEF Settles
  <2>2. CASE i # 1
    <3>1. i - 1 \in 1 .. Len(pool') /\ pool'[i - 1] = pool[i]
      BY <1>5, <2>2
    <3>2. ASSUME NEW j \in 1 .. Len(pool'), j > i - 1 PROVE pool'[j].key # "card"
      <4>1. j + 1 \in 1 .. Len(pool) /\ pool'[j] = pool[j + 1] /\ j + 1 > i
        BY <1>3, <3>2
      <4> QED
        BY <1>8, <4>1
    <3> QED
      BY <1>8, <3>1, <3>2 DEF Settles
  <2> QED
    BY <2>1, <2>2
<1> QED
  BY <1>7, <1>8 DEF Settles

LEMMA SettlesSame ==
  ASSUME UNCHANGED <<pool, records>>, NEW s, Settles(s)
  PROVE  Settles(s)'
  BY DEF Settles

(* A flow sends nothing but a registration, a record that is no card, or a *)
(* card of the built-in skills.                                            *)
Minted ==
  \/ UNCHANGED pool
  \/ \E t \in Transactions :
       /\ pool' = Append(pool, t)
       /\ t.key = "card" =>
            t.val.skills = BuiltinsOnly /\ (catalog # BuiltinsOnly => "builtinsOnly" \in mishaps')

LEMMA MintSends ==
  ASSUME IInv, MintNext
  PROVE  UNCHANGED <<records, catalog>> /\ Minted
<1>1. PICK f \in Flows : MintHandler(f) \/ PublishHandler(f) \/ Page(f) \/ MineMint(f)
  BY DEF MintNext
<1>2. CASE MintHandler(f) \/ PublishRefused(f) \/ LoadForPublish(f) \/ Registered(f)
             \/ RegisterTimesOut(f) \/ Page(f) \/ MineMint(f)
  <2>1. UNCHANGED <<records, catalog, pool>>
    BY <1>2 DEF MintHandler, CheckName, SaveIdentity, SendMint, MintFails, GetReceipt,
       ReceiptTimesOut, PublishRefused, LoadForPublish, Registered, RegisterTimesOut, nameVars,
       Page, RunCheck, StartFlow, FlowRefused, MintAnswered, PublishAnswered,
       Verified, VerifyTimesOut, LosesAnswer, MineMint
  <2> QED
    BY <2>1 DEF Minted
<1>3. ASSUME SendRegistration(f) PROVE Minted
  <2>1. [key |-> "subnode", val |-> f] \in Transactions
    BY DEF Transactions
  <2> QED
    BY <1>3, <2>1 DEF SendRegistration, Minted
<1>4. ASSUME srv[f] \in KeySet, SendRecord(f) PROVE Minted
  <2>1. row # Nil /\ row = [pub |-> f, token |-> TokenOf(f)]
    BY <1>4, PublisherOwns DEF PublishStates, IInv
  <2> DEFINE who == [pub |-> f, token |-> TokenOf(f)]
  <2> DEFINE t == [key |-> srv[f], val |-> Bundle(Card(who, BuiltinsOnly))[srv[f]]]
  <2>2. pool' = Append(pool, t)
        /\ Note(IF srv[f] = "card" /\ catalog # BuiltinsOnly THEN {"builtinsOnly"} ELSE {})
    BY <1>4 DEF SendRecord, SendText
  <2>3. t \in Transactions
    <3>1. PICK u : Entry(u) /\ pool' = Append(pool, u)
      BY <1>4, <2>1, NoSkillsCatalog, SendTextEntry DEF SendRecord, IInv
    <3>2. u \in Transactions /\ pool \in Seq(Transactions)
      BY <3>1 DEF Entry, IInv, Types
    <3>3. u = t
      <4>1. Append(pool, u)[Len(pool) + 1] = u /\ Append(pool, t)[Len(pool) + 1] = t
        BY <3>2
      <4> QED
        BY <2>2, <3>1, <4>1
    <3> QED
      BY <3>2, <3>3
  <2>4. t.key = "card" => t.val.skills = BuiltinsOnly
    BY DEF Bundle, Card, KeySet, Keys
  <2>5. t.key = "card" /\ catalog # BuiltinsOnly => "builtinsOnly" \in mishaps'
    BY <2>2 DEF Note
  <2> HIDE DEF t
  <2> QED
    BY <2>2, <2>3, <2>4, <2>5 DEF Minted
<1>5. CASE Register(f)
  BY <1>3, <1>5 DEF Register
<1>6. CASE WriteRecord(f)
  BY <1>4, <1>6 DEF WriteRecord
<1>7. CASE PublishFails(f)
  BY <1>3, <1>4, <1>7 DEF PublishFails, Minted
<1> QED
  BY <1>1, <1>2, <1>5, <1>6, <1>7 DEF PublishHandler

LEMMA ListStep == IInv /\ Asked /\ ListInv /\ [Next]_vars => ListInv'
<1> SUFFICES ASSUME IInv, ListInv, [Next]_vars, Calm'
             PROVE  /\ \A e \in Edits : stage'[e] = "sending" => listed'[e] = catalog'
                    /\ ~Editing' => Settles(catalog)'
  BY DEF ListInv
<1>0. /\ Types
      /\ \A e \in Edits : stage[e] = "sending" => listed[e] = catalog
      /\ ~Editing => Settles(catalog)
  BY MishapsStay DEF IInv, ListInv, Calm
<1>1. ASSUME NEW e \in Edits, Writes(e)
      PROVE  (\A d \in Edits : stage'[d] # "sending") /\ Editing'
  <2>1. stage'[e] \in {"relisting", "failed"} /\ \A d \in Edits \ {e} : stage'[d] = stage[d]
    BY <1>0, <1>1 DEF Writes, StageTo, Types
  <2>2. stage'[e] = "relisting"
    BY <1>1, <2>1 DEF Writes, Calm
  <2>3. \A d \in Edits \ {e} : stage[d] # "sending"
    BY <1>1 DEF Writes, Overtaken, Calm
  <2> QED
    BY <2>1, <2>2, <2>3 DEF Editing
<1>2. CASE catalog' = catalog
  <2>1. CASE MintNext /\ UNCHANGED editVars
    <3>1. UNCHANGED <<stage, listed>> /\ (Editing' <=> Editing)
      BY <2>1 DEF editVars, Editing
    <3>2. ~Editing => Settles(catalog)'
      <4> SUFFICES ASSUME Settles(catalog) PROVE Settles(catalog)'
        BY <1>0
      <4>1. records' = records /\ Minted
        BY <2>1, MintSends
      <4>2. CASE UNCHANGED pool
        BY <1>2, <4>1, <4>2 DEF Settles
      <4>3. ASSUME NEW t \in Transactions, pool' = Append(pool, t),
                   t.key = "card" => /\ t.val.skills = BuiltinsOnly
                                     /\ catalog # BuiltinsOnly => "builtinsOnly" \in mishaps'
            PROVE  Settles(catalog)'
        <5>1. t.key = "card" => t.val.skills = catalog
          BY <4>3 DEF Calm
        <5>2. PICK s : s = catalog
          OBVIOUS
        <5>3. Settles(s)'
          BY <1>0, <4>1, <4>3, <5>1, <5>2, SettlesSent DEF Types
        <5> QED
          BY <1>2, <5>2, <5>3 DEF Settles
      <4> QED
        BY <4>1, <4>2, <4>3 DEF Minted
    <3> QED
      BY <1>0, <1>2, <3>1, <3>2
  <2>2. CASE MineRecord /\ UNCHANGED editVars
    <3>1. UNCHANGED <<stage, listed>> /\ (Editing' <=> Editing)
      BY <2>2 DEF editVars, Editing
    <3>2. PICK s : s = catalog
      OBVIOUS
    <3>3. Settles(s) => Settles(s)'
      BY <1>0, <2>2, SettlesMined
    <3>4. Settles(catalog) => Settles(catalog)'
      BY <1>2, <3>2, <3>3 DEF Settles
    <3> QED
      BY <1>0, <1>2, <3>1, <3>4
  <2>3. CASE Restart
    <3>1. (\A e \in Edits : stage'[e] \notin {"sending", "relisting"}) /\ UNCHANGED <<pool, records>>
      BY <2>3 DEF Restart, CatalogCrash
    <3>2. ~Editing
      BY <2>3 DEF Restart, CatalogCrash, Note, Calm, Editing
    <3> QED
      BY <1>0, <1>2, <3>1, <3>2 DEF Settles
  <2>4. ASSUME NEW e \in Edits, Relist(e)
        PROVE  (\A d \in Edits : stage'[d] = "sending" => listed'[d] = catalog) /\ Editing'
    <3>1. stage'[e] = "sending" /\ listed'[e] = catalog
          /\ \A d \in Edits \ {e} : stage'[d] = stage[d] /\ listed'[d] = listed[d]
      BY <1>0, <2>4 DEF Relist, StageTo, Types
    <3> QED
      BY <1>0, <3>1 DEF Editing
  <2>5. ASSUME NEW e \in Edits, SendCard(e)
        PROVE  (\A d \in Edits : stage'[d] = "sending" => listed'[d] = catalog) /\ Settles(catalog)'
    <3>1. stage'[e] = "done" /\ listed' = listed /\ records' = records
          /\ \A d \in Edits \ {e} : stage'[d] = stage[d]
      BY <1>0, <2>5 DEF SendCard, StageTo, Types
    <3>2. stage[e] = "sending" /\ listed[e] = catalog /\ SendText("card", Card(id[e], listed[e]))
      BY <1>0, <2>5 DEF SendCard
    <3> DEFINE t == [key |-> "card", val |-> Card(id[e], listed[e])]
    <3>3. pool' = Append(pool, t)
      BY <3>2 DEF SendText, Bundle, KeySet, Keys
    <3>4. t \in Transactions
      <4>1. id[e] \in Identities /\ listed[e] \in Catalogs
        BY <1>0, <3>2 DEF IInv, KnowTheRow, Admitted, Types
      <4>2. Card(id[e], listed[e]) \in Cards
        BY <4>1 DEF Card, Identities, Cards
      <4> QED
        BY <4>2 DEF Transactions, KeySet, Keys
    <3>5. t.key = "card" /\ t.val.skills = catalog
      BY <3>2 DEF Card
    <3> HIDE DEF t
    <3>6. PICK s : s = catalog
      OBVIOUS
    <3>7. PICK u \in Transactions : u = t
      BY <3>4
    <3>8. Settles(u.val.skills)'
      BY <1>0, <3>1, <3>3, <3>5, <3>7, SettlesSent DEF Types
    <3>9. u.val.skills = s
      BY <3>5, <3>6, <3>7
    <3>10. Settles(s)'
      BY <3>8, <3>9
    <3> QED
      BY <1>0, <1>2, <3>1, <3>6, <3>10 DEF Settles
  <2>6. ASSUME NEW e \in Edits, EditFails(e)
        PROVE  /\ stage'[e] = "failed" /\ \A d \in Edits \ {e} : stage'[d] = stage[d]
               /\ UNCHANGED <<listed, pool, records>> /\ stage[e] \notin {"relisting", "sending"}
    BY <1>0, <2>6 DEF EditFails, StageTo, Types, Note, Calm
  <2>7. ASSUME NEW e \in Edits,
               \/ Admit(e) \/ EditRefused(e) \/ CountActive(e) \/ CheckCap(e) \/ WriteSkill(e)
        PROVE  /\ stage'[e] # "sending" /\ \A d \in Edits \ {e} : stage'[d] = stage[d]
               /\ UNCHANGED <<listed, pool, records>> /\ stage[e] \notin {"relisting", "sending"}
    BY <1>0, <2>7 DEF Admit, EditRefused, CountActive, CheckCap, WriteSkill, StageTo, Types,
       nameVars
  <2>8. ASSUME NEW e \in Edits, stage'[e] # "sending", stage[e] \notin {"relisting", "sending"},
               \A d \in Edits \ {e} : stage'[d] = stage[d], UNCHANGED <<listed, pool, records>>
        PROVE  /\ \A d \in Edits : stage'[d] = "sending" => listed'[d] = catalog'
               /\ ~Editing' => Settles(catalog)'
    <3>1. Editing => Editing'
      BY <2>8 DEF Editing
    <3>2. Settles(catalog) => Settles(catalog)'
      BY <1>2, <2>8 DEF Settles
    <3> QED
      BY <1>0, <1>2, <2>8, <3>1, <3>2
  <2>9. CASE UNCHANGED vars
    BY <1>0, <2>9 DEF vars, nameVars, editVars, Settles, Editing
  <2>10. ASSUME NEW e \in Edits, Admit(e) \/ EditRefused(e) \/ Handle(e)
         PROVE  /\ \A d \in Edits : stage'[d] = "sending" => listed'[d] = catalog'
                /\ ~Editing' => Settles(catalog)'
    <3>1. CASE Relist(e)
      BY <1>2, <2>4, <3>1
    <3>2. CASE SendCard(e)
      BY <1>2, <2>5, <3>2
    <3>3. CASE EditFails(e)
      BY <2>6, <2>8, <3>3
    <3>4. CASE Admit(e) \/ EditRefused(e) \/ CountActive(e) \/ CheckCap(e) \/ WriteSkill(e)
      BY <2>7, <2>8, <3>4
    <3> QED
      BY <2>10, <3>1, <3>2, <3>3, <3>4 DEF Handle
  <2> QED
    BY <2>1, <2>2, <2>3, <2>9, <2>10 DEF Next, CatalogNext
<1> QED
  BY <1>1, <1>2, <1>0, CatalogStep

(* The invariant of the edits holds of every handle.                       *)
THEOREM EditsInvariance == Spec => []EditsInv
<1>1. Init => EditsInv
  <2> SUFFICES ASSUME Init PROVE EditsInv
    OBVIOUS
  <2> USE DEF Init, NameInit, CatalogInit
  <2>1. IInv
    BY InitIInv
  <2>2. Asked
    BY DEF Asked, Admitted
  <2>3. Active = {}
    BY DEF Active, BuiltinsOnly
  <2>4. Room
    BY <2>3, FS_EmptySet, CatalogAssumption DEF Room
  <2>5. Len(pool) = 0 /\ records["card"] = Nil
    BY DEF KeySet, Keys
  <2>6. ListInv
    BY <2>5 DEF ListInv, Settles
  <2> QED
    BY <2>1, <2>2, <2>4, <2>6 DEF EditsInv
<1>2. EditsInv /\ [Next]_vars => EditsInv'
  BY StepIInv, AskedStep, RoomStep, ListStep DEF EditsInv, IInv
<1> QED
  BY <1>1, <1>2, PTL DEF Spec

(* More skills than the cap are active only if two additions raced: each   *)
(* counted before the other wrote (skills/route.ts counts, then writes).   *)
THEOREM CapHolds == Spec => []CapUnlessRaced
<1>1. EditsInv => CapUnlessRaced
  <2> SUFFICES ASSUME EditsInv, Cardinality(Active) > MaxSkills, "capRace" \notin mishaps
               PROVE  FALSE
    BY DEF CapUnlessRaced
  <2>1. Cardinality(Active) <= MaxSkills
    BY DEF EditsInv, Room
  <2> QED
    BY <2>1, ActiveIsFinite, CatalogAssumption
<1> QED
  BY <1>1, EditsInvariance, PTL

(* With no edit under way and everything mined, the card lists exactly the *)
(* active skills, unless a card was lost or overtaken (republishCard).     *)
THEOREM CardIsTheCatalog == Spec => []CardListsActive
<1>1. EditsInv => CardListsActive
  <2> SUFFICES ASSUME EditsInv, pool = <<>>, ~Editing, Text("card") # Nil, Calm
               PROVE  Text("card").skills = catalog
    BY DEF CardListsActive, Calm
  <2>1. Settles(catalog) /\ Len(pool) = 0
    BY DEF EditsInv, ListInv
  <2> QED
    BY <2>1 DEF Settles, Text
<1> QED
  BY <1>1, EditsInvariance, PTL
=============================================================================
