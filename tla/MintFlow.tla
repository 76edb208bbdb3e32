------------------------------ MODULE MintFlow ------------------------------
(***************************************************************************)
(* Minting an agent.  A flow is one run of the mint page                   *)
(* (Frontend/app/mint/mint-flow.tsx): check that the handle is free, make  *)
(* a keypair, POST /api/mint, POST /api/publish, poll until the card can   *)
(* be read.  Each flow of a handle makes a keypair of its own, also a      *)
(* second run of the same page after a failure.                            *)
(*                                                                         *)
(* The two handlers (Frontend/app/api/mint, Frontend/app/api/publish) run  *)
(* on when the page that asked has lost the connection.  A step is what a  *)
(* handler or the page does from one await to the next.  What a handler    *)
(* refuses before its first effect (rate limit, input, wallet challenge)   *)
(* is one refusal.                                                         *)
(***************************************************************************)
EXTENDS HostedName

VARIABLES
  flow,      \* where the page is
  srv,       \* where the handler is that works for the flow
  unmined,   \* flows whose mint transaction is sent and not mined
  tokens     \* the flow that each token was minted for

mintVars == <<flow, srv, unmined, tokens>>

PageStates == {"idle", "free", "taken", "minting", "publishing", "verifying",
               "done", "failed"}
MintStates == {"checking", "sending", "waiting", "saving"}
PublishStates == {"loading", "registering", "confirming"} \cup KeySet
Answers == {"refused", "error", "minted", "published"}

Ids == 1 .. Len(tokens)

(* Mutation: the newest token, not the one of the receipt.                 *)
NewestToken(f) == Len(tokens)

(* The token id in the Transfer log of the receipt of f's transaction.     *)
TokenOf(f) == CHOOSE t \in Ids : tokens[t] = f
HasToken(f) == \E t \in Ids : tokens[t] = f

MintInit ==
  /\ flow = [f \in Flows |-> "idle"]
  /\ srv = [f \in Flows |-> "none"]
  /\ unmined = {}
  /\ tokens = <<>>

-----------------------------------------------------------------------------
PageTo(f, s) == flow' = [flow EXCEPT ![f] = s]
SrvTo(f, s) == srv' = [srv EXCEPT ![f] = s]

(* GET /api/handle/check: a name is free while there is no card under it.  *)
Available == Text("card") = Nil

(* runCheck of the page.                                                   *)
RunCheck(f) ==
  /\ flow[f] = "idle"
  /\ PageTo(f, IF Available THEN "free" ELSE "taken")
  /\ UNCHANGED <<nameVars, mishaps, faults, srv, unmined, tokens>>

(* What the page offers: the button while the last check says "free" and   *)
(* no run of the page is under way or complete; the commands for the new   *)
(* agent once it is verified.                                              *)
CanStart(f) == flow[f] = "free"
ShowsDone(f) == flow[f] = "done"

(* runFullFlow: identity, challenge, signature, POST /api/mint.            *)
StartFlow(f) ==
  /\ CanStart(f)
  /\ PageTo(f, "minting")
  /\ SrvTo(f, "checking")
  /\ UNCHANGED <<nameVars, mishaps, faults, unmined, tokens>>

(* No challenge, no signature, or the mint handler refuses the request.    *)
FlowRefused(f) ==
  /\ CanStart(f)
  /\ PageTo(f, "failed")
  /\ UNCHANGED <<nameVars, mishaps, faults, srv, unmined, tokens>>

(* A token was minted, or may yet be, for a flow that is over and that     *)
(* left no card.                                                           *)
Halfway(f) == flow[f] = "failed" /\ (f \in unmined \/ HasToken(f))

(* Another flow is under way.                                              *)
Underway(f) ==
  \/ flow[f] \in {"minting", "publishing", "verifying"}
  \/ srv[f] \in MintStates \cup PublishStates

(* What other flows have done, or are doing, when a name is looked up.     *)
Met(f) ==
  UNION {IF Underway(g) THEN {"overlap"}
         ELSE IF Halfway(g) THEN {"halfway"} ELSE {} : g \in Flows \ {f}}

(* Mutation: the name is not looked up a second time.                      *)
CheckSkipped(f) ==
  /\ srv[f] = "checking"
  /\ SrvTo(f, "sending")
  /\ Note(Met(f))
  /\ UNCHANGED <<nameVars, faults, flow, unmined, tokens>>

(* Step 2 of the mint handler: getText again.                              *)
CheckName(f) ==
  /\ srv[f] = "checking"
  /\ \/ /\ Text("card") # Nil
        /\ SrvTo(f, "refused")
        /\ UNCHANGED mishaps
     \/ /\ Text("card") = Nil
        /\ SrvTo(f, "sending")
        /\ Note(Met(f))
  /\ UNCHANGED <<nameVars, faults, flow, unmined, tokens>>

(* Step 3: the mint transaction is sent ...                                *)
SendMint(f) ==
  /\ srv[f] = "sending"
  /\ unmined' = unmined \cup {f}
  /\ SrvTo(f, "waiting")
  /\ UNCHANGED <<nameVars, mishaps, faults, flow, tokens>>

(* ... and mined, sooner or later ...                                      *)
MineMint(f) ==
  /\ f \in unmined
  /\ unmined' = unmined \ {f}
  /\ tokens' = Append(tokens, f)
  /\ UNCHANGED <<nameVars, mishaps, faults, flow, srv>>

(* ... which the handler waits for, up to a minute.                        *)
GetReceipt(f) ==
  /\ srv[f] = "waiting"
  /\ HasToken(f)
  /\ SrvTo(f, "saving")
  /\ UNCHANGED <<nameVars, mishaps, faults, flow, unmined, tokens>>

ReceiptTimesOut(f) ==
  /\ srv[f] = "waiting"
  /\ ~HasToken(f)
  /\ SrvTo(f, "error")
  /\ UNCHANGED <<nameVars, mishaps, faults, flow, unmined, tokens>>

(* Mutation: the row is replaced.                                          *)
SaveReplaces(f) ==
  /\ srv[f] = "saving"
  /\ row' = [pub |-> f, token |-> TokenOf(f)]
  /\ memo' = Nil
  /\ SrvTo(f, "minted")
  /\ UNCHANGED <<catalog, resolver, records, pool, mishaps, faults, flow, unmined, tokens>>

(* Step 4, saveIdentity: insertOne under unique indexes on handle and ens. *)
(* The entry in mint_log is not waited for and changes no answer.          *)
SaveIdentity(f) ==
  /\ srv[f] = "saving"
  /\ \/ /\ row = Nil
        /\ row' = [pub |-> f, token |-> TokenOf(f)]
        /\ memo' = Nil
        /\ SrvTo(f, "minted")
     \/ /\ row # Nil
        /\ SrvTo(f, "error")
        /\ UNCHANGED <<row, memo>>
  /\ UNCHANGED <<catalog, resolver, records, pool, mishaps, faults, flow, unmined, tokens>>

(* An await of the mint handler throws.  The transaction or the insert may *)
(* have gone through all the same.                                         *)
MintFails(f) ==
  /\ srv[f] \in MintStates
  /\ Fault
  /\ SrvTo(f, "error")
  /\ \/ UNCHANGED <<row, unmined>>
     \/ srv[f] = "sending" /\ unmined' = unmined \cup {f} /\ UNCHANGED row
     \/ /\ srv[f] = "saving" /\ row = Nil
        /\ row' = [pub |-> f, token |-> TokenOf(f)]
        /\ UNCHANGED unmined
  /\ UNCHANGED <<memo, catalog, resolver, records, pool, mishaps, flow, tokens>>

-----------------------------------------------------------------------------
(* The page has the answer of /api/mint: it goes on to POST /api/publish   *)
(* with the key and the token of this flow.                                *)
MintAnswered(f) ==
  /\ flow[f] = "minting"
  /\ \/ srv[f] = "minted" /\ PageTo(f, "publishing") /\ SrvTo(f, "loading")
     \/ srv[f] \in {"refused", "error"} /\ PageTo(f, "failed") /\ SrvTo(f, "none")
  /\ UNCHANGED <<nameVars, mishaps, faults, unmined, tokens>>

(* The publish handler's own rate limit and input checks.                  *)
PublishRefused(f) ==
  /\ srv[f] = "loading"
  /\ SrvTo(f, "error")
  /\ UNCHANGED <<nameVars, mishaps, faults, flow, unmined, tokens>>

(* loadIdentity; the row must agree with the request.                      *)
LoadForPublish(f) ==
  /\ srv[f] = "loading"
  /\ memo' = Known
  /\ SrvTo(f, IF Known = [pub |-> f, token |-> TokenOf(f)] THEN "registering" ELSE "error")
  /\ UNCHANGED <<row, catalog, resolver, records, pool, mishaps, faults, flow, unmined, tokens>>

(* Step 1: setSubnodeRecord, and wait for its receipt up to a minute.      *)
Register(f) ==
  /\ srv[f] = "registering"
  /\ SendRegistration(f)
  /\ SrvTo(f, "confirming")
  /\ UNCHANGED <<row, memo, catalog, resolver, records, mishaps, faults, flow, unmined, tokens>>

RegistrationSent(f) == \E i \in DOMAIN pool : pool[i] = [key |-> "subnode", val |-> f]

Registered(f) ==
  /\ srv[f] = "confirming"
  /\ ~RegistrationSent(f)
  /\ SrvTo(f, Keys[1])
  /\ UNCHANGED <<nameVars, mishaps, faults, flow, unmined, tokens>>

RegisterTimesOut(f) ==
  /\ srv[f] = "confirming"
  /\ RegistrationSent(f)
  /\ SrvTo(f, "error")
  /\ UNCHANGED <<nameVars, mishaps, faults, flow, unmined, tokens>>

AfterKey(k) ==
  LET i == CHOOSE j \in DOMAIN Keys : Keys[j] = k
  IN  IF i = Len(Keys) THEN "published" ELSE Keys[i + 1]

(* The card lists the built-in skills only, whatever the catalog holds.    *)
SendRecord(f) ==
  /\ SendText(srv[f], Card([pub |-> f, token |-> TokenOf(f)], BuiltinsOnly))
  /\ Note(IF srv[f] = "card" /\ catalog # BuiltinsOnly THEN {"builtinsOnly"} ELSE {})

(* Step 2, publishBundle: one record after the other, none waited for.     *)
WriteRecord(f) ==
  /\ srv[f] \in KeySet
  /\ SendRecord(f)
  /\ SrvTo(f, AfterKey(srv[f]))
  /\ UNCHANGED <<row, memo, catalog, resolver, records, faults, flow, unmined, tokens>>

(* An await of the publish handler throws.  The transaction may have gone  *)
(* out all the same.                                                       *)
PublishFails(f) ==
  /\ srv[f] \in PublishStates
  /\ Fault
  /\ SrvTo(f, "error")
  /\ \/ UNCHANGED <<pool, mishaps>>
     \/ srv[f] = "registering" /\ SendRegistration(f) /\ UNCHANGED mishaps
     \/ srv[f] \in KeySet /\ SendRecord(f)
  /\ UNCHANGED <<row, memo, catalog, resolver, records, flow, unmined, tokens>>

PublishAnswered(f) ==
  /\ flow[f] = "publishing"
  /\ \/ srv[f] = "published" /\ PageTo(f, "verifying")
     \/ srv[f] = "error" /\ PageTo(f, "failed")
  /\ SrvTo(f, "none")
  /\ UNCHANGED <<nameVars, mishaps, faults, unmined, tokens>>

(* GET /api/agents/[ens] has a card to answer with.                        *)
Verified(f) ==
  /\ flow[f] = "verifying"
  /\ Text("card") # Nil
  /\ PageTo(f, "done")
  /\ UNCHANGED <<nameVars, mishaps, faults, srv, unmined, tokens>>

(* A minute passes without one.                                            *)
VerifyTimesOut(f) ==
  /\ flow[f] = "verifying"
  /\ Text("card") = Nil
  /\ PageTo(f, "failed")
  /\ UNCHANGED <<nameVars, mishaps, faults, srv, unmined, tokens>>

(* A fetch of the page fails, or the page is closed; the handler works on. *)
LosesAnswer(f) ==
  /\ flow[f] \in {"minting", "publishing", "verifying"}
  /\ Fault
  /\ PageTo(f, "failed")
  /\ UNCHANGED <<nameVars, mishaps, srv, unmined, tokens>>

(* The server process dies and with it every handler; the pages that were  *)
(* waiting for one see their fetch fail.                                   *)
MintCrash ==
  /\ srv' = [f \in Flows |-> "none"]
  /\ flow' = [f \in Flows |-> IF flow[f] \in {"minting", "publishing"} THEN "failed"
                              ELSE flow[f]]
  /\ UNCHANGED <<unmined, tokens>>

-----------------------------------------------------------------------------
MintHandler(f) ==
  \/ CheckName(f) \/ SendMint(f) \/ GetReceipt(f) \/ ReceiptTimesOut(f) \/ SaveIdentity(f)
  \/ MintFails(f)
PublishHandler(f) ==
  \/ PublishRefused(f) \/ LoadForPublish(f) \/ Register(f) \/ Registered(f) \/ RegisterTimesOut(f)
  \/ WriteRecord(f) \/ PublishFails(f)
Page(f) ==
  \/ RunCheck(f) \/ StartFlow(f) \/ FlowRefused(f) \/ MintAnswered(f) \/ PublishAnswered(f)
  \/ Verified(f) \/ VerifyTimesOut(f) \/ LosesAnswer(f)

MintNext ==
  \E f \in Flows : MintHandler(f) \/ PublishHandler(f) \/ Page(f) \/ MineMint(f)

MintTypeOK ==
  /\ flow \in [Flows -> PageStates]
  /\ srv \in [Flows -> {"none"} \cup MintStates \cup PublishStates \cup Answers]
  /\ unmined \in SUBSET Flows
  /\ tokens \in Seq(Flows)
=============================================================================
