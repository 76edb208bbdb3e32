---------------------------- MODULE OwnerConsole ----------------------------
(***************************************************************************)
(* The owner's dashboard (Frontend/app/dashboard): the snapshots, transfer *)
(* and skills panels of several browser tabs, the routes they read, the    *)
(* wallet, and the owners of the agents' tokens on chain.                  *)
(*                                                                         *)
(* Each panel keeps a selected agent and data fetched for it.  No fetch is *)
(* cancelled when the selection changes, so answers arrive in any order,   *)
(* and a button acts on the data the page holds at the click.  An agent's  *)
(* token, and an agent's custom skills, bear the agent's name here.        *)
(***************************************************************************)
EXTENDS Naturals, FiniteSets, SequencesExt

CONSTANTS
  Tabs,        \* browser tabs
  Users,       \* wallet accounts
  Agents,
  RowOwner,    \* ownerAddress in the identity row of each agent
  Carded,      \* the agents whose card, with its tokenId, is published
  None,
  MaxClicks,   \* bound: what the users do
  MaxFailures    \* bound: requests that fail

ASSUME ConsoleAssumption ==
  /\ RowOwner \in [Agents -> Users]
  /\ Carded \subseteq Agents
  /\ None \notin Agents \cup Users
  /\ MaxClicks \in Nat /\ MaxFailures \in Nat

VARIABLES
  tab,       \* the panel open in each tab
  prompts,   \* transactions that wait for the wallet
  mempool,   \* transactions sent
  owner,     \* ownerOf each token
  asked,     \* challenges asked for, with the verdict: <<action, granted>>
  clicks, failures

consoleVars == <<tab, prompts, mempool, owner, asked, clicks, failures>>

Pages == {"snapshots", "transfer", "skills"}
\* The request that an agent's selection makes, by page.
DataOf(page) == IF page = "skills" THEN "skills" ELSE "token"
Kinds == {"list", "token", "skills", "history", "challenge"}

\* A request under way.  It is late once a younger one of its kind was answered.
Fetch(kind, of) == [kind |-> kind, of |-> of, late |-> FALSE]
Transfers ==
  [n : 1..MaxClicks, tab : Tabs, from : Users, to : Users, token : Agents,
   meant : Agents, settled : BOOLEAN, open : BOOLEAN]

Fetches ==
  [kind : {"list"}, of : Users, late : BOOLEAN]
    \cup [kind : Kinds \ {"list"}, of : Agents, late : BOOLEAN]
Panels ==
  [page : Pages, user : Users \cup {None}, agents : SUBSET Agents, loading : BOOLEAN,
   sel : Agents \cup {None}, data : Agents \cup {None}, history : Agents \cup {None},
   to : Users \cup {None}, tx : Agents \cup {None}, busy : BOOLEAN,
   doubtful : SUBSET Kinds, fetches : Seq(Fetches)]

\* A panel as it is mounted for account u, or with no wallet connected.
Fresh(page, u, first) ==
  [page |-> page, user |-> u, agents |-> {}, loading |-> u # None, sel |-> first, data |-> None,
   history |-> None, to |-> None, tx |-> None, busy |-> FALSE, doubtful |-> {},
   fetches |-> (IF u = None THEN <<>> ELSE <<Fetch("list", u)>>)
                 \o (IF first = None THEN <<>> ELSE <<Fetch("token", first)>>)]

ConsoleInit ==
  /\ tab \in [Tabs -> {Fresh("transfer", u, None) : u \in Users}]
  /\ prompts = {}
  /\ mempool = {}
  /\ owner = RowOwner
  /\ asked = {}
  /\ clicks = 0
  /\ failures = 0

-----------------------------------------------------------------------------
(* Requests and their answers.                                            *)

Under(c, kind) == \E i \in DOMAIN c.fetches : c.fetches[i].kind = kind

\* The selection's data is that of the latest request.
Settled(c) == ~Under(c, DataOf(c.page)) /\ DataOf(c.page) \notin c.doubtful

WithFetch(c, kind, of) == [c EXCEPT !.fetches = Append(@, Fetch(kind, of))]

\* Request i is over; what the page keeps is doubtful unless it is the
\* answer to the youngest request of its kind.
Ended(c, i, bad) ==
  LET k == c.fetches[i].kind
      rest == [j \in DOMAIN c.fetches |->
                 IF j < i /\ c.fetches[j].kind = k
                 THEN [c.fetches[j] EXCEPT !.late = TRUE] ELSE c.fetches[j]]
  IN [c EXCEPT !.fetches = RemoveAt(rest, i),
               !.doubtful = IF bad \/ c.fetches[i].late THEN @ \cup {k} ELSE @ \ {k}]

\* Mutation: the effect is missing its dependency on the selection.
SelectFetchesOnce(c, a) ==
  IF c.sel # None THEN [c EXCEPT !.sel = a] ELSE WithFetch([c EXCEPT !.sel = a], DataOf(c.page), a)

\* setEns: the effects on [ens] and [handle] fetch the selection's data.
Select(c, a) ==
  IF a = c.sel THEN c ELSE WithFetch([c EXCEPT !.sel = a], DataOf(c.page), a)

\* Mutation: the history is fetched when the panel first learns a token.
SetTokenOnce(c, v) ==
  LET d == [c EXCEPT !.data = v] IN
  IF c.page = "snapshots" /\ c.data = None /\ v # None
  THEN WithFetch(d, "history", v) ELSE d

\* setTokenId: on the snapshots panel a new token has its history fetched.
SetToken(c, v) ==
  LET d == [c EXCEPT !.data = v] IN
  IF c.page = "snapshots" /\ v # c.data /\ v # None
  THEN WithFetch(d, "history", v) ELSE d

SetTab(t, c) == tab' = [tab EXCEPT ![t] = c]

FindByOwner(u) == {a \in Agents : RowOwner[a] = u}

\* The first agent of the list is selected when none is.
ListAnswered(t, i) ==
  LET c == Ended(tab[t], i, FALSE)
      found == FindByOwner(tab[t].fetches[i].of)
      d == [c EXCEPT !.agents = found, !.loading = FALSE] IN
  /\ tab[t].fetches[i].kind = "list"
  /\ IF c.sel = None /\ found # {} THEN \E a \in found : SetTab(t, Select(d, a))
                                  ELSE SetTab(t, d)
  /\ UNCHANGED <<prompts, mempool, owner, asked, clicks, failures>>

TokenInCard(a) == IF a \in Carded THEN a ELSE None

TokenAnswered(t, i) ==
  /\ tab[t].fetches[i].kind = "token"
  /\ SetTab(t, SetToken(Ended(tab[t], i, FALSE), TokenInCard(tab[t].fetches[i].of)))
  /\ UNCHANGED <<prompts, mempool, owner, asked, clicks, failures>>

\* A rate limit or a failed lookup answers without a card.
TokenUnknown(t, i) ==
  /\ tab[t].fetches[i].kind = "token"
  /\ failures < MaxFailures /\ failures' = failures + 1
  /\ SetTab(t, SetToken(Ended(tab[t], i, FALSE), None))
  /\ UNCHANGED <<prompts, mempool, owner, asked, clicks>>

SkillsAnswered(t, i) ==
  /\ tab[t].fetches[i].kind = "skills"
  /\ SetTab(t, [Ended(tab[t], i, FALSE) EXCEPT !.data = tab[t].fetches[i].of])
  /\ UNCHANGED <<prompts, mempool, owner, asked, clicks, failures>>

HistoryAnswered(t, i) ==
  /\ tab[t].fetches[i].kind = "history"
  /\ SetTab(t, [Ended(tab[t], i, FALSE) EXCEPT !.history = tab[t].fetches[i].of])
  /\ UNCHANGED <<prompts, mempool, owner, asked, clicks, failures>>

\* No answer, or an error: every panel keeps what it had.
FetchFails(t, i) ==
  LET kind == tab[t].fetches[i].kind IN
  /\ kind # "challenge"
  /\ failures < MaxFailures /\ failures' = failures + 1
  /\ SetTab(t, [Ended(tab[t], i, TRUE) EXCEPT !.loading = @ /\ kind # "list"])
  /\ UNCHANGED <<prompts, mempool, owner, asked, clicks>>

-----------------------------------------------------------------------------
(* What the user does.                                                     *)

Click == clicks < MaxClicks /\ clicks' = clicks + 1

\* Another page of the dashboard, or the same again, perhaps by a link that
\* names an agent.  What the old panel still waits for reaches nobody.
Open(t, page) ==
  /\ Click
  /\ \E first \in {None} \cup (IF page = "snapshots" THEN Agents ELSE {}) :
       SetTab(t, Fresh(page, tab[t].user, first))
  /\ prompts' = {[p EXCEPT !.open = @ /\ p.tab # t] : p \in prompts}
  /\ UNCHANGED <<mempool, owner, asked, failures>>

\* Without a wallet a panel shows nothing but the button that connects one.
Connected(c) == c.user # None

\* The list is emptied; the selection, its data and the form stay, and so
\* does a list request, whose answer will fill the list again.
DisconnectWallet(t) ==
  /\ Connected(tab[t])
  /\ Click
  /\ SetTab(t, [tab[t] EXCEPT !.user = None, !.agents = {}])
  /\ UNCHANGED <<prompts, mempool, owner, asked, failures>>

\* The wallet connects or switches account: the list is fetched anew, the
\* selection and the old list stay.  Any answer ends `loading`.
SwitchAccount(t, u) ==
  /\ u # tab[t].user
  /\ Click
  /\ SetTab(t, WithFetch([tab[t] EXCEPT !.user = u, !.loading = TRUE], "list", u))
  /\ UNCHANGED <<prompts, mempool, owner, asked, failures>>

\* "Pick agent": the owner's agents, once they are loaded.
CanPick(c, a) == Connected(c) /\ ~c.loading /\ a \in c.agents

\* The transfer panel forgets what was typed for the other agent.
Pick(t, a) ==
  /\ CanPick(tab[t], a)
  /\ Click
  /\ SetTab(t, IF tab[t].page = "transfer"
               THEN [Select(tab[t], a) EXCEPT !.to = None, !.tx = None]
               ELSE Select(tab[t], a))
  /\ UNCHANGED <<prompts, mempool, owner, asked, failures>>

\* The form of the transfer panel, which a list under way replaces.
FormOpen(c) == Connected(c) /\ c.page = "transfer" /\ ~c.loading /\ ~c.busy

\* A recipient, and the box ticked.
Address(t, u) ==
  /\ FormOpen(tab[t])
  /\ Click
  /\ SetTab(t, [tab[t] EXCEPT !.to = u])
  /\ UNCHANGED <<prompts, mempool, owner, asked, failures>>

\* The button of the transfer panel: a token, a recipient, the box ticked.
CanTransfer(c) == FormOpen(c) /\ c.data # None /\ c.to # None

Transfer(t) ==
  LET c == tab[t] IN
  /\ CanTransfer(c)
  /\ Click
  /\ SetTab(t, [c EXCEPT !.busy = TRUE, !.tx = None])
  /\ prompts' = prompts \cup
       {[n |-> clicks', tab |-> t, from |-> c.user, to |-> c.to, token |-> c.data,
         meant |-> c.sel, settled |-> Settled(c), open |-> TRUE]}
  /\ UNCHANGED <<mempool, owner, asked, failures>>

\* loadHistory, by the refresh button.
Refresh(t) ==
  /\ Connected(tab[t]) /\ tab[t].page = "snapshots" /\ tab[t].data # None
  /\ Click
  /\ SetTab(t, WithFetch(tab[t], "history", tab[t].data))
  /\ UNCHANGED <<prompts, mempool, owner, asked, failures>>

\* The challenge a panel's button asks for first.
Action(page) == IF page = "snapshots" THEN "snapshot" ELSE "skill-edit"

\* "Rotate snapshot" stands beside the token of the selection.
CanRotate(c) ==
  Connected(c) /\ c.page = "snapshots" /\ c.sel # None /\ c.data # None /\ ~c.busy

\* The skills panel shows nothing while the list loads or when it is empty.
SkillsOpen(c) == Connected(c) /\ c.page = "skills" /\ ~c.loading /\ c.agents # {}

\* "Sign + publish" and "delete".
CanEdit(c) == SkillsOpen(c) /\ c.sel # None /\ ~c.busy

AskChallenge(t) ==
  LET c == tab[t] IN
  /\ CanRotate(c) \/ CanEdit(c)
  /\ Click
  /\ SetTab(t, [WithFetch(c, "challenge", c.sel) EXCEPT !.busy = TRUE])
  /\ UNCHANGED <<prompts, mempool, owner, asked, failures>>

\* The one action /api/auth/challenge issues a challenge for.
Grants(action) == action = "mint"

\* The route refuses, the handler throws and ends.  (What a panel does with
\* a granted challenge is never reached.)
ChallengeAnswered(t, i) ==
  LET action == Action(tab[t].page) IN
  /\ tab[t].fetches[i].kind = "challenge"
  /\ asked' = asked \cup {<<action, Grants(action)>>}
  /\ ~Grants(action)
  /\ SetTab(t, [Ended(tab[t], i, FALSE) EXCEPT !.busy = FALSE])
  /\ UNCHANGED <<prompts, mempool, owner, clicks, failures>>

-----------------------------------------------------------------------------
(* The wallet and the chain.                                               *)

\* The handler ends, on the panel that started it if it is still open.
Back(p, tx) ==
  IF p.open THEN SetTab(p.tab, [tab[p.tab] EXCEPT !.busy = FALSE, !.tx = tx])
            ELSE UNCHANGED tab

Sign(p) ==
  /\ prompts' = prompts \ {p}
  /\ mempool' = mempool \cup {p}
  /\ Back(p, p.token)
  /\ UNCHANGED <<owner, asked, clicks, failures>>

\* The user declines, the network cannot be switched, or the simulated
\* transaction reverts.
Decline(p) ==
  /\ prompts' = prompts \ {p}
  /\ Back(p, None)
  /\ UNCHANGED <<mempool, owner, asked, clicks, failures>>

\* transferFrom reverts unless the sender owns the token.
MineTransfer(p) ==
  /\ mempool' = mempool \ {p}
  /\ owner' = IF owner[p.token] = p.from THEN [owner EXCEPT ![p.token] = p.to] ELSE owner
  /\ UNCHANGED <<tab, prompts, asked, clicks, failures>>

-----------------------------------------------------------------------------
Answered(t, i) ==
  \/ ListAnswered(t, i)
  \/ TokenAnswered(t, i)
  \/ TokenUnknown(t, i)
  \/ SkillsAnswered(t, i)
  \/ HistoryAnswered(t, i)
  \/ FetchFails(t, i)
  \/ ChallengeAnswered(t, i)

Use(t) ==
  \/ \E page \in Pages : Open(t, page)
  \/ DisconnectWallet(t)
  \/ \E u \in Users : SwitchAccount(t, u)
  \/ \E a \in Agents : Pick(t, a)
  \/ \E u \in Users : Address(t, u)
  \/ Transfer(t)
  \/ Refresh(t)
  \/ AskChallenge(t)

ConsoleNext ==
  \/ \E t \in Tabs : Use(t)
  \/ \E t \in Tabs : \E i \in DOMAIN tab[t].fetches : Answered(t, i)
  \/ \E p \in prompts : Sign(p) \/ Decline(p)
  \/ \E p \in mempool : MineTransfer(p)

ConsoleSpec == ConsoleInit /\ [][ConsoleNext]_consoleVars

-----------------------------------------------------------------------------
ConsoleTypeOK ==
  /\ tab \in [Tabs -> Panels]
  /\ prompts \subseteq Transfers
  /\ mempool \subseteq Transfers
  /\ owner \in [Agents -> Users]
  /\ asked \subseteq {"snapshot", "skill-edit"} \X BOOLEAN
  /\ clicks \in 0..MaxClicks /\ failures \in 0..MaxFailures

HistoryIsTokens(c) ==
  (c.page = "snapshots" /\ c.data # None
     /\ ~Under(c, "history") /\ "history" \notin c.doubtful) => c.history = c.data

(* The token a panel shows and acts on, and the skills it lists, are those *)
(* of the selected agent or nothing, except while their request is under   *)
(* way, after it failed, or after an older answer overtook it; tokenId is  *)
(* not cleared when the selection changes.  The rotations listed are those *)
(* of the token shown, with the same exceptions; an agent without a token  *)
(* keeps the list of the one before it (snapshots-panel.tsx:53-88,         *)
(* transfer-panel.tsx:39-45, skills-panel.tsx:53-70).                      *)
DataIsSelected ==
  \A t \in Tabs : /\ Settled(tab[t]) => tab[t].data \in {None, tab[t].sel}
                  /\ HistoryIsTokens(tab[t])

(* A token changes hands only by a transaction of its owner, and it is the *)
(* token of the agent that was selected at the click, unless the click     *)
(* came before the selection's data did.  The transfer "cannot be          *)
(* reversed" (transfer-panel.tsx).                                         *)
MovesWhatWasPicked ==
  [][\A a \in Agents : owner'[a] # owner[a] =>
       \E p \in mempool \ mempool' :
         p.token = a /\ p.from = owner[a] /\ (p.settled => p.meant = a)]_consoleVars

(* wallet-auth.ts takes challenges for "mint", "snapshot", "transfer" and  *)
(* "skill-edit"; the panels ask for those, and the text beside the button  *)
(* says what follows.  The route refuses them.                             *)
ChallengesGranted == \A q \in asked : q[2]
=============================================================================
