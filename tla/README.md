# agentdir in TLA+

A verification development of the agentdir monorepo: a directory of AI agents
whose names live in ENS, whose identity is an iNFT on 0G Chain, whose memory
and reputation are hash-linked blobs on 0G Storage, and who call one another's
skills with signed JSON messages over the AXL peer-to-peer network. The system
is TypeScript (an SDK, an agent runtime, a CLI and a Next.js server with its
pages) and one Solidity contract. Nearly all of its state machines are
single-threaded event loops, so the hard parts are what happens between two
awaits, what happens when an await throws, and what several processes or
browser tabs do to the same chain, collection, file or token.

## Inventory

| Component | State | Operations | Interacts with |
|---|---|---|---|
| Reputation chain (`sdk/src/rep.ts`), snapshot chain (`sdk/src/snapshot.ts`) | `head`, the promise `_lock` | `append`, `walk` | called by the agent; blobs in 0G Storage |
| Agent runtime (`agent/src/agent.ts`) | `running`, `seenNonces`, call counters, `snapshotInFlight` | `start`, `stop`, `handleInbound`, the gates, `snapshotNow` | AXL inbox, skill handlers, compute, both chains, the contract |
| Memory anchoring (`agent.ts`, `cli/src/cmd-snapshot.ts`, `Frontend/app/api/snapshot`, `sdk/src/inft.ts`) | the chain head in each process, the root on chain, pending transactions | read root, seed, append, submit, confirm | contract, storage, three independent writers |
| iNFT contract (`contracts/src/AgentdirINFT.sol`) | owner, root, key and card per token, `_nextId`, event log | `mint`, three setters, what ERC721 and Ownable add | receiver hooks may re-enter |
| Wallet challenges (`Frontend/lib/wallet-auth.ts`) | collection `auth_nonces` | `issueChallenge`, `verifyAndConsume`, TTL sweep | every server route that changes something |
| Caller (`agent/src/caller.ts`), ROUTE skill (`agent/src/skills.ts`), in-process transport (`local-bus.ts`) | the pending call, chunk order, a queue per node | `callSkill`, `callSkillStream`, hop | agent runtime over AXL |
| Payments (`sdk/src/payments.ts`) | the transfer at KeeperHub, the poll, the receipt | `settle`, `checkReceiptShape` | caller, agent |
| Call server (`Frontend/lib/call-server.ts`, `api/call`) and rate limiter | registry of booted callees, their shared clients, a bucket per address | boot, evict, call, stream | caller, agent, skills route, call page |
| Mint service (`api/mint`, `identity-store.ts`, `mint-flow.tsx`) | collection `identities` and its memo, tokens, the page | check, mint, save, publish, poll | contract, ENS, challenges |
| Publish and skills (`api/publish`, `api/skills`, `prompt-skills.ts`) | collection `prompt_skills`, the agent card | upsert, delete, republish | call server, ENS |
| Directory and ENS (`directory.ts`, `ens.ts`, `ens-writer.ts`) | text records, transactions on their way | parallel reads, one transaction per record | command line, server |
| Command line (`cli/src`, `agent/src/run.ts`, `identity.ts`) | the identity file | mint, publish, the agent process, queries | contract, ENS |
| Dashboard and call page (`Frontend/app/dashboard`, `app/call`) | selection, data fetched for it, wallet prompts; form, stream, result | select, transfer, rotate, edit; fire, read frames | routes, wallet, chain |
| Storage, compute and cryptography clients | none, or a cached client | uploads, inference, encryption | external services |

What makes each correct, and what is hard about it:

* **Chains.** One line, in call order, of exactly the appends that reported
  success. Hard: concurrent callers, uploads that fail after storing the blob,
  a promise chain that is rejected for good after one failure.
* **Runtime.** A replay is refused; each request is answered once; answers,
  reputation, statistics and snapshots agree. Hard: exceptions from any await,
  restarts that lose memory, a rotation running beside the loop, a shared
  compute client.
* **Anchoring.** Walking back from the root on chain meets every earlier root.
  Hard: three writers, a stale read of the chain, crashes between upload,
  submission and mining.
* **Contract.** Dense ids, events that replay the storage, rotation by owners
  only. Hard: re-entrance from receiver hooks and reverts of nested calls.
* **Challenges.** One challenge authorizes one request. Hard: requests in
  several processes, un-consume after a bad signature, expiry in between.
* **Agents calling agents.** A trace is a list of calls that were made; budgets
  bound forwarding; priced work is done against a receipt of the caller for it,
  and a settled receipt stands for a completed transfer; nobody waits for ever. Hard: a hop
  reads the queue of the loop it runs under, timeouts leave answers behind,
  routing tables point at each other.
* **Streaming calls.** The page shows one call, in order, then one outcome,
  always. Hard: a generator that sleeps on a promise which the callbacks of
  another task resolve, chunks that wait when the call ends, a network that
  loses, repeats, reorders and delays, a connection that breaks.
* **Call server.** Who listens for a name is who is registered; it serves the
  published skills; a call reports its own proofs. Hard: a boot awaits four
  times between its look into the registry and its entry, evictions in between,
  all runtimes of a name share one inbox and all calls one runtime.
* **A hosted handle.** Its records are those of the identity row, success means
  ownership, no second token, the card lists the skills. Hard: two pages minting
  the same name, a connection lost while the handler runs on, a restart between
  token and row, edits that interleave with each other and with a publication.
* **Command line and directory.** One key pair per handle, no token forgotten,
  directory entries that are one publication and ranks that were earned. Hard: processes that race over a
  file written in two steps, parallel record reads beside a publication.
* **Dashboard.** What a panel shows and acts on belongs to the selection. Hard:
  answers in any order, nothing cancelled, an irrevocable click.

## Modules

* `AppendOnlyLog` - abstract: a history that grows at its end.
* `AppendChain` - `append` with its lock, and `walk`. Its i-th position of
  `order` is the i-th promise of `_lock`. `AppendCall` is the synchronous part
  of `append`, `Begin` the start of `_appendInner` up to its first await,
  `UploadOk` and `UploadFail` the end of `putJson`, `Propagate` what `then` does
  on a rejected promise. The two chains have the same code; one module serves.
* `AgentRuntime` - one agent. `phase` is the await the loop is suspended in,
  an action is the code from one await to the next. The gates that only read
  are one predicate (`Refused`) in `Receive`. Two steps of the code are taken
  as one where nothing else can run in between: the awaits of signature checks
  inside the gates change nothing that any other step reads, and from the end
  of `putJson` to `maybeSnapshot` only microtasks of the same continuation run
  (`Attest`). The runtime is configured with a reputation chain.
* `StateAnchor` - the three writers of one token's state root. It extends
  `AppendChain`, whose variables are the agent's in-memory chain and the storage
  all three upload to, and whose calls are the rotations; the one append of the CLI and
  of the dashboard has a chain of its own (`SoloUpload`). `Mine` is the chain.
  Only one of the writers' predecessors is null by design: the dashboard's.
* `AgentdirINFT` - the contract with a stack of running hooks. Each entry holds
  the state a revert returns to, the event log included.
* `SingleUse` - abstract: a challenge authorizes once.
* `WalletAuth` - the nonce collection, requests that interleave between its
  three round trips, the clock and the TTL sweep. The action kinds of a
  challenge are part of the message (`intact`), which is how the code treats
  them.
* `Settlement` - one transfer per paying client: `execution` and `hashKnown` are
  KeeperHub's, `pay` is the await `settle()` is in, `terms` what it was called
  with, `gaveUp` notes the exits that may leave money without a receipt. A
  receipt is a record of what it says. `ByHand` are receipts that were signed
  without `settle()`; their field `settled`, which no gate reads, tells them
  apart from the others in the properties only.
* `Swarm` - composes `Settlement` with clients and agents. `inbox` is the queue
  of each node's client, `serving` the request a handler works on, `calling`
  the call a node's `callSkill` waits in. A router has both at once, and then
  `Drop` and `HopReturns` read the queue instead of the loop's actions:
  `Idle` is the guard of the loop. `requests` is a history of everything sent,
  with its fate at the callee (`fate`) and at the caller (`outcome`, `output`);
  a nested input is its list of tags (`path`). Peers are honest: forged and
  foreign messages are the subject of `AgentRuntime` and `SkillStream`. A
  client attaches a receipt it settled or signed by hand, or none, to any call of
  an agent that requires payment, and to more than one (the others do not read
  it). `Paid` is `checkPayment`: what the receipt says,
  against payee, skill and price (`Expected`), and who signed it.
* `OrderedFeed` - abstract: items in order from the first on, then one outcome.
* `SkillStream` - one streaming call from the responder's deltas to the route.
  `inbox` is the caller's bus or AXL node, `caller` and `nextSeq` are
  `callSkillStream`, `settled`, `buffer` and `relay` are `done`, `chunkBuffer`
  and the position of the generator `callAgentSkillStream` (asleep on
  `resolveNext`, suspended at a `yield`), `page` and `pageEnd` are what it has
  yielded. A callback and a stretch between two awaits are one step each. The
  comparison of signer, addressee and skill with the request, and the
  signatures, are the message kind `foreign` or left out.
* `CallPanel` - extends `SkillStream` by what surrounds it: the form, the route
  with its rate limit (`Gate`), the steps before and after the dispatch that
  become trace frames (`Prepare`, `Report`; the step `tee-attest` is there or
  not), the frames on the wire, and the reader of the page. A bucket may have expired since the last request, so
  `Gate` counts from `hits` or from none.
* `CalleeRegistry` - the map `runtimes` for one name, the boots, edits of the
  skills and calls that interleave with them, and the loops of all runtimes
  that were ever started (a runtime is named by the call that booted it). The
  loop is `AgentRuntime` reduced to what a call of the server reads back:
  `lastTee` and `head`.
* `HostedName` - what one handle keeps: `row`, its `memo` in the server, the
  `catalog` of custom skills, the text `records` and the transactions of the
  server account on their way to them (`pool`), mined in order.
* `MintFlow` - the mint page, and the mint and publish handlers it calls. The
  handler of a flow (`srv`) runs on when its page has lost the connection.
* `SkillCatalog` - edits of custom skills, each with its own reads, cap, write,
  list and card.
* `HandleLife` - composes the last two over `HostedName`, and the restart.
* `CommandLine` - commands of the CLI and the agent process, as processes over
  one identity file, which is opened (`CreateFile`, `TruncateFile`) and filled
  (`FillFile`, `RewriteFile`) in two steps.
* `Directory` - composes `CommandLine` with the directory: the parallel reads
  (`ReadRecord`), the decision whether a name is listed (`LeaveOut`) and has a
  chain to walk (`Answer`), and the walk (`Rank`, or `WalkFails`, which lists the name all the
  same). `Window` is the walk's bound. `score` is the number of the calls for
  the skill that succeeded: the code's `ratio * confidence` is that number
  divided by `lookback`, since a walk returns at most `lookback` calls.
* `OwnerConsole` - three panels of the dashboard in several tabs, each with its
  `fetches` under way, the wallet's `prompts`, the `mempool` and the owners on
  chain. The wallet of a tab may be disconnected at any time (`user` is then
  `None`). `RowOwner` is what `/api/my-agents` answers from: no transfer changes
  it.
* `*_proofs` - theorems. `MC*` - instances for TLC.

Many safety properties have the form "unless a mishap": a history variable
(`mishaps`, `overlapped`, `raced`, `gaveUp`, ...) notes the exact circumstances
under which the code gives no guarantee, and the property says that nothing else
breaks it. These variables guard no action.

Operators whose comment starts with "Mutation" are plausible mistakes. None is
used by a specification; each shows that some property notices the mistake.

## Runs

| Run | Question | Bounds |
|---|---|---|
| `append_chain` | Do concurrent, failing appends make one log? | 4 calls: a success, a failure, and two behind it |
| `agent_runtime` | Do replay defence, answers, reputation, statistics and snapshots agree, and does the loop survive? | 4 requests that reach the gates, 3 deliveries, cache of 1, 1 fault, 1 restart, 1 chunk, rotation every 2 calls |
| `state_anchor` | When can memory fork? | 2 agent, 1 CLI, 1 dashboard rotation, 2 in flight, 1 fault, 1 crash |
| `inft` | Do ids, events and ownership survive re-entrance? | 2 tokens, 8 events (two mints), hooks nested twice, an account and a contract |
| `wallet_auth` | Does a challenge authorize once? | 3 requests, 2 nonces, 2 names, lifetime 1 of 3 instants, 1 death |
| `swarm` | Are traces, budgets, receipts and loops right when agents call agents? | 2 routers that point at each other, at a worker and at a paid worker with a priced skill and one without a price; 2 clients, one of which settles one of 2 payments; 2 receipts signed by hand; 2 calls, nested twice or three times |
| `skill_stream` | Does the page show the stream, whole and to its end? | 2 chunks, 2 faults, 2 presses of the button, limit 1 |
| `callee_registry` | Who listens, with which skills, and whose proofs does a call report? | 3 calls, 2 in TEE mode, 1 edit, failure or timeout |
| `handle_life` | Do rows, tokens, records, cards and skills of a handle agree? | 2 flows, 2 edits of 2 skills, a cap of 1, 1 fault or restart |
| `directory` | Do commands and queries of one handle agree on key, token and records, and are ranks earned? | 4 commands of any kind, 2 names, 2 attested calls each, a lookback of 1, queries for 3 skills of which 2 are listed, 1 fault |
| `owner_console` | Do panels show and move what was selected? | 2 tabs, 3 agents of 2 accounts, 4 clicks, 1 failed request |
| `console_challenge` | Are the challenges the panels ask for granted? (violated) | as above |

Why these bounds suffice to be interesting: a cache of one nonce already turns
over, three messages allow a replay across an eviction and a rotation between
two calls; a fork needs two blobs and a third to observe its consequence; hook
nesting of two allows a mint within a mint within a revert; a nonce needs one
request that holds it, one that fails and one that steals; two chunks are
needed for a gap, an exchange and a tail, and a second fault to delay or repeat
what was overtaken; a third call observes what two overlapping boots left. In
`swarm` the second call arrives while the first is still forwarded, so that it
is dropped, or meets answers left behind by a timeout, and the longer paths have
more tags than budget. In `handle_life` two flows collide at any step, the
second run of a failed page is a flow too, and with a cap of one a single race
exceeds it. In `directory` a fourth process observes what three that raced left
behind, and a lookback of one is shorter than a chain of two calls, each of
which succeeded or failed and is for the skill asked or not, so that a rank
differs from the length of its chain. In `swarm` there are also receipts with
another payer, amount or skill than is asked. Four clicks are a selection, a second one, an address and a transfer.
The edit, the failure and the timeout of `callee_registry` share one bound
(`MaxMishaps`), which keeps it at eight million states. Each passing run reaches
every action of its specification. Deadlock is not checked: every instance ends
when its bounded inputs are used up. Symmetry is used only where no liveness is
checked: of requests and nonces, TEE calls, flows, edits and skills, processes
and names, tabs.

What they show:

* The chain is an append-only log to whoever follows the head
  (`LogRefinement`), no two stored blobs share a predecessor (`NoFork`), and a
  call behind a failure is rejected, not left hanging (`AppendsSettle`).
* Of a runtime: nonces are distinct over the size of the cache
  (`ReplayDistance`), a peer sees chunks in order and then at most one terminal
  answer (`OneAnswer`), no attestation contradicts or lacks an answer
  (`RepMatchesAnswers`), counters equal what the chain proves, also in snapshots
  (`StatsMatchRep`), and the TEE proof of a successful inferring call is its own
  (`TeeOfAnsweredCall`).
* Memory forks only by one of the named mishaps: overlapping rotations, a root
  read while a transaction is under way, a failed read of the root, a writer
  beside an agent with a head (`LineageUnlessMishap`); rotations end
  (`RotationsEnd`).
* The contract's events are a history an indexer can rely on under re-entrance
  (`EventHistory`, `LogReplaysState`), and challenges keep what they promise
  under races (`Exclusive`, `TypoKeepsNonce`, `ImplementsSingleUse`).
* Between agents: an accepted answer carries a trace of calls that were made,
  one for the other, for this very request, although late answers wait in the
  same queues (`TraceIsReal`); no request is forwarded beyond its budget
  (`WithinBudget`); a request gets lost only at a router that waits for a hop
  (`NothingForgotten`: this is what the missing `onForeignMessage` costs);
  priced work is done only against a receipt that the client which sent the
  request itself signed for this payee, skill and price, never for a router that
  forwards, and a receipt that `settle()` made stands for a completed transfer
  (`ServedShowsReceipt`; one signed by hand stands for nothing, see below);
  whoever pays and gets no receipt
  met one of five named failures (`PaidHasReceipt`), and routers that wait for
  each other come back (`LoopsReturn`).
* A streaming call is an ordered feed with one outcome (`PageSeesStream`); a
  success is whole unless a message was lost or overtaken
  (`WholeUnlessMishap`), whatever is repeated, delayed or foreign; the page
  shows one call (`ShowsOneCall`); every call ends with something to see
  (`CallsEnd`).
* A registered runtime listens, and no other does unless two boots of the name
  overlapped (`LoopsAreRegistered`). After an overlap a runtime may listen that
  nothing can stop any more: the exception is part of the property because the
  code has no guard against it. A registered runtime has the published skills
  unless an edit is under way or failed half-way, the list could not be read,
  or an eviction fell into the last part of its boot (`FreshUnlessRaced`). A
  call alone reports its own proofs (`ReportsOwnIfAlone`).
* Whatever flows, edits, failures and restarts interleave, a record that can be
  read under a hosted name is that of the row (`RecordsMatchRow`), and a page
  that reports success owns row and token (`DoneMeansOwned`). A second token
  needs overlapping flows or one that ended halfway (`SecondTokenOnlyByMishap`).
  The card lists the active skills unless an edit lost its card, two edits
  overtook each other or the mint's card came late (`CardListsActive`), and the
  cap holds unless two additions raced (`CapUnlessRaced`).
* Commands that race over a handle never work with two key pairs
  (`OneIdentity`); the file keeps the token unless a mint was run twice, beside
  another, or cut short (`TokenKeptUnlessMishap`: what it shows is that one mint
  that runs to its end keeps its token whatever else runs beside; the losses that
  `identity.ts:71` and `cmd-mint.ts:33` allow are its exceptions). A directory
  entry (`EntryCoherent`) is one publication unless it was read during one. Even
  then its rank, if its chain was walked, counts successful calls of the agent
  that bears the entry's token or nothing, and it counts them all unless the
  agent was started before its handle had a token or the handle minted twice or
  in part (`RankIsEarned`).
* A panel at rest shows the data of its selection (`DataIsSelected`), and a
  token moves only from its owner, and is the one selected at the click unless
  the click overtook the selection's data (`MovesWhatWasPicked`).

### Disagreement found

`console_challenge`: `api/auth/challenge/route.ts:36` grants challenges for
`mint` only, while `wallet-auth.ts:14` and `:41` know four actions, the skills
panel asks for `skill-edit` and the snapshots panel for `snapshot`. Neither
panel gets past its first request: "signs a single-use challenge, server
republishes AgentCard on Sepolia" (`skills-panel.tsx:410`) does not happen.

### Weaknesses the properties name as exceptions

These hold of the code as it is. They are not runs of their own; each is the
exception, or the limit, of a property above, and a reader of that property
should know it.

* `rep.ts:50`, `snapshot.ts:80`: one failed upload leaves `_lock` rejected. No
  later call is attested or counted until the process restarts, while the
  comment at `agent.ts:302` promises attestation even of failed calls.
* `agent.ts:300`: `lastTeeAttestation` is never reset, so a call without an
  inference carries the proof of an earlier one (`TeeOfAnsweredCall` speaks of
  successful inferring calls).
* `agent.ts:354`: a crash while the anchoring transaction is pending lets the
  restarted agent read the old root, and two snapshots name the same
  predecessor (mishap `staleRead`), although the README (line 184) says restarts
  cannot fork memory.
* `caller.ts:183`: chunks lost at the end of a stream go unnoticed; the answer
  does not carry their number.
* `call-server.ts:156`: a boot that has listed the skills registers after an
  eviction and serves the old ones.
* `skills.ts:311`: the route handler passes no `onForeignMessage`, so the
  request that `caller.ts:223` would hand back "so co-located agent doesn't lose
  it" is lost.
* `wallet-auth.ts`: `verifyAndConsume` does not look at the action of a
  challenge; a route takes a challenge issued for another.
* `api/snapshot/route.ts:51` announces a comparison of the chain's owner with
  the stored row that is not made, and `/api/my-agents` lists by the row's owner,
  which no transfer changes.
* `run.ts`: a restarted agent process begins its reputation chain anew, without
  the head that was published.
* `cmd-mint.ts:33` mints without asking whether the identity has a token;
  `identity.ts:71` truncates the file in place. Both lose tokens, and
  `TokenKeptUnlessMishap` exempts exactly that (`twoMints`, `again`, `halfway`,
  `torn`).
* `agent.ts:176`: the gate reads neither the chain nor KeeperHub, as its comment
  says, so a receipt that the caller signed without any transfer is served.
  `payments.ts:40` says the skill "Binds the receipt to the call"; it binds it to
  the skill, and one receipt accompanies as many calls as its age allows.
* `agent.ts:192`: a skill without a price accepts the amount that the receipt
  names; `agent.ts:193` and what follows do not compare `token` and `chainId` of
  the skill's price with the agent's expectations.
* `directory.ts:113`: a name whose chain cannot be walked is listed with score
  0, like one that has no reputation. `directory.ts:110`: the last `lookback`
  calls are taken before those for the skill are selected, so calls for other
  skills lower the rank; the walk does not verify signatures. The ranking is
  called "newest-attestation-weighted" (`directory.ts:64`), but all calls within
  the window weigh the same.
* `api/mint/route.ts:113` says that its ENS check defends "against minting the
  same handle twice across server instances": it is a read before the mint, and
  flows that overlap both pass it. `route.ts:168` says that a retry after a
  failed save "re-binds the SAME pubkey because it was already written to ENS
  during a follow-up publish": nothing was published then, and the retry makes a
  new key and a second token. Both are the exceptions of
  `SecondTokenOnlyByMishap`.
* `transfer-panel.tsx:39`: the token of the previous selection stays until the
  new one's answer arrives, with the transfer button enabled.
* `call-panel.tsx:112` normalizes line ends per read, so a CRLF split between
  two reads is not recognized. The server writes LF only; the model has whole
  frames.

### Fairness

`AppendChain`: weak fairness of each call's own steps: the event loop runs
ready callbacks, and an upload ends with a result or an error (the clients have
timeouts). `AgentRuntime`: weak fairness of the loop and of the rotation, for
the same reason; nothing obliges peers, the clock, `stop` or a crash.
`StateAnchor`: weak fairness of each rotation, of the chain's work and of
mining; without mining `tx.wait()` may hang for ever, and so may a rotation.
`Swarm`: weak fairness of a handler's return (the compute client has a
deadline) and of the two deadlines of `callSkill`, which looks at the clock
every 250 ms; nothing is assumed of queues, peers or KeeperHub, so `LoopsReturn`
holds although no answer need ever come. `CallPanel`: weak fairness of the
handler, its promises and its deadline, and of the browser reading what
arrived; nothing is assumed of the responder, the network or the user. The other
specifications state safety only.

## Proofs

Checked by TLAPS for all values of the constants, under the named assumptions
(`ChainAssumption`, `AnchorAssumption`, `RuntimeAssumption`, `AuthAssumption`,
`RegistryAssumption`, `ConsoleAssumption`, `StreamAssumption`,
`HostedAssumption`, `CatalogAssumption`, `SettlementAssumption`,
`SwarmAssumption`, `CommandLineAssumption`, `DirectoryAssumption`,
`InftAssumption`), which type the
constants and keep the null value apart; `AnchorAssumption` also says that agent,
command line and dashboard rotate under different names, and `SwarmAssumption` that
routing tables name agents and that clients are no agents, and
`DirectoryAssumption` that a query considers at least one call.

Properties that follow a recursive function along data (the walk of a chain, the
hops from a request back to its client) are proved by induction over the
naturals with the induction hypothesis as a set (`Induct`, from the library's
theorem that `<` on `Nat` is well founded). Where a property defines such a
function (`History`, `Depth`, `Root`) the proof first shows that a function with
these equations exists, since the definition is a choice of one.

* `AppendChain_proofs` - `TypeOK` and `NoFork`. `NoFork` is not inductive: it
  does not speak of the blob an upload is about to store. The invariant adds
  that the promises are served from the front, that an upload under way names
  the present head, and that no blob names the head while nothing has been
  rejected. A failed upload may store a blob that names the head, but then a
  call is rejected and no later call begins. `WalkIsHistory` and `LogRefinement`
  need the whole line, `Line`: the successful calls are the first of the queue,
  their blobs the first of the storage, each on the one before it, with at most
  one orphan behind them. `HistoryIs` turns this by induction into what a walk
  from each root returns, and an upload that succeeds is then the one step of
  the abstract log. These theorems are of `AppendChain` alone, for any `Calls`.
  `LineageUnlessMishap` is of `StateAnchor`. It speaks of mined roots only; the
  line goes on with the roots that were sent and wait to be mined. The invariant
  `AInv` says that each of them lies behind the later ones (`Follows`), and ties
  the last one to what each program holds: to the root that a rotation read (`ReadsTip`), to the head of the
  agent's chain once it has one (`HeadFollows`), and to the blob that an append
  just stored (`HeadIsMine`). It is claimed only while no mishap happened, and
  then at most one rotation is in flight (`Alone`), which is what makes a root
  read earlier still the last one. A crash empties the head, and the next
  rotation seeds it from the chain.
* `AgentRuntime_proofs` - `ReplayDistance`: its invariant says the cache is the
  newest part of everything admitted, so a nonce outside it is far back.
  `TypeOK`, `OneAnswer`, `RepMatchesAnswers`, `StatsMatchRep` and
  `TeeOfAnsweredCall` rest on a second invariant, `AnswerInv`, which says what
  each phase of the loop entails: while an answer is due only chunks of the call
  in hand were sent, as many as were counted (`Sending`); what is to be attested
  was answered with that verdict, and the reputation chain names earlier calls
  only (`Attesting`); once the inference is over the client's TEE proof is that
  of the call in hand (`Proving`).
* `AgentdirINFT_proofs` - `TypeOK`, `LogReplaysState` and `EventHistory`. A
  receiver's hook runs between two steps of the contract, and its revert brings
  back the storage from before the call. The invariant therefore says of the
  present storage and of every storage a running hook can return to that it is
  sound: ids are dense, the log says nothing of tokens to come (`Fresh`),
  replaying it yields the fields, and each event fits the ones before it.
* `Frontend_proofs`, of `WalletAuth` - `TypeOK`, `Exclusive`, `TypoKeepsNonce` and the
  refinement `ImplementsSingleUse`. The invariant adds `DocsIssued` and
  `HeldIsConsumed`: a nonce in hand is consumed for as long as it exists, so
  nobody else's `Consume` matches it, and a sweep cannot make it available
  again because nonces are not issued twice.
* `Frontend_proofs`, of `CalleeRegistry` - `LoopsAreRegistered`,
  `FreshUnlessRaced` and `ReportsOwnIfAlone`. The first two need what a boot
  relies on at each await (`BootsAlone`, `FreshBoots`): while boots do not
  overlap, a boot that loads finds no runtime of its mode, and once it has torn
  the other mode down there is none at all until it registers its own. The third
  follows one request (`Tracked`): a call without company sends to an inbox that
  one loop reads, it is the last message there, then in that loop's hand, then
  answered, and nobody can have come behind it; the loop's proof and head are
  then its own, or what they were before it (`InTurn`, `Compared`). Other calls
  may have left requests behind, which is why its place in the queue matters.
* `Frontend_proofs`, of `OwnerConsole` - `DataIsSelected` and
  `MovesWhatWasPicked`. A panel's data says nothing of the requests under way,
  whose answers come in any order. The invariant `PanelInv` says that of the
  requests of one kind the older are late first (`InOrder`), that the youngest,
  if it is not late, asks for the present selection (`Asks`), and that with none
  pending and no doubtful answer the data is the selection's (`Decided`). An
  answer that leaves nothing pending, and was not overtaken, is therefore the
  youngest's. The same holds for the history of the token shown. Lemmas say what
  the end of the request at any place of the queue does to the others.
* `SkillStream_proofs` - `TypeOK`, `WholeUnlessMishap` and the refinement
  `PageSeesStream`. The invariant `IInv` adds `Relayed` (page and buffer
  together are exactly the accepted chunks), `Closing` (the final event follows
  the call's result and the drained buffer) and `Whole`: while nothing was lost
  or overtaken, every chunk the caller lacks is in the inbox, ahead of every
  successful answer. Repeats are what makes `Whole` long: a repeated message is
  appended behind the original, so the original still comes first.
  The same holds when the page drives the stream, by new calls, refusals and
  broken connections (`PanelWhole`, `PanelRefinement` of `PanelSpec`), and there
  `ShowsOneCall` is proved. Its invariant `Panel` says which stage of the handler
  goes with which state of the generator (`Stages`), that form, handler and
  connection agree on whether a call is under way (`Link`), that an answer or a
  refusal is the last frame and is of this call (`Lasts`), that the frames on
  the wire are exactly what the page lacks of text and trace (`Accounts`, by
  counting them), and that a result stands beside its own text (`Results`).
* `HandleLife_proofs` - `RecordsMatchRow`, `DoneMeansOwned`,
  `SecondTokenOnlyByMishap` and `RowNeverRebound`. `RecordsMatchRow` is not
  inductive: it does not speak of the records still on their way. The invariant
  carries the claim back along the path of a record: what waits to be mined is
  genuine, a handler that sends has built its card from a copy it holds, every
  copy (memo, handler, edit) is the row, and a flow that passed its mint knows a
  token minted for its own key. The row is written once, which is why copies do
  not go stale. `CapUnlessRaced` and `CardListsActive` rest on `EditsInv`: as
  long as no two additions raced, a count that was taken is not below what is
  active and one that passed the cap leaves room (`Room`); as long as no card
  was lost or overtaken, an edit that sends holds the catalog, and with no edit
  under way the last card on its way to the name lists it (`ListInv`).
* `Swarm_proofs` - `TraceIsReal`, `NothingForgotten`, `ServedShowsReceipt` and
  `PaidHasReceipt`. Traces are assembled from answers, so the invariant says of
  every answer in every queue that its output has a real trace of the request
  it names; a router that splices extends it by the hop it waited for, which the
  invariant says was made for the request it serves. Requests only grow and
  their outcomes are final, so real traces stay real. `NothingForgotten` needs
  that a message in a queue names a request that was sent there, and
  `ServedShowsReceipt` that a receipt in a request is one signed by hand or one
  that its payer's `settle()` made after the transfer completed, which stays
  completed (`HonestReceipts`, `PaidStays`). It holds for any set of receipts
  signed by hand. `WithinBudget` needs `Descent`: a hop is younger than the request it
  serves and has one less of its budget; induction along the hops then gives
  that depth and remaining budget always make the client's budget.
* `Directory_proofs` - `OneIdentity`, for any number of commands. It rests on
  `FirstFile`: a file is opened for creation only while nobody has an identity,
  by one process, and it stays empty until that process fills it; afterwards a
  process takes its identity from the file, and the file is rewritten only by a
  process that has one. `TokensKnown` and `RecordsKnown` follow the key from a
  process through its transaction to the chain. `TokenKeptUnlessMishap` and
  `EntryCoherent` rest on `EInv`: which command each stage belongs to (`Role`);
  where the one token of a calm history is, from the transaction through the
  process that mints to the file (`TokenInv`); that cards and heads, wherever
  they wait, name what was minted and attested (`PlacesGood`); and that the
  records, once what is sent is mined (`Latest`), are one publication or on the
  way from one to the next, while a reader without a mishap has read records
  that still are as it read them (`RecordsInv`). `RankIsEarned` adds that an
  agent's calls, once published, are not rewritten and its token stays the one it
  was started with, so that a score remains what the walk found.

Every safety property that a passing run checks is proved. Only model-checked:
all liveness (`AppendsSettle`, `LoopDrains`, `RotationsEnd`, `LoopsReturn`,
`CallsEnd`): fairness and ENABLED are outside the prover.

## Not modelled

* Cryptography: signatures verify or do not, keys are names, encryption of
  stored identities is left out.
* Formats: canonical JSON, card and receipt layouts, SSE bytes, validation of
  inputs beyond their verdict.
* Services: 0G Storage, compute, KeeperHub, ENS and the chains appear as the
  outcomes their clients can report.
* Arithmetic: the division that turns a count into a score, gas, and amounts
  beyond being equal or not. `--lookback 0` divides by zero and is left out.
* The list a query makes of its entries (sorting, `limit`, `minScore`): one
  handle is modelled, with these options at their defaults.
* The age of a receipt, and its token and network, which are the agent's.
* Pages that render one fetch and keep nothing (landing page, directory page,
  agent page), styling, deployment scripts.
* Memory of the server: the growth of the rate limiter's table.

Worth doing next: a composition of `CallPanel` with `CalleeRegistry`, and the
agent's public page with its reputation.
