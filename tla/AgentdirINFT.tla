---------------------------- MODULE AgentdirINFT ----------------------------
(***************************************************************************)
(* The iNFT contract (packages/contracts/src/AgentdirINFT.sol) with what   *)
(* it inherits from OpenZeppelin's ERC721 and Ownable.                     *)
(*                                                                         *)
(* A call of the contract is atomic, except that _safeMint and             *)
(* safeTransferFrom hand control to the receiver when that is a contract:  *)
(* while the hook runs, the receiver and other contracts may call back in. *)
(* `hooks` is the stack of hooks that run.  A hook that rejects reverts    *)
(* its call, and with it every call nested in it: the state is again what  *)
(* it was before the call, the log of emitted events included.             *)
(***************************************************************************)
EXTENDS Naturals, Sequences

CONSTANTS
  Accounts,   \* addresses without code
  Contracts,  \* addresses with code, whose hooks run
  Roots,      \* state roots other than zero
  Keys,       \* AXL public keys
  Uris,       \* agent-card pointers
  Zero,       \* bytes32(0), the empty string, address(0)
  MaxTokens,  \* bound: tokens minted
  MaxEvents,  \* bound: events emitted
  MaxDepth    \* bound: nested hooks

Addresses == Accounts \cup Contracts
Tokens == 1 .. MaxTokens

ASSUME InftAssumption ==
  /\ Accounts \cap Contracts = {}
  /\ Zero \notin Addresses \cup Roots \cup Keys \cup Uris
  /\ MaxTokens \in Nat /\ MaxEvents \in Nat /\ MaxDepth \in Nat

VARIABLES
  chain,  \* the contract's storage and the events emitted so far
  hooks   \* the receiver hooks running, innermost last

vars == <<chain, hooks>>

(* AgentStateUpdated, AgentPubkeyUpdated, AgentURIUpdated and Transfer.    *)
Event(kind, token, old, new, by) ==
  [kind |-> kind, token |-> token, old |-> old, new |-> new, by |-> by]

Init ==
  /\ \E a \in Addresses :
       chain = [admin |-> a,                             \* Ownable.owner()
                nextId |-> 1,
                owner |-> [t \in Tokens |-> Zero],
                approved |-> [t \in Tokens |-> Zero],
                stateRoot |-> [t \in Tokens |-> Zero],
                axlPubkey |-> [t \in Tokens |-> Zero],
                tokenURI |-> [t \in Tokens |-> Zero],
                log |-> <<>>]
  /\ hooks = <<>>

Exists(t) == chain.owner[t] # Zero

(* Who can be msg.sender: inside a hook only contracts run.                *)
Senders == IF hooks = <<>> THEN Addresses ELSE Contracts

Room(n) == Len(chain.log) + n <= MaxEvents

(* Control passes to `to` if it has code; `before` is where a rejection    *)
(* returns to.                                                             *)
CallHook(to) ==
  IF to \in Contracts
    THEN /\ Len(hooks) < MaxDepth
         /\ hooks' = Append(hooks, [receiver |-> to, before |-> chain])
    ELSE UNCHANGED hooks

-----------------------------------------------------------------------------
(* Mutation: `_nextId` is incremented once the hook has returned, which is *)
(* to say never as seen from inside the hook.                              *)
MintLateCounter(sender, to, key, root, uri) ==
  LET t == chain.nextId
  IN  /\ t \in Tokens /\ Room(4)
      /\ sender = chain.admin
      /\ chain' = [chain EXCEPT
           !.nextId = IF to \in Contracts THEN t ELSE t + 1,
           !.axlPubkey[t] = key, !.stateRoot[t] = root, !.tokenURI[t] = uri,
           !.owner[t] = to,
           !.log = @ \o <<Event("pubkey", t, Zero, key, Zero),
                          Event("state", t, Zero, root, to),
                          Event("uri", t, Zero, uri, Zero),
                          Event("transfer", t, Zero, to, Zero)>>]
      /\ CallHook(to)

(* mint: the token's mappings and events come before _safeMint, which sets *)
(* the owner, emits Transfer and calls the receiver's hook.                *)
Mint(sender, to, key, root, uri) ==
  LET t == chain.nextId
  IN  /\ t \in Tokens /\ Room(4)
      /\ sender = chain.admin
      /\ chain' = [chain EXCEPT
           !.nextId = t + 1,
           !.axlPubkey[t] = key, !.stateRoot[t] = root, !.tokenURI[t] = uri,
           !.owner[t] = to,
           !.log = @ \o <<Event("pubkey", t, Zero, key, Zero),
                          Event("state", t, Zero, root, to),
                          Event("uri", t, Zero, uri, Zero),
                          Event("transfer", t, Zero, to, Zero)>>]
      /\ CallHook(to)

(* Mutation: a rotation to the zero root is not announced.                 *)
SetAgentStateRootSilent(sender, t, root) ==
  /\ Exists(t) /\ sender = chain.owner[t] /\ Room(1)
  /\ chain' = [chain EXCEPT
       !.stateRoot[t] = root,
       !.log = IF root = Zero THEN @
               ELSE Append(@, Event("state", t, chain.stateRoot[t], root, sender))]
  /\ UNCHANGED hooks

SetAgentStateRoot(sender, t, root) ==
  /\ Exists(t) /\ sender = chain.owner[t] /\ Room(1)
  /\ chain' = [chain EXCEPT
       !.stateRoot[t] = root,
       !.log = Append(@, Event("state", t, chain.stateRoot[t], root, sender))]
  /\ UNCHANGED hooks

SetAgentAxlPubkey(sender, t, key) ==
  /\ Exists(t) /\ sender = chain.owner[t] /\ Room(1)
  /\ chain' = [chain EXCEPT
       !.axlPubkey[t] = key,
       !.log = Append(@, Event("pubkey", t, Zero, key, Zero))]
  /\ UNCHANGED hooks

SetTokenURI(sender, t, uri) ==
  /\ Exists(t) /\ sender = chain.owner[t] /\ Room(1)
  /\ chain' = [chain EXCEPT
       !.tokenURI[t] = uri,
       !.log = Append(@, Event("uri", t, Zero, uri, Zero))]
  /\ UNCHANGED hooks

-----------------------------------------------------------------------------
(* Inherited from OpenZeppelin                                             *)

(* approve; setApprovalForAll conveys the same authority and is left out.  *)
Approve(sender, t, to) ==
  /\ Exists(t) /\ sender = chain.owner[t]
  /\ chain' = [chain EXCEPT !.approved[t] = to]
  /\ UNCHANGED hooks

(* transferFrom, and safeTransferFrom with its hook.                       *)
Transfer(sender, t, to, safe) ==
  /\ Exists(t) /\ sender \in {chain.owner[t], chain.approved[t]} /\ Room(1)
  /\ chain' = [chain EXCEPT
       !.owner[t] = to, !.approved[t] = Zero,
       !.log = Append(@, Event("transfer", t, chain.owner[t], to, Zero))]
  /\ IF safe THEN CallHook(to) ELSE UNCHANGED hooks

(* transferOwnership of the contract itself.                               *)
TransferOwnership(sender, to) ==
  /\ sender = chain.admin
  /\ chain' = [chain EXCEPT !.admin = to]
  /\ UNCHANGED hooks

(* renounceOwnership: nobody mints any more.                               *)
RenounceOwnership(sender) ==
  /\ sender = chain.admin
  /\ chain' = [chain EXCEPT !.admin = Zero]
  /\ UNCHANGED hooks

(* The innermost hook returns its selector: its call is complete.          *)
HookAccepts ==
  /\ hooks # <<>>
  /\ hooks' = SubSeq(hooks, 1, Len(hooks) - 1)
  /\ UNCHANGED chain

(* It reverts or returns something else: its call never happened.          *)
HookRejects ==
  /\ hooks # <<>>
  /\ chain' = hooks[Len(hooks)].before
  /\ hooks' = SubSeq(hooks, 1, Len(hooks) - 1)

-----------------------------------------------------------------------------
Next ==
  \/ \E s \in Senders, to \in Addresses, k \in Keys, r \in Roots \cup {Zero}, u \in Uris :
       Mint(s, to, k, r, u)
  \/ \E s \in Senders, t \in Tokens, r \in Roots \cup {Zero} : SetAgentStateRoot(s, t, r)
  \/ \E s \in Senders, t \in Tokens, k \in Keys : SetAgentAxlPubkey(s, t, k)
  \/ \E s \in Senders, t \in Tokens, u \in Uris : SetTokenURI(s, t, u)
  \/ \E s \in Senders, t \in Tokens, to \in Addresses : Approve(s, t, to)
  \/ \E s \in Senders, t \in Tokens, to \in Addresses, safe \in BOOLEAN :
       Transfer(s, t, to, safe)
  \/ \E s \in Senders, to \in Addresses : TransferOwnership(s, to)
  \/ \E s \in Senders : RenounceOwnership(s)
  \/ HookAccepts
  \/ HookRejects

Spec == Init /\ [][Next]_vars

-----------------------------------------------------------------------------
(* Properties                                                              *)

Events == [kind : {"pubkey", "state", "uri", "transfer"}, token : Tokens,
           old : Addresses \cup Roots \cup {Zero},
           new : Addresses \cup Roots \cup Keys \cup Uris \cup {Zero},
           by : Addresses \cup {Zero}]

Storages ==
  [admin : Addresses \cup {Zero},
   nextId : Nat,
   owner : [Tokens -> Addresses \cup {Zero}],
   approved : [Tokens -> Addresses \cup {Zero}],
   stateRoot : [Tokens -> Roots \cup {Zero}],
   axlPubkey : [Tokens -> Keys \cup {Zero}],
   tokenURI : [Tokens -> Uris \cup {Zero}],
   log : Seq(Events)]

(* The contract's storage and every state a rejection can return to keep   *)
(* their types.                                                            *)
TypeOK ==
  /\ chain \in Storages
  /\ hooks \in Seq([receiver : Contracts, before : Storages])

(* Ids are handed out densely and never twice, although mint can be        *)
(* re-entered from the hook of a mint: the tokens that exist in storage c  *)
(* are exactly those below its counter.                                    *)
IdsDense(c) == \A t \in Tokens : c.owner[t] # Zero <=> t < c.nextId

IsAbout(e, kind, t) == e.kind = kind /\ e.token = t

(* i is the last event of its kind about token t.                          *)
IsLast(log, i, kind, t) ==
  /\ IsAbout(log[i], kind, t)
  /\ \A j \in DOMAIN log : j > i => ~IsAbout(log[j], kind, t)

Replays(log, kind, t, value) ==
  \/ value = Zero /\ \A i \in DOMAIN log : ~IsAbout(log[i], kind, t)
  \/ \E i \in DOMAIN log : IsLast(log, i, kind, t) /\ log[i].new = value

Replayed(c) ==
  \A t \in Tokens :
    /\ Replays(c.log, "state", t, c.stateRoot[t])
    /\ Replays(c.log, "pubkey", t, c.axlPubkey[t])
    /\ Replays(c.log, "uri", t, c.tokenURI[t])
    /\ Replays(c.log, "transfer", t, c.owner[t])

(* An indexer that only reads events holds the contract's state: the last  *)
(* event about each field of each token carries its current value.         *)
LogReplaysState == Replayed(chain)

(* j is the last event of the kind about the token of event i before i.    *)
Precedes(log, j, i, kind) ==
  /\ j < i /\ IsAbout(log[j], kind, log[i].token)
  /\ \A k \in j + 1 .. i - 1 : ~IsAbout(log[k], kind, log[i].token)

First(log, i) == \A j \in 1 .. i - 1 : ~IsAbout(log[j], log[i].kind, log[i].token)

(* The history of a token's memory has no gaps: each AgentStateUpdated     *)
(* starts at the root the one before it ended with.                        *)
LinkedAt(log, i) ==
  log[i].kind = "state" =>
    \/ First(log, i) /\ log[i].old = Zero
    \/ \E j \in DOMAIN log : Precedes(log, j, i, "state") /\ log[j].new = log[i].old

(* Whoever owned the token rotated its memory, and nobody else: `by` of    *)
(* each rotation is the address the last Transfer before it went to.  An   *)
(* approval never carries that authority.                                  *)
RotatedByOwnerAt(log, i) ==
  log[i].kind = "state" /\ ~First(log, i) =>
    \E j \in DOMAIN log : Precedes(log, j, i, "transfer") /\ log[j].new = log[i].by

(* A token is initialized before anybody owns it: its first Transfer comes *)
(* after the first event about its key, its root and its card, so no hook  *)
(* sees a half-initialized token.                                          *)
InitializedAt(log, i) ==
  log[i].kind = "transfer" =>
    \A kind \in {"pubkey", "state", "uri"} :
      \E j \in 1 .. i - 1 : IsAbout(log[j], kind, log[i].token)

History(log) ==
  \A i \in DOMAIN log : LinkedAt(log, i) /\ RotatedByOwnerAt(log, i) /\ InitializedAt(log, i)

(* The event log is a history an indexer can rely on, whatever receiver    *)
(* hooks re-enter or revert (AgentdirINFT.sol:44-115).                     *)
EventHistory == IdsDense(chain) /\ History(chain.log)
=============================================================================
