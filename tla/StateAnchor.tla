---------------------------- MODULE StateAnchor ----------------------------
(***************************************************************************)
(* Memory snapshots of one iNFT and the on-chain root that anchors them.   *)
(* Three programs rotate the root:                                         *)
(*   - the agent process, Agent.snapshotNow (packages/agent/src/agent.ts), *)
(*     over a SnapshotChain it keeps in memory (packages/sdk/src/          *)
(*     snapshot.ts): its state, its append and its lock are AppendChain's; *)
(*   - `agentdir snapshot` (packages/cli/src/cmd-snapshot.ts), a process   *)
(*     of its own with a chain it seeds from the contract;                 *)
(*   - the dashboard (Frontend/app/api/snapshot/route.ts), which builds a  *)
(*     blob without a predecessor that the user's wallet then anchors.     *)
(*                                                                         *)
(* Each first uploads a blob that names its predecessor, then sends        *)
(* setAgentStateRoot and waits for it to be mined.  The agent may crash    *)
(* anywhere; a transaction that was sent may be mined long after.          *)
(***************************************************************************)
EXTENDS AppendChain

CONSTANTS
  AgentRotations,  \* calls of snapshotNow
  CliRotations,    \* runs of `agentdir snapshot`
  DashRotations,   \* dashboard snapshots
  MaxInFlight,     \* bound: rotations in flight at the same time
  MaxFaults,       \* bound: RPC calls, uploads and transactions that fail
  MaxRestarts      \* bound: crashes of the agent process

Rotations == AgentRotations \cup CliRotations \cup DashRotations
SoloRotations == CliRotations \cup DashRotations

(* The calls of append() on the agent's chain are rotations.  Nil stands   *)
(* for a null head and for the zero root of a fresh token.                 *)
ASSUME AnchorAssumption ==
  /\ Calls = Rotations
  /\ AgentRotations \cap SoloRotations = {}
  /\ CliRotations \cap DashRotations = {}
  /\ MaxInFlight \in Nat \ {0}
  /\ MaxFaults \in Nat /\ MaxRestarts \in Nat

VARIABLES
  stage,      \* where each rotation is
  got,        \* the on-chain root each rotation read
  mempool,    \* roots whose transactions are sent and not mined, in order
  anchored,   \* history: the roots mined, oldest first; the last is on chain
  mishaps,    \* history: what happened that can break the lineage
  faults, restarts

anchorVars == <<vars, stage, got, mempool, anchored, mishaps, faults, restarts>>

Ended == {"done", "failed", "lost"}
InFlight(t) == stage[t] \notin Ended \cup {"idle"}

(* agentStateRoot(tokenId), with the zero root read as none.               *)
OnChain == IF anchored = <<>> THEN Nil ELSE anchored[Len(anchored)]

AnchorInit ==
  /\ Init
  /\ stage = [t \in Rotations |-> "idle"]
  /\ got = [t \in Rotations |-> Nil]
  /\ mempool = <<>>
  /\ anchored = <<>>
  /\ mishaps = {}
  /\ faults = 0 /\ restarts = 0

-----------------------------------------------------------------------------
GoTo(t, s) == stage' = [stage EXCEPT ![t] = s]

Fault == faults < MaxFaults /\ faults' = faults + 1

Note(S) == mishaps' = mishaps \cup S

(* Two rotations at once: nothing outside one SnapshotChain orders them.   *)
Starts(t) ==
  /\ stage[t] = "idle"
  /\ LET busy == {u \in Rotations : InFlight(u)}
     IN  /\ Cardinality(busy) < MaxInFlight
         /\ Note(IF busy = {} THEN {} ELSE {"overlap"})

(* snapshotNow up to its first await: an empty chain first reads the root. *)
AgentStarts(t) ==
  /\ Starts(t)
  /\ \/ /\ head = Nil
        /\ GoTo(t, "reading")
        /\ UNCHANGED vars
     \/ /\ head # Nil
        /\ GoTo(t, "appending")
        /\ AppendCall(t)
  /\ UNCHANGED <<got, mempool, anchored, faults, restarts>>

CliStarts(t) ==
  /\ Starts(t)
  /\ GoTo(t, "reading")
  /\ UNCHANGED <<vars, got, mempool, anchored, faults, restarts>>

(* The route appends to a chain without a head: it reads nothing.          *)
DashStarts(t) ==
  /\ Starts(t)
  /\ GoTo(t, "uploading")
  /\ UNCHANGED <<vars, got, mempool, anchored, faults, restarts>>

(* getStateRoot answers.  A transaction still to be mined is not in the    *)
(* answer.                                                                 *)
ReadRoot(t) ==
  /\ stage[t] = "reading"
  /\ got' = [got EXCEPT ![t] = OnChain]
  /\ GoTo(t, IF t \in CliRotations THEN "uploading" ELSE "seeding")
  /\ Note(IF mempool = <<>> THEN {} ELSE {"staleRead"})
  /\ UNCHANGED <<vars, mempool, anchored, faults, restarts>>

(* getStateRoot fails: the agent goes on as if the token were fresh, the   *)
(* command line gives up.                                                  *)
ReadFails(t) ==
  /\ stage[t] = "reading"
  /\ Fault
  /\ \/ /\ t \in AgentRotations
        /\ GoTo(t, "appending")
        /\ AppendCall(t)
        /\ Note({"unseeded"})
     \/ /\ t \in CliRotations
        /\ GoTo(t, "failed")
        /\ UNCHANGED <<vars, mishaps>>
  /\ UNCHANGED <<got, mempool, anchored, restarts>>

(* Mutation: the root that was read is not put in the chain.               *)
SeedSkipped(t) ==
  /\ stage[t] = "seeding"
  /\ AppendCall(t)
  /\ GoTo(t, "appending")
  /\ UNCHANGED <<got, mempool, anchored, mishaps, faults, restarts>>

(* snapshotNow resumes: `head = prev` if prev is not zero, then append.    *)
(* Another rotation may have set the head since it was found null.         *)
Seed(t) ==
  /\ stage[t] = "seeding"
  /\ head' = IF got[t] = Nil THEN head ELSE got[t]
  /\ Enqueue(t)
  /\ GoTo(t, "appending")
  /\ Note(IF head \notin {Nil, head'} THEN {"reseeded"} ELSE {})
  /\ UNCHANGED <<store, base, got, mempool, anchored, faults, restarts>>

(* SnapshotChain.append of the agent.                                      *)
ChainWork ==
  /\ \E i \in Positions :
       \/ Begin(i) /\ UNCHANGED faults
       \/ UploadOk(i) /\ UNCHANGED faults
       \/ UploadFail(i) /\ Fault
       \/ Propagate(i) /\ UNCHANGED faults
  /\ UNCHANGED <<stage, got, mempool, anchored, mishaps, restarts>>

(* Mutation: a rejected append does not end its rotation.                  *)
AppendRejectedIgnored(t) == FALSE /\ UNCHANGED anchorVars

(* append rejects in snapshotNow: the rotation is over.                    *)
AppendRejected(t) ==
  /\ stage[t] = "appending"
  /\ pc[t] = "rejected"
  /\ GoTo(t, "failed")
  /\ UNCHANGED <<vars, got, mempool, anchored, mishaps, faults, restarts>>

(* The one append of a process that has the chain for itself.              *)
SoloUpload(t) ==
  /\ stage[t] = "uploading"
  /\ \/ /\ store' = Append(store, [prev |-> got[t], call |-> t])
        /\ GoTo(t, "uploaded")
        /\ UNCHANGED faults
     \/ /\ Fault
        /\ GoTo(t, "failed")
        /\ UNCHANGED store
  /\ UNCHANGED <<head, order, pc, base, got, mempool, anchored, mishaps, restarts>>

Uploaded(t) == stage[t] = "uploaded" \/ (stage[t] = "appending" /\ pc[t] = "fulfilled")
RootOf(t) == CHOOSE r \in Roots : store[r].call = t

(* A solo writer anchors beside an agent that has a head of its own, or a  *)
(* blob without predecessor replaces a root.                               *)
Bypasses(t) ==
  \/ t \in SoloRotations /\ head # Nil
  \/ t \in DashRotations /\ (anchored # <<>> \/ mempool # <<>>)

(* setStateRoot: owner pre-flight, then the transaction is sent.           *)
Submit(t) ==
  /\ Uploaded(t)
  /\ mempool' = Append(mempool, RootOf(t))
  /\ GoTo(t, "waiting")
  /\ Note(IF Bypasses(t) THEN {"bypass"} ELSE {})
  /\ UNCHANGED <<vars, got, anchored, faults, restarts>>

(* The pre-flight, the send or the wait fails; a transaction that was sent *)
(* stays in the mempool.                                                   *)
AnchorFails(t) ==
  /\ Uploaded(t) \/ stage[t] = "waiting"
  /\ Fault
  /\ GoTo(t, "failed")
  /\ UNCHANGED <<vars, got, mempool, anchored, mishaps, restarts>>

(* setAgentStateRoot is executed; one wallet's transactions keep order.    *)
Mine ==
  /\ mempool # <<>>
  /\ anchored' = Append(anchored, Head(mempool))
  /\ mempool' = Tail(mempool)
  /\ UNCHANGED <<vars, stage, got, mishaps, faults, restarts>>

Mined(t) == \E i \in DOMAIN anchored : anchored[i] = RootOf(t)

(* tx.wait() resolves.                                                     *)
Confirm(t) ==
  /\ stage[t] = "waiting"
  /\ Mined(t)
  /\ GoTo(t, "done")
  /\ UNCHANGED <<vars, got, mempool, anchored, mishaps, faults, restarts>>

(* The agent process dies and starts again with an empty SnapshotChain.    *)
AgentRestarts ==
  /\ restarts < MaxRestarts
  /\ restarts' = restarts + 1
  /\ head' = Nil
  /\ order' = <<>>
  /\ stage' = [t \in Rotations |->
                 IF t \in AgentRotations /\ InFlight(t) THEN "lost" ELSE stage[t]]
  /\ UNCHANGED <<store, pc, base, got, mempool, anchored, mishaps, faults>>

-----------------------------------------------------------------------------
(* A step of one rotation, once it has started.                            *)
Step(t) ==
  \/ ReadRoot(t) \/ ReadFails(t) \/ Seed(t)
  \/ AppendRejected(t) \/ SoloUpload(t)
  \/ Submit(t) \/ AnchorFails(t) \/ Confirm(t)

AnchorNext ==
  \/ \E t \in AgentRotations : AgentStarts(t)
  \/ \E t \in CliRotations : CliStarts(t)
  \/ \E t \in DashRotations : DashStarts(t)
  \/ \E t \in Rotations : Step(t)
  \/ ChainWork
  \/ Mine
  \/ AgentRestarts

AnchorSpec == AnchorInit /\ [][AnchorNext]_anchorVars

(* Fairness: what a rotation awaits ends, and a transaction that was sent  *)
(* is mined.                                                               *)
AnchorFairSpec ==
  /\ AnchorSpec
  /\ \A t \in Rotations : WF_anchorVars(Step(t))
  /\ WF_anchorVars(ChainWork)
  /\ WF_anchorVars(Mine)

-----------------------------------------------------------------------------
(* Properties                                                              *)

Stages == {"idle", "reading", "seeding", "appending", "uploading", "uploaded",
           "waiting"} \cup Ended
Mishaps == {"overlap", "staleRead", "unseeded", "bypass", "reseeded"}

(* Every variable keeps its type.                                          *)
AnchorTypeOK ==
  /\ head \in Roots \cup {Nil}
  /\ store \in Seq(Blob)
  /\ order \in Seq(AgentRotations)
  /\ pc \in [Rotations -> {"idle", "queued", "uploading", "fulfilled", "rejected"}]
  /\ base \in [Rotations -> Roots \cup {Nil}]
  /\ stage \in [Rotations -> Stages]
  /\ got \in [Rotations -> Roots \cup {Nil}]
  /\ mempool \in Seq(Roots)
  /\ anchored \in Seq(Roots)
  /\ mishaps \subseteq Mishaps
  /\ faults \in Nat /\ restarts \in Nat

(* The blobs a walk from root r visits.                                    *)
Visited[r \in Roots] ==
  {r} \cup IF store[r].prev = Nil THEN {} ELSE Visited[store[r].prev]

(* Whoever walks back from an anchored root meets every root that was ever *)
(* anchored before it: memory is one line.                                 *)
Lineage ==
  \A i, j \in DOMAIN anchored : i < j => anchored[i] \in Visited[anchored[j]]

(* The head an agent holds leads back to the root on chain, so that its    *)
(* next snapshot will too.                                                 *)
HeadLeadsToAnchor == head # Nil /\ anchored # <<>> => OnChain \in Visited[head]

(* Memory forks only through one of four mishaps: two rotations at once, a *)
(* root read while a transaction was under way, a failed read, or another  *)
(* writer beside a running agent.  Crashes, failed uploads and failed      *)
(* anchorings alone never do it, and leave every agent with a head that    *)
(* continues the line (agent.ts:339-386, snapshot.ts:70-112).              *)
LineageUnlessMishap == mishaps = {} => Lineage /\ HeadLeadsToAnchor

(* Rotations end, whatever fails or crashes: again and again none is in    *)
(* flight, so snapshotInFlight does not stay set.                          *)
RotationsEnd == []<>(\A t \in Rotations : ~InFlight(t))
=============================================================================
