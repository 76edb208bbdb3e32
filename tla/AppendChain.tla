---------------------------- MODULE AppendChain ----------------------------
(***************************************************************************)
(* The hash-linked chain of signed blobs behind an agent's reputation      *)
(* (packages/sdk/src/rep.ts) and, with the same append and the same lock,  *)
(* behind its memory snapshots (packages/sdk/src/snapshot.ts).             *)
(*                                                                         *)
(* append() chains its work on the last promise: `_lock = _lock.then(work)`*)
(* so calls run one after the other in the order append was called.  The   *)
(* work reads the head, signs a body that names it, uploads the blob and   *)
(* only then moves the head.  A promise chain has a property its users     *)
(* seldom want: `then` on a rejected promise never runs its callback, so   *)
(* one failed upload rejects every append that is ever chained after it.   *)
(*                                                                         *)
(* A root is the position of its blob in `store`: storage is content-      *)
(* addressed and two calls never produce the same blob.                    *)
(***************************************************************************)
EXTENDS Naturals, Sequences, SequencesExt

CONSTANTS
  Calls,   \* the calls of append(), each with an input of its own
  Nil      \* JavaScript's null: the head of an empty chain

ASSUME ChainAssumption == Nil \notin Nat

VARIABLES
  head,    \* RepChain.head: the root of the newest blob, or Nil
  store,   \* the blobs in 0G storage, by root
  order,   \* the calls in the order they chained themselves on _lock
  pc,      \* what each call's promise is doing
  base     \* the prevRoot each call's work read before it awaited

vars == <<head, store, order, pc, base>>

Positions == 1 .. Len(order)
Roots == 1 .. Len(store)
Blob == [prev : Nat \cup {Nil}, call : Calls]

Init ==
  /\ head = Nil
  /\ store = <<>>
  /\ order = <<>>
  /\ pc = [a \in Calls |-> "idle"]
  /\ base = [a \in Calls |-> Nil]

-----------------------------------------------------------------------------
(* Steps.  A position i stands for the i-th promise of the chain.          *)

(* append(): `_lock = _lock.then(() => _appendInner(input))`.              *)
Enqueue(a) ==
  /\ pc[a] = "idle"
  /\ order' = Append(order, a)
  /\ pc' = [pc EXCEPT ![a] = "queued"]

AppendCall(a) == Enqueue(a) /\ UNCHANGED <<head, store, base>>

(* Mutation: the work starts at once, as if the lock were dropped.         *)
BeginUnlocked(i) ==
  /\ pc[order[i]] = "queued"
  /\ base' = [base EXCEPT ![order[i]] = head]
  /\ pc' = [pc EXCEPT ![order[i]] = "uploading"]
  /\ UNCHANGED <<head, store, order>>

(* The work starts once the promise before it is fulfilled.  It reads the  *)
(* head before its first await (the signature).                            *)
Begin(i) ==
  /\ pc[order[i]] = "queued"
  /\ i > 1 => pc[order[i - 1]] = "fulfilled"
  /\ base' = [base EXCEPT ![order[i]] = head]
  /\ pc' = [pc EXCEPT ![order[i]] = "uploading"]
  /\ UNCHANGED <<head, store, order>>

(* The blob a call's work puts in storage.                                 *)
BlobOf(a) == [prev |-> base[a], call |-> a]

(* Mutation: the head is not moved to the new blob.                        *)
UploadOkHeadKept(i) ==
  /\ pc[order[i]] = "uploading"
  /\ store' = Append(store, BlobOf(order[i]))
  /\ pc' = [pc EXCEPT ![order[i]] = "fulfilled"]
  /\ UNCHANGED <<head, order, base>>

(* putJson resolves: the head moves to the new root.                       *)
UploadOk(i) ==
  /\ pc[order[i]] = "uploading"
  /\ store' = Append(store, BlobOf(order[i]))
  /\ head' = Len(store')
  /\ pc' = [pc EXCEPT ![order[i]] = "fulfilled"]
  /\ UNCHANGED <<order, base>>

(* putJson rejects: the blob may or may not have reached the storage nodes.*)
UploadFail(i) ==
  /\ pc[order[i]] = "uploading"
  /\ store' \in {store, Append(store, BlobOf(order[i]))}
  /\ pc' = [pc EXCEPT ![order[i]] = "rejected"]
  /\ UNCHANGED <<head, order, base>>

(* Mutation: a call behind a rejected one is never told.                   *)
PropagateNever(i) == FALSE /\ UNCHANGED vars

(* `then` on a rejected promise: the work is skipped, the call rejects.    *)
Propagate(i) ==
  /\ i > 1
  /\ pc[order[i]] = "queued"
  /\ pc[order[i - 1]] = "rejected"
  /\ pc' = [pc EXCEPT ![order[i]] = "rejected"]
  /\ UNCHANGED <<head, store, order, base>>

Next ==
  \/ \E a \in Calls : AppendCall(a)
  \/ \E i \in Positions :
       Begin(i) \/ UploadOk(i) \/ UploadFail(i) \/ Propagate(i)

Spec == Init /\ [][Next]_vars

(* A step of the work, or of the promise, of one call.                     *)
Progress(a) ==
  \E i \in Positions :
    /\ order[i] = a
    /\ Begin(i) \/ UploadOk(i) \/ UploadFail(i) \/ Propagate(i)

(* Fairness: the event loop runs a promise callback that is ready, and an  *)
(* upload ends.  Nothing obliges anybody to call append.                   *)
FairSpec == Spec /\ \A a \in Calls : WF_vars(Progress(a))

-----------------------------------------------------------------------------
(* Reading the chain                                                       *)

(* The calls recorded from the first blob up to root r, oldest first.      *)
History[r \in Roots] ==
  IF store[r].prev = Nil
    THEN <<store[r].call>>
    ELSE Append(History[store[r].prev], store[r].call)

(* RepChain.walk(h, limit): newest first, at most `limit` blobs.           *)
Walk(h, limit) ==
  IF h = Nil
    THEN <<>>
    ELSE LET newest == Reverse(History[h])
         IN  SubSeq(newest, 1, IF limit < Len(newest) THEN limit ELSE Len(newest))

(* What a reader who starts at the published head can see.                 *)
Readable == IF head = Nil THEN <<>> ELSE History[head]

-----------------------------------------------------------------------------
(* Properties                                                              *)

(* Every variable keeps its type, and no call chains itself twice.         *)
TypeOK ==
  /\ head \in Roots \cup {Nil}
  /\ store \in Seq(Blob)
  /\ order \in Seq(Calls)
  /\ pc \in [Calls -> {"idle", "queued", "uploading", "fulfilled", "rejected"}]
  /\ base \in [Calls -> Roots \cup {Nil}]
  /\ \A i, j \in Positions : order[i] = order[j] => i = j

(* No two blobs name the same predecessor, whether or not their upload was *)
(* reported as a success: concurrent callers cannot fork the chain.        *)
NoFork ==
  \A r, s \in Roots : store[r].prev = store[s].prev => r = s

(* The places in the queue of the appends that reported success.         *)
Successes == {i \in Positions : pc[order[i]] = "fulfilled"}

(* Walking back from the head with any limit returns exactly the appends   *)
(* that reported success, most recent first: no success is lost, no failed *)
(* append is seen, and none appears out of the order of the calls          *)
(* (rep.ts:49-91).                                                         *)
WalkIsHistory ==
  \A limit \in 0 .. Len(order) :
    LET seen == Walk(head, limit)
        all  == Cardinality(Successes)
    IN  /\ Len(seen) = IF limit < all THEN limit ELSE all
        /\ \A n \in DOMAIN seen : \E i \in Successes :
             seen[n] = order[i] /\ Cardinality({j \in Successes : i < j}) = n - 1

(* To a reader who follows the head, the chain is an append-only log.      *)
Log == INSTANCE AppendOnlyLog WITH Entries <- Calls, log <- Readable
LogRefinement == Log!Spec

(* Every append settles: behind a failed upload the later calls are not    *)
(* left waiting, they are rejected.                                        *)
AppendsSettle ==
  \A a \in Calls : pc[a] = "queued" ~> pc[a] \in {"fulfilled", "rejected"}
=============================================================================
