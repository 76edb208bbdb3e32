------------------------- MODULE AppendChain_proofs -------------------------
(***************************************************************************)
(* What the promise lock of append() guarantees for any number of calls,   *)
(* and what memory anchoring (StateAnchor) makes of such a chain.          *)
(*                                                                         *)
(* NoFork alone is not inductive: it says nothing about the blob that an   *)
(* upload under way is about to store.  The strengthening says that the    *)
(* queue of promises is served from its front (Serial), that an upload     *)
(* under way names the head of this moment (Current), and that, as long    *)
(* as nothing was rejected, no blob names the head yet (Fresh).            *)
(*                                                                         *)
(* Memory: LineageUnlessMishap speaks of the roots that are mined.  The    *)
(* line is longer: it goes on with the roots that were sent (Sent), and    *)
(* the invariant ties its end to what each program holds at each stage: to *)
(* the head (HeadFollows), to a root that was read (ReadsTip), to the blob *)
(* an append just stored (HeadIsMine).                                     *)
(***************************************************************************)
EXTENDS StateAnchor, FiniteSetTheorems, SequenceTheorems, WellFoundedInduction, TLAPS

(* A call is in the queue exactly if it has left "idle".                   *)
Queued ==
  /\ \A i \in Positions : pc[order[i]] # "idle"
  /\ \A a \in Calls : pc[a] # "idle" => \E i \in Positions : order[i] = a

(* Work starts only behind fulfilled work; a rejection comes only behind   *)
(* settled work.                                                           *)
Serial ==
  \A i, j \in Positions : i < j =>
    /\ pc[order[j]] \in {"uploading", "fulfilled"} => pc[order[i]] = "fulfilled"
    /\ pc[order[j]] = "rejected" => pc[order[i]] \in {"fulfilled", "rejected"}

(* Blobs point backwards.                                                  *)
Backward == \A r \in Roots : store[r].prev = Nil \/ store[r].prev \in 1 .. r - 1

Current == \A a \in Calls : pc[a] = "uploading" => base[a] = head

NoneRejected == \A a \in Calls : pc[a] # "rejected"

Fresh == NoneRejected => \A r \in Roots : store[r].prev # head

IInv == TypeOK /\ Queued /\ Serial /\ Backward /\ Current /\ Fresh /\ NoFork

(* The calls that reported success are the first of the queue, and their   *)
(* blobs the first of the storage, each on the one before it; at most one  *)
(* blob, of the upload that failed, lies behind them.                      *)
Made == IF head = Nil THEN 0 ELSE head

Line ==
  /\ Made <= Len(order)
  /\ \A i \in Positions : pc[order[i]] = "fulfilled" <=> i <= Made
  /\ NoneRejected => Len(store) = Made
  /\ \A r \in Roots : store[r].prev = IF r = 1 THEN Nil ELSE r - 1
  /\ \A r \in Roots : r <= Made => store[r].call = order[r]

LInv == IInv /\ Line

-----------------------------------------------------------------------------
(* A longer chain has the roots of the shorter one and one more.           *)
LEMMA AppendedStore ==
  ASSUME NEW s \in Seq(Blob), NEW b \in Blob
  PROVE  /\ Append(s, b) \in Seq(Blob)
         /\ Len(Append(s, b)) = Len(s) + 1
         /\ \A r \in 1 .. Len(s) : Append(s, b)[r] = s[r]
         /\ Append(s, b)[Len(s) + 1] = b
  OBVIOUS

(* While a call uploads, it is the only one that does, nothing has been    *)
(* rejected, and everything before it is fulfilled.                        *)
LEMMA AloneAtWork ==
  ASSUME IInv, NEW i \in Positions, pc[order[i]] = "uploading"
  PROVE  /\ NoneRejected
         /\ \A a \in Calls : pc[a] = "uploading" => a = order[i]
<1> USE DEF IInv, TypeOK, Positions
<1>1. ASSUME NEW a \in Calls, pc[a] \in {"rejected", "uploading"}, a # order[i]
      PROVE  FALSE
  <2>1. PICK j \in Positions : order[j] = a
    BY <1>1 DEF Queued
  <2>2. i # j /\ i \in Nat /\ j \in Nat
    BY <1>1, <2>1
  <2>3. CASE i < j
    BY <1>1, <2>1, <2>3 DEF Serial
  <2>4. CASE j < i
    BY <1>1, <2>1, <2>4 DEF Serial
  <2> QED
    BY <2>2, <2>3, <2>4
<1>2. ASSUME NEW a \in Calls PROVE pc[a] # "rejected"
  BY <1>1
<1>3. ASSUME NEW a \in Calls, pc[a] = "uploading" PROVE a = order[i]
  BY <1>1, <1>3
<1> QED
  BY <1>2, <1>3 DEF NoneRejected

(* The blob of an upload under way is a blob that names the head.          *)
LEMMA BlobNamesHead ==
  ASSUME IInv, NEW i \in Positions, pc[order[i]] = "uploading"
  PROVE  /\ order[i] \in Calls
         /\ BlobOf(order[i]) \in Blob
         /\ BlobOf(order[i]).prev = head
<1>1. order[i] \in Calls
  BY DEF IInv, TypeOK, Positions
<1>2. base[order[i]] = head
  BY <1>1 DEF IInv, Current
<1>3. head \in Nat \cup {Nil}
  BY DEF IInv, TypeOK, Roots
<1> QED
  BY <1>1, <1>2, <1>3 DEF BlobOf, Blob

(* Storing that blob forks nothing: no other blob names the head.          *)
LEMMA StoreStep ==
  ASSUME IInv, NEW i \in Positions, pc[order[i]] = "uploading",
         store' = Append(store, BlobOf(order[i]))
  PROVE  /\ store' \in Seq(Blob)
         /\ Roots' = Roots \cup {Len(store')}
         /\ Len(store') \notin Roots
         /\ \A r \in Roots : store'[r] = store[r]
         /\ store'[Len(store')].prev = head
         /\ Backward'
         /\ NoFork'
<1>1. BlobOf(order[i]) \in Blob /\ BlobOf(order[i]).prev = head
  BY BlobNamesHead
<1>2. store \in Seq(Blob) /\ head \in Roots \cup {Nil}
  BY DEF IInv, TypeOK
<1>3. /\ store' \in Seq(Blob)
      /\ Len(store') = Len(store) + 1
      /\ \A r \in 1 .. Len(store) : store'[r] = store[r]
      /\ store'[Len(store) + 1] = BlobOf(order[i])
  BY <1>1, <1>2, AppendedStore
<1>4. /\ Roots' = Roots \cup {Len(store')}
      /\ Len(store') \notin Roots
      /\ Len(store) \in Nat
  BY <1>2, <1>3 DEF Roots
<1>5. \A r \in Roots : store'[r] = store[r]
  BY <1>3 DEF Roots
<1>6. store'[Len(store')].prev = head
  BY <1>1, <1>3
<1>7. Backward'
  <2>1. \A r \in Roots : store'[r].prev = Nil \/ store'[r].prev \in 1 .. r - 1
    BY <1>5 DEF IInv, Backward
  <2>2. head = Nil \/ head \in 1 .. Len(store') - 1
    BY <1>2, <1>3, <1>4 DEF Roots
  <2> QED
    BY <1>4, <1>6, <2>1, <2>2 DEF Backward
<1>8. NoFork'
  <2>1. \A r \in Roots : store'[r].prev # head
    BY <1>5, AloneAtWork DEF IInv, Fresh
  <2>2. \A r, s \in Roots : store'[r].prev = store'[s].prev => r = s
    BY <1>5 DEF IInv, NoFork
  <2> SUFFICES ASSUME NEW r \in Roots', NEW s \in Roots',
                      store'[r].prev = store'[s].prev
               PROVE  r = s
    BY DEF NoFork
  <2>3. CASE r \in Roots /\ s \in Roots
    BY <2>2, <2>3
  <2>4. CASE r = Len(store') \/ s = Len(store')
    BY <1>4, <1>6, <2>1, <2>4
  <2> QED
    BY <1>4, <2>3, <2>4
<1> QED
  BY <1>3, <1>4, <1>5, <1>6, <1>7, <1>8

-----------------------------------------------------------------------------
(* One lemma per action                                                    *)

LEMMA InitStep == Init => IInv
<1> SUFFICES ASSUME Init PROVE IInv
  OBVIOUS
<1>1. Positions = {} /\ Roots = {}
  BY DEF Init, Positions, Roots
<1>2. TypeOK
  BY <1>1 DEF Init, TypeOK
<1> QED
  BY <1>1, <1>2 DEF Init, IInv, Queued, Serial, Backward, Current, Fresh, NoFork

LEMMA AppendCallStep ==
  ASSUME IInv, NEW a \in Calls, AppendCall(a)
  PROVE  IInv'
<1> DEFINE last == Len(order) + 1
<1>1. /\ order' \in Seq(Calls)
      /\ Positions' = Positions \cup {last}
      /\ \A i \in Positions : order'[i] = order[i] /\ ~(last < i) /\ i # last
      /\ order'[last] = a
  BY DEF IInv, TypeOK, AppendCall, Enqueue, Positions
<1>2. /\ \A i \in Positions : order[i] \in Calls /\ order[i] # a
      /\ \A i, j \in Positions : order[i] = order[j] => i = j
  BY DEF IInv, TypeOK, AppendCall, Enqueue, Queued, Positions
<1>3. /\ pc' \in [Calls -> {"idle", "queued", "uploading", "fulfilled", "rejected"}]
      /\ pc'[a] = "queued"
      /\ \A b \in Calls : b # a => pc'[b] = pc[b]
  BY DEF IInv, TypeOK, AppendCall, Enqueue
<1>4. Roots' = Roots /\ UNCHANGED <<head, store, base>>
  BY DEF AppendCall, Roots
<1>5. ~(last < last)
  BY DEF IInv, TypeOK
<1> HIDE DEF last
<1>6. TypeOK'
  <2>1. ASSUME NEW i \in Positions', NEW j \in Positions', order'[i] = order'[j]
        PROVE  i = j
    BY <1>1, <1>2, <2>1
  <2> QED
    BY <1>1, <1>3, <1>4, <2>1 DEF IInv, TypeOK
<1>7. Queued'
  <2>1. ASSUME NEW i \in Positions' PROVE pc'[order'[i]] # "idle"
    BY <1>1, <1>2, <1>3 DEF IInv, Queued
  <2>2. ASSUME NEW b \in Calls, pc'[b] # "idle"
        PROVE  \E i \in Positions' : order'[i] = b
    <3>1. CASE b = a
      BY <1>1, <3>1
    <3>2. CASE b # a
      <4>1. PICK i \in Positions : order[i] = b
        BY <1>3, <2>2, <3>2 DEF IInv, Queued
      <4> QED
        BY <1>1, <4>1
    <3> QED
      BY <3>1, <3>2
  <2> QED
    BY <2>1, <2>2 DEF Queued
<1>8. Serial'
  <2>1. \A i \in Positions : pc'[order'[i]] = pc[order[i]]
    BY <1>1, <1>2, <1>3
  <2>2. pc'[order'[last]] = "queued"
    BY <1>1, <1>3
  <2>3. ASSUME NEW i \in Positions', NEW j \in Positions', i < j
        PROVE  /\ pc'[order'[j]] \in {"uploading", "fulfilled"}
                    => pc'[order'[i]] = "fulfilled"
               /\ pc'[order'[j]] = "rejected"
                    => pc'[order'[i]] \in {"fulfilled", "rejected"}
    <3>1. CASE j = last
      BY <2>2, <3>1
    <3>2. CASE j \in Positions
      <4>1. i \in Positions
        BY <1>1, <2>3, <3>2
      <4> QED
        BY <2>1, <2>3, <3>2, <4>1 DEF IInv, Serial
    <3> QED
      BY <1>1, <3>1, <3>2
  <2> QED
    BY <2>3 DEF Serial
<1>9. Current' /\ Fresh'
  BY <1>3, <1>4 DEF IInv, AppendCall, Enqueue, Current, Fresh, NoneRejected
<1>10. Backward' /\ NoFork'
  BY <1>4 DEF IInv, Backward, NoFork
<1> QED
  BY <1>6, <1>7, <1>8, <1>9, <1>10 DEF IInv

(* What a step of the i-th promise leaves alone, and its queue.            *)
LEMMA MoveStep ==
  ASSUME IInv, NEW i \in Positions,
         NEW s \in {"uploading", "fulfilled", "rejected"},
         UNCHANGED order,
         pc' = [pc EXCEPT ![order[i]] = s],
         \A k \in Positions : k < i =>
           /\ s # "rejected" => pc[order[k]] = "fulfilled"
           /\ pc[order[k]] \in {"fulfilled", "rejected"},
         pc[order[i]] \in {"queued", "uploading"}
  PROVE  /\ Positions' = Positions
         /\ pc' \in [Calls -> {"idle", "queued", "uploading", "fulfilled", "rejected"}]
         /\ pc'[order[i]] = s
         /\ \A b \in Calls : b # order[i] => pc'[b] = pc[b]
         /\ Queued'
         /\ Serial'
<1> USE DEF IInv, TypeOK
<1>1. Positions' = Positions
  BY DEF Positions
<1>2. order[i] \in Calls /\ \A k \in Positions : order[k] \in Calls
  BY DEF Positions
<1>3. /\ pc' \in [Calls -> {"idle", "queued", "uploading", "fulfilled", "rejected"}]
      /\ pc'[order[i]] = s
      /\ \A b \in Calls : b # order[i] => pc'[b] = pc[b]
  BY <1>2
<1>4. Queued'
  BY <1>1, <1>2, <1>3 DEF Queued
<1>5. \A k \in Positions : k # i => pc'[order'[k]] = pc[order[k]]
  BY <1>2, <1>3
<1>6. \A k \in Positions : i < k => pc[order[k]] \notin {"uploading", "fulfilled", "rejected"}
  BY DEF Serial
<1>7. Serial'
  <2> SUFFICES ASSUME NEW k \in Positions, NEW j \in Positions, k < j
               PROVE  /\ pc'[order'[j]] \in {"uploading", "fulfilled"}
                           => pc'[order'[k]] = "fulfilled"
                      /\ pc'[order'[j]] = "rejected"
                           => pc'[order'[k]] \in {"fulfilled", "rejected"}
    BY <1>1 DEF Serial
  <2>0. k \in Nat /\ j \in Nat /\ i \in Nat
    BY DEF Positions
  <2>1. CASE j = i
    BY <1>2, <1>3, <1>5, <2>0, <2>1
  <2>2. CASE k = i
    BY <1>5, <1>6, <2>0, <2>2
  <2>3. CASE j # i /\ k # i
    BY <1>5, <2>3 DEF Serial
  <2> QED
    BY <2>1, <2>2, <2>3
<1> QED
  BY <1>1, <1>3, <1>4, <1>7

LEMMA BeginStep ==
  ASSUME IInv, NEW i \in Positions, Begin(i)
  PROVE  IInv'
<1> USE DEF IInv, TypeOK
<1>1. order[i] \in Calls /\ i \in Nat /\ i >= 1 /\ i <= Len(order)
  BY DEF Positions
<1>2. \A k \in Positions : k < i => pc[order[k]] = "fulfilled"
  <2> SUFFICES ASSUME NEW k \in Positions, k < i PROVE pc[order[k]] = "fulfilled"
    OBVIOUS
  <2>1. i > 1 /\ i - 1 \in Positions /\ pc[order[i - 1]] = "fulfilled" /\ k \in Nat
    BY <1>1 DEF Begin, Positions
  <2>2. k = i - 1 \/ k < i - 1
    BY <1>1, <2>1
  <2> QED
    BY <2>1, <2>2 DEF Serial
<1>3. /\ Positions' = Positions
      /\ pc' \in [Calls -> {"idle", "queued", "uploading", "fulfilled", "rejected"}]
      /\ pc'[order[i]] = "uploading"
      /\ \A b \in Calls : b # order[i] => pc'[b] = pc[b]
      /\ Queued' /\ Serial'
  BY <1>2, MoveStep DEF Begin
<1>4. Roots' = Roots
  BY DEF Begin, Roots
<1>5. TypeOK'
  BY <1>1, <1>3, <1>4 DEF Begin
<1>6. Current'
  BY <1>1, <1>3 DEF Begin, Current
<1>7. NoneRejected' => NoneRejected
  BY <1>1, <1>3 DEF NoneRejected, Begin
<1>8. Fresh'
  BY <1>4, <1>7 DEF Fresh, Begin
<1>9. Backward' /\ NoFork'
  BY <1>4 DEF Begin, Backward, NoFork
<1> QED
  BY <1>3, <1>5, <1>6, <1>8, <1>9

(* Everything before an upload under way is fulfilled.                     *)
LEMMA FrontFulfilled ==
  ASSUME IInv, NEW i \in Positions, pc[order[i]] = "uploading"
  PROVE  \A k \in Positions : k < i => pc[order[k]] = "fulfilled"
  BY DEF IInv, Serial

LEMMA UploadOkStep ==
  ASSUME IInv, NEW i \in Positions, UploadOk(i)
  PROVE  IInv'
<1>0. pc[order[i]] = "uploading" /\ order[i] \in Calls
  BY DEF UploadOk, IInv, TypeOK, Positions
<1>1. /\ store' \in Seq(Blob)
      /\ Roots' = Roots \cup {Len(store')}
      /\ Len(store') \notin Roots
      /\ \A r \in Roots : store'[r] = store[r]
      /\ store'[Len(store')].prev = head
      /\ Backward' /\ NoFork'
  BY <1>0, StoreStep DEF UploadOk
<1>2. /\ Positions' = Positions
      /\ pc' \in [Calls -> {"idle", "queued", "uploading", "fulfilled", "rejected"}]
      /\ pc'[order[i]] = "fulfilled"
      /\ \A b \in Calls : b # order[i] => pc'[b] = pc[b]
      /\ Queued' /\ Serial'
  BY <1>0, MoveStep, FrontFulfilled DEF UploadOk
<1>3. TypeOK'
  BY <1>1, <1>2 DEF UploadOk, IInv, TypeOK
<1>4. Current'
  BY <1>0, <1>2, AloneAtWork DEF Current
<1>5. Fresh'
  <2>1. head \in Roots \cup {Nil} /\ head' = Len(store')
    BY DEF UploadOk, IInv, TypeOK
  <2>2. \A r \in Roots' : store'[r].prev # Len(store')
    <3> SUFFICES ASSUME NEW r \in Roots', store'[r].prev = Len(store')
                 PROVE  FALSE
      OBVIOUS
    <3>1. Len(store') \in Nat /\ r \in 1 .. Len(store')
      BY <1>1 DEF Roots
    <3>2. store'[r].prev \in 1 .. r - 1
      BY <3>1, ChainAssumption, <1>1 DEF Backward
    <3> QED
      BY <3>1, <3>2
  <2> QED
    BY <2>1, <2>2 DEF Fresh
<1> QED
  BY <1>1, <1>2, <1>3, <1>4, <1>5 DEF IInv

LEMMA UploadFailStep ==
  ASSUME IInv, NEW i \in Positions, UploadFail(i)
  PROVE  IInv'
<1>0. pc[order[i]] = "uploading" /\ order[i] \in Calls
  BY DEF UploadFail, IInv, TypeOK, Positions
<1>1. /\ store' \in Seq(Blob)
      /\ \A r \in Roots : r \in Roots'
      /\ Backward' /\ NoFork'
  <2>1. CASE store' = store
    BY <2>1 DEF IInv, TypeOK, Backward, NoFork, Roots
  <2>2. CASE store' = Append(store, BlobOf(order[i]))
    BY <1>0, <2>2, StoreStep
  <2> QED
    BY <2>1, <2>2 DEF UploadFail
<1>2. /\ Positions' = Positions
      /\ pc' \in [Calls -> {"idle", "queued", "uploading", "fulfilled", "rejected"}]
      /\ pc'[order[i]] = "rejected"
      /\ \A b \in Calls : b # order[i] => pc'[b] = pc[b]
      /\ Queued' /\ Serial'
  BY <1>0, MoveStep, FrontFulfilled DEF UploadFail
<1>3. TypeOK'
  BY <1>1, <1>2 DEF UploadFail, IInv, TypeOK
<1>4. Current'
  BY <1>0, <1>2, AloneAtWork DEF Current
<1>5. Fresh'
  BY <1>0, <1>2 DEF Fresh, NoneRejected
<1> QED
  BY <1>1, <1>2, <1>3, <1>4, <1>5 DEF IInv

LEMMA PropagateStep ==
  ASSUME IInv, NEW i \in Positions, Propagate(i)
  PROVE  IInv'
<1> USE DEF IInv, TypeOK
<1>1. order[i] \in Calls /\ i \in Nat /\ i > 1 /\ i <= Len(order) /\ i - 1 \in Positions
  BY DEF Positions, Propagate
<1>2. \A k \in Positions : k < i => pc[order[k]] \in {"fulfilled", "rejected"}
  <2> SUFFICES ASSUME NEW k \in Positions, k < i
               PROVE  pc[order[k]] \in {"fulfilled", "rejected"}
    OBVIOUS
  <2>1. k = i - 1 \/ k < i - 1
    BY <1>1 DEF Positions
  <2> QED
    BY <1>1, <2>1 DEF Serial, Propagate
<1>3. /\ Positions' = Positions
      /\ pc' \in [Calls -> {"idle", "queued", "uploading", "fulfilled", "rejected"}]
      /\ pc'[order[i]] = "rejected"
      /\ \A b \in Calls : b # order[i] => pc'[b] = pc[b]
      /\ Queued' /\ Serial'
  BY <1>2, MoveStep DEF Propagate
<1>4. Roots' = Roots
  BY DEF Propagate, Roots
<1>5. TypeOK'
  BY <1>3, <1>4 DEF Propagate
<1>6. Current' /\ Fresh'
  BY <1>1, <1>3 DEF Propagate, Current, Fresh, NoneRejected
<1>7. Backward' /\ NoFork'
  BY <1>4 DEF Propagate, Backward, NoFork
<1> QED
  BY <1>3, <1>5, <1>6, <1>7

-----------------------------------------------------------------------------
LEMMA InvStep == IInv /\ [Next]_vars => IInv'
<1> SUFFICES ASSUME IInv, [Next]_vars PROVE IInv'
  OBVIOUS
<1>1. CASE \E a \in Calls : AppendCall(a)
  BY <1>1, AppendCallStep
<1>2. ASSUME NEW i \in Positions,
             Begin(i) \/ UploadOk(i) \/ UploadFail(i) \/ Propagate(i)
      PROVE  IInv'
  BY <1>2, BeginStep, UploadOkStep, UploadFailStep, PropagateStep
<1>3. CASE UNCHANGED vars
  BY <1>3 DEF vars, IInv, TypeOK, Queued, Serial, Backward, Current, Fresh,
              NoneRejected, NoFork, Positions, Roots
<1> QED
  BY <1>1, <1>2, <1>3 DEF Next

(* The inductive invariant of the chain and its lock.                      *)
THEOREM Invariance == Spec => []IInv
BY InitStep, InvStep, PTL DEF Spec

(* Every variable keeps its type and no call is chained twice.             *)
THEOREM TypeCorrect == Spec => []TypeOK
<1>1. IInv => TypeOK
  BY DEF IInv
<1> QED
  BY Invariance, <1>1, PTL

(* Concurrent callers cannot fork the chain, whatever uploads fail and     *)
(* even if a failed upload has left its blob behind.                       *)
THEOREM ForkFree == Spec => []NoFork
<1>1. IInv => NoFork
  BY DEF IInv
<1> QED
  BY Invariance, <1>1, PTL

-----------------------------------------------------------------------------
(* The line of blobs behind the head.                                      *)
LEMMA MadeType ==
  ASSUME IInv
  PROVE  /\ Made \in Nat /\ Made <= Len(store) /\ Len(store) \in Nat /\ Len(order) \in Nat
         /\ head = IF Made = 0 THEN Nil ELSE Made
         /\ \A i \in Positions : i \in Nat /\ i >= 1 /\ i <= Len(order) /\ order[i] \in Calls
  BY ChainAssumption DEF IInv, TypeOK, Roots, Made, Positions

LEMMA InitLine == Init => Line
<1> SUFFICES ASSUME Init PROVE Line
  OBVIOUS
<1>1. Positions = {} /\ Roots = {} /\ Made = 0 /\ Len(order) = 0 /\ Len(store) = 0
  BY DEF Init, Positions, Roots, Made
<1> QED
  BY <1>1 DEF Line

LEMMA AppendCallLine ==
  ASSUME LInv, NEW a \in Calls, AppendCall(a)
  PROVE  Line'
<1> DEFINE last == Len(order) + 1
<1>1. IInv /\ Line
  BY DEF LInv
<1>2. Made \in Nat /\ Len(order) \in Nat
  BY <1>1, MadeType
<1>3. /\ Positions' = Positions \cup {last} /\ Len(order') = last
      /\ \A i \in Positions : order'[i] = order[i] /\ order[i] \in Calls
      /\ order'[last] = a
  BY <1>1 DEF IInv, TypeOK, AppendCall, Enqueue, Positions
<1>4. /\ pc'[a] = "queued" /\ pc[a] = "idle"
      /\ \A b \in Calls : b # a => pc'[b] = pc[b]
  BY <1>1 DEF IInv, TypeOK, AppendCall, Enqueue
<1>5. Roots' = Roots /\ Made' = Made /\ UNCHANGED <<head, store, base>>
  BY DEF AppendCall, Roots, Made
<1>6. \A i \in Positions : order[i] # a
  BY <1>1, <1>4 DEF IInv, Queued
<1>7. Made' <= Len(order')
  BY <1>1, <1>2, <1>3, <1>5 DEF Line
<1>8. ASSUME NEW i \in Positions' PROVE pc'[order'[i]] = "fulfilled" <=> i <= Made'
  <2>1. CASE i \in Positions
    BY <1>1, <1>3, <1>4, <1>5, <1>6, <2>1 DEF Line
  <2>2. CASE i = last
    <3>1. ~(last <= Made)
      BY <1>1, <1>2 DEF Line
    <3> QED
      BY <1>3, <1>4, <1>5, <2>2, <3>1
  <2> QED
    BY <1>3, <2>1, <2>2
<1>9. NoneRejected' => NoneRejected
  BY <1>1, <1>4 DEF NoneRejected
<1>10. \A r \in Roots : r <= Made => store[r].call = order'[r]
  <2>1. ASSUME NEW r \in Roots, r <= Made PROVE r \in Positions
    BY <1>1, <1>2, <2>1 DEF Line, Roots, Positions
  <2> QED
    BY <1>1, <1>3, <2>1 DEF Line
<1> QED
  BY <1>1, <1>5, <1>7, <1>8, <1>9, <1>10 DEF Line

(* Steps of a promise that leave the line as it is: none is fulfilled, and *)
(* no blob is stored unless this call is rejected.                         *)
LEMMA SameLine ==
  ASSUME LInv, NEW i \in Positions, NEW s \in {"uploading", "rejected"},
         UNCHANGED <<head, order>>, pc' = [pc EXCEPT ![order[i]] = s],
         pc[order[i]] \in {"queued", "uploading"},
         \/ UNCHANGED store
         \/ /\ s = "rejected" /\ pc[order[i]] = "uploading"
            /\ store' = Append(store, BlobOf(order[i]))
  PROVE  Line'
<1>1. IInv /\ Line
  BY DEF LInv
<1>2. /\ Made \in Nat /\ Len(store) \in Nat /\ head = IF Made = 0 THEN Nil ELSE Made
      /\ \A k \in Positions : order[k] \in Calls
  BY <1>1, MadeType
<1>3. Made' = Made /\ Positions' = Positions
  BY DEF Made, Positions
<1>4. /\ pc'[order[i]] = s
      /\ \A b \in Calls : b # order[i] => pc'[b] = pc[b]
  BY <1>1, <1>2 DEF IInv, TypeOK
<1>5. \A k \in Positions : pc'[order'[k]] = "fulfilled" <=> k <= Made
  <2>1. \A k \in Positions : k = i \/ order[k] # order[i]
    BY <1>1 DEF IInv, TypeOK
  <2> QED
    BY <1>1, <1>2, <1>4, <2>1 DEF Line
<1>6. CASE UNCHANGED store
  <2>1. Roots' = Roots
    BY <1>6 DEF Roots
  <2>2. NoneRejected' => NoneRejected
    BY <1>2, <1>4 DEF NoneRejected
  <2> QED
    BY <1>1, <1>3, <1>5, <1>6, <2>1, <2>2 DEF Line
<1>7. CASE /\ s = "rejected" /\ pc[order[i]] = "uploading"
           /\ store' = Append(store, BlobOf(order[i]))
  <2>1. ~NoneRejected'
    BY <1>2, <1>4, <1>7 DEF NoneRejected
  <2>2. NoneRejected
    BY <1>1, <1>7, AloneAtWork
  <2>3. Len(store) = Made
    BY <1>1, <2>2 DEF Line
  <2>4. /\ Roots' = Roots \cup {Len(store) + 1}
        /\ \A r \in Roots : store'[r] = store[r]
        /\ store'[Len(store) + 1].prev = head
    <3>1. store \in Seq(Blob) /\ BlobOf(order[i]) \in Blob /\ BlobOf(order[i]).prev = head
      BY <1>1, <1>7, BlobNamesHead DEF IInv, TypeOK
    <3> QED
      BY <1>2, <1>7, <3>1, AppendedStore DEF Roots
  <2>5. ASSUME NEW r \in Roots' PROVE store'[r].prev = IF r = 1 THEN Nil ELSE r - 1
    <3>1. CASE r \in Roots
      BY <1>1, <2>4, <3>1 DEF Line
    <3>2. CASE r = Len(store) + 1
      BY <1>2, <2>3, <2>4, <3>2
    <3> QED
      BY <2>4, <3>1, <3>2
  <2>6. ASSUME NEW r \in Roots', r <= Made PROVE store'[r].call = order[r]
    <3>1. r \in Roots
      BY <1>2, <2>3, <2>4, <2>6
    <3> QED
      BY <1>1, <2>4, <2>6, <3>1 DEF Line
  <2> QED
    BY <1>1, <1>3, <1>5, <2>1, <2>5, <2>6 DEF Line
<1> QED
  BY <1>6, <1>7

(* A successful upload makes the line longer by the next call in the queue.*)
LEMMA UploadOkLine ==
  ASSUME LInv, NEW i \in Positions, UploadOk(i)
  PROVE  Line' /\ i = Made + 1 /\ Made' = Made + 1
<1>0. pc[order[i]] = "uploading" /\ UNCHANGED order /\ store' = Append(store, BlobOf(order[i]))
  BY DEF UploadOk
<1>1. IInv /\ Line
  BY DEF LInv
<1>2. /\ Made \in Nat /\ Len(store) \in Nat /\ Len(order) \in Nat
      /\ head = IF Made = 0 THEN Nil ELSE Made
      /\ i \in Nat /\ i >= 1 /\ i <= Len(order)
      /\ \A k \in Positions : order[k] \in Calls
  BY <1>1, MadeType
<1>3. Len(store) = Made
  BY <1>0, <1>1, AloneAtWork DEF Line
<1>4. i = Made + 1
  <2>1. ~(i <= Made)
    BY <1>0, <1>1 DEF Line
  <2>2. ASSUME Made + 1 < i PROVE FALSE
    <3>1. Made + 1 \in Positions /\ Made + 1 < i
      BY <1>2, <2>2 DEF Positions
    <3>2. pc[order[Made + 1]] = "fulfilled"
      BY <1>0, <1>1, <3>1, FrontFulfilled
    <3> QED
      BY <1>1, <1>2, <3>1, <3>2 DEF Line
  <2> QED
    BY <1>2, <2>1, <2>2
<1>5. /\ Len(store') = Made + 1 /\ Roots' = Roots \cup {Made + 1}
      /\ \A r \in Roots : store'[r] = store[r]
      /\ store'[Made + 1].prev = head /\ store'[Made + 1].call = order[i]
  <2>1. store \in Seq(Blob) /\ BlobOf(order[i]) \in Blob /\ BlobOf(order[i]).prev = head
    BY <1>0, <1>1, BlobNamesHead DEF IInv, TypeOK
  <2>2. BlobOf(order[i]).call = order[i]
    BY DEF BlobOf
  <2> QED
    BY <1>0, <1>2, <1>3, <2>1, <2>2, AppendedStore DEF Roots
<1>6. Made' = Made + 1
  BY <1>2, <1>5, ChainAssumption DEF UploadOk, Made
<1>7. /\ pc'[order[i]] = "fulfilled"
      /\ \A b \in Calls : b # order[i] => pc'[b] = pc[b]
  BY <1>1, <1>2 DEF UploadOk, IInv, TypeOK
<1>8. ASSUME NEW k \in Positions PROVE pc'[order[k]] = "fulfilled" <=> k <= Made + 1
  <2>1. k \in Nat /\ (k = i \/ order[k] # order[i])
    BY <1>1, MadeType DEF IInv, TypeOK
  <2> QED
    BY <1>1, <1>2, <1>4, <1>7, <2>1 DEF Line
<1>9. ASSUME NEW r \in Roots' PROVE store'[r].prev = IF r = 1 THEN Nil ELSE r - 1
  <2>1. CASE r \in Roots
    BY <1>1, <1>5, <2>1 DEF Line
  <2>2. CASE r = Made + 1
    BY <1>2, <1>5, <2>2
  <2> QED
    BY <1>5, <2>1, <2>2
<1>10. ASSUME NEW r \in Roots' PROVE store'[r].call = order[r]
  <2>1. CASE r \in Roots
    <3>1. r <= Made
      BY <1>3, <2>1 DEF Roots
    <3> QED
      BY <1>1, <1>5, <2>1, <3>1 DEF Line
  <2>2. CASE r = Made + 1
    BY <1>4, <1>5, <2>2
  <2> QED
    BY <1>5, <2>1, <2>2
<1>11. Positions' = Positions /\ Made + 1 <= Len(order)
  BY <1>0, <1>2, <1>4 DEF Positions
<1> QED
  BY <1>0, <1>4, <1>5, <1>6, <1>8, <1>9, <1>10, <1>11 DEF Line

LEMMA LineStep == LInv /\ [Next]_vars => LInv'
<1> SUFFICES ASSUME LInv, [Next]_vars PROVE LInv'
  OBVIOUS
<1>1. IInv'
  BY InvStep DEF LInv
<1>2. Line'
  <2>1. CASE \E a \in Calls : AppendCall(a)
    BY <2>1, AppendCallLine
  <2>2. ASSUME NEW i \in Positions, Begin(i) PROVE Line'
    BY <2>2, SameLine DEF Begin
  <2>3. ASSUME NEW i \in Positions, Propagate(i) PROVE Line'
    BY <2>3, SameLine DEF Propagate
  <2>4. ASSUME NEW i \in Positions, UploadFail(i) PROVE Line'
    BY <2>4, SameLine DEF UploadFail
  <2>5. ASSUME NEW i \in Positions, UploadOk(i) PROVE Line'
    BY <2>5, UploadOkLine
  <2>6. CASE UNCHANGED vars
    BY <2>6 DEF vars, LInv, Line, Made, Positions, Roots, NoneRejected
  <2> QED
    BY <2>1, <2>2, <2>3, <2>4, <2>5, <2>6 DEF Next
<1> QED
  BY <1>1, <1>2 DEF LInv

-----------------------------------------------------------------------------
(* Reading the line.                                                       *)
LEMMA Induct ==
  ASSUME NEW S, 0 \in S, \A n \in Nat : n \in S => n + 1 \in S
  PROVE  Nat \subseteq S
<1> SUFFICES ASSUME Nat \ S # {} PROVE FALSE
  OBVIOUS
<1>1. IsWellFoundedOn({ss \in Nat \X Nat : ss[1] < ss[2]}, Nat)
  BY NatLessThanWellFounded DEF OpToRel
<1>2. PICK n \in Nat \ S : \A m \in Nat \ S : ~(<<m, n>> \in {ss \in Nat \X Nat : ss[1] < ss[2]})
  <2>1. Nat \ S \subseteq Nat
    OBVIOUS
  <2> QED
    BY <1>1, <2>1, WFMin
<1>3. \A m \in Nat \ S : ~(m < n)
  BY <1>2
<1>4. n # 0 /\ n - 1 \in Nat /\ n - 1 < n /\ (n - 1) + 1 = n
  BY <1>2
<1>5. n - 1 \in S
  BY <1>3, <1>4
<1> QED
  BY <1>2, <1>4, <1>5

(* The first r calls that were stored.                                     *)
Calling(r) == [i \in 1 .. r |-> store[i].call]

LEMMA CallingFacts ==
  ASSUME store \in Seq(Blob)
  PROVE  /\ \A r \in Roots : r \in Nat /\ Calling(r) \in Seq(Calls) /\ Len(Calling(r)) = r
         /\ 1 \in Roots => Calling(1) = <<store[1].call>>
         /\ \A r \in Roots : r # 1 =>
              r - 1 \in Roots /\ Calling(r) = Append(Calling(r - 1), store[r].call)
<1>0. \A i \in 1 .. Len(store) : store[i].call \in Calls
  <2>1. \A i \in 1 .. Len(store) : store[i] \in Blob
    OBVIOUS
  <2>2. \A b \in Blob : b.call \in Calls
    BY DEF Blob
  <2> QED
    BY <2>1, <2>2
<1>1. ASSUME NEW r \in Roots
      PROVE  r \in Nat /\ Calling(r) \in Seq(Calls) /\ Len(Calling(r)) = r
  <2>1. r \in Nat /\ r >= 1 /\ r <= Len(store) /\ Len(store) \in Nat
    BY DEF Roots
  <2>2. \A i \in 1 .. r : store[i].call \in Calls
    BY <1>0, <2>1
  <2> QED
    BY <2>1, <2>2 DEF Calling
<1>2. ASSUME 1 \in Roots PROVE Calling(1) = <<store[1].call>>
  <2>1. Calling(1) \in Seq(Calls) /\ Len(Calling(1)) = 1 /\ Calling(1)[1] = store[1].call
    <3>1. Calling(1)[1] = store[1].call
      BY DEF Calling
    <3> QED
      BY <1>1, <1>2, <3>1
  <2>2. store[1].call \in Calls
    BY <1>0, <1>2 DEF Roots
  <2> QED
    BY <2>1, <2>2, SeqEqual
<1>3. ASSUME NEW r \in Roots, r # 1
      PROVE  r - 1 \in Roots /\ Calling(r) = Append(Calling(r - 1), store[r].call)
  <2>1. r - 1 \in Roots /\ r \in Nat
    BY <1>3 DEF Roots
  <2> DEFINE longer == Append(Calling(r - 1), store[r].call)
  <2>2. store[r].call \in Calls
    BY <1>0 DEF Roots
  <2>3. /\ longer \in Seq(Calls) /\ Len(longer) = r
        /\ \A i \in 1 .. r - 1 : longer[i] = Calling(r - 1)[i]
        /\ longer[r] = store[r].call
    <3>1. Calling(r - 1) \in Seq(Calls) /\ Len(Calling(r - 1)) = r - 1
      BY <1>1, <2>1
    <3> QED
      BY <2>1, <2>2, <3>1
  <2> HIDE DEF longer
  <2>4. \A i \in 1 .. r : Calling(r)[i] = longer[i]
    <3>1. \A i \in 1 .. r : Calling(r)[i] = store[i].call
      BY DEF Calling
    <3>2. \A i \in 1 .. r - 1 : Calling(r - 1)[i] = store[i].call
      BY DEF Calling
    <3> QED
      BY <2>1, <2>3, <3>1, <3>2
  <2>5. Calling(r) \in Seq(Calls) /\ Len(Calling(r)) = r
    BY <1>1
  <2>6. Calling(r) = longer
    BY <2>3, <2>4, <2>5, SeqEqual
  <2> QED
    BY <2>1, <2>6 DEF longer
<1> QED
  BY <1>1, <1>2, <1>3

(* The history behind a root is the calls stored up to it.                 *)
LEMMA HistoryIs ==
  ASSUME LInv
  PROVE  \A r \in Roots : History[r] = Calling(r)
<1> DEFINE Body(h, r) ==
      IF store[r].prev = Nil THEN <<store[r].call>> ELSE Append(h[store[r].prev], store[r].call)
<1>1. /\ store \in Seq(Blob)
      /\ \A r \in Roots : store[r].prev = IF r = 1 THEN Nil ELSE r - 1
      /\ \A r \in Roots : r \in Nat /\ r >= 1
      /\ \A r \in Roots : r # 1 => r - 1 \in Roots
  BY DEF LInv, IInv, TypeOK, Line, Roots
<1>2. \A r \in Roots : store[r].prev = Nil <=> r = 1
  BY <1>1, ChainAssumption
<1>3. \E h : h = [r \in Roots |-> Body(h, r)]
  <2> DEFINE g == [r \in Roots |-> Calling(r)]
  <2>1. ASSUME NEW r \in Roots PROVE Calling(r) = Body(g, r)
    <3>1. CASE r = 1
      BY <1>1, <1>2, <3>1, CallingFacts
    <3>2. CASE r # 1
      <4>1. g[r - 1] = Calling(r - 1)
        BY <1>1, <3>2
      <4> QED
        BY <1>1, <1>2, <3>2, <4>1, CallingFacts
    <3> QED
      BY <3>1, <3>2
  <2>2. g = [r \in Roots |-> Body(g, r)]
    BY <2>1
  <2> HIDE DEF g
  <2> QED
    BY <2>2
<1>4. History = [r \in Roots |-> Body(History, r)]
  BY <1>3 DEF History
<1> HIDE DEF Body
<1>5. \A r \in Roots : History[r] = Body(History, r)
  BY <1>4
<1> DEFINE S == {n \in Nat : n \in Roots => History[n] = Calling(n)}
<1>6. 0 \in S
  BY <1>1
<1>7. ASSUME NEW n \in Nat, n \in S PROVE n + 1 \in S
  <2> SUFFICES ASSUME n + 1 \in Roots PROVE History[n + 1] = Calling(n + 1)
    OBVIOUS
  <2>1. PICK r \in Roots : r = n + 1
    OBVIOUS
  <2>2. CASE r = 1
    BY <1>1, <1>2, <1>5, <2>1, <2>2, CallingFacts DEF Body
  <2>3. CASE r # 1
    <3>1. store[r].prev = n /\ store[r].prev # Nil /\ n \in Roots /\ r - 1 = n
      BY <1>1, <1>2, <2>1, <2>3
    <3>2. History[n] = Calling(n)
      BY <1>7, <3>1
    <3>3. History[r] = Append(Calling(n), store[r].call)
      BY <1>5, <3>1, <3>2 DEF Body
    <3>4. Calling(r) = Append(Calling(n), store[r].call)
      BY <1>1, <2>3, <3>1, CallingFacts
    <3> QED
      BY <2>1, <3>3, <3>4
  <2> QED
    BY <2>2, <2>3
<1>8. Nat \subseteq S
  BY <1>6, <1>7, Induct
<1> QED
  BY <1>1, <1>8

(* A reader who follows the head sees the first calls of the queue.        *)
ReadsLine(seen, made, queue) ==
  seen \in Seq(Calls) /\ Len(seen) = made /\ \A i \in 1 .. made : seen[i] = queue[i]

LEMMA ReadableIs == LInv => ReadsLine(Readable, Made, order)
<1> SUFFICES ASSUME LInv PROVE ReadsLine(Readable, Made, order)
  OBVIOUS
<1>1. IInv /\ Line /\ store \in Seq(Blob)
  BY DEF LInv, IInv, TypeOK
<1>2. CASE head = Nil
  BY <1>2 DEF ReadsLine, Readable, Made
<1>3. CASE head # Nil
  <2>1. head \in Roots /\ Made = head
    BY <1>1, <1>3 DEF IInv, TypeOK, Made
  <2>2. Readable = Calling(Made)
    BY <1>3, <2>1, HistoryIs DEF Readable
  <2>3. Calling(Made) \in Seq(Calls) /\ Len(Calling(Made)) = Made
    BY <1>1, <2>1, CallingFacts
  <2>4. \A i \in 1 .. Made : i \in Roots /\ i <= Made
    BY <2>1 DEF Roots
  <2>5. \A i \in 1 .. Made : Calling(Made)[i] = order[i]
    BY <1>1, <2>4 DEF Calling, Line
  <2> QED
    BY <2>2, <2>3, <2>5 DEF ReadsLine
<1> QED
  BY <1>2, <1>3

LEMMA ReadableNext == LInv' => ReadsLine(Readable', Made', order')
<1>1. LInv' => (ReadsLine(Readable, Made, order))'
  BY ReadableIs, PTL
<1> QED
  BY <1>1 DEF ReadsLine

LEMMA LogStep == LInv /\ LInv' /\ [Next]_vars => [Log!Next]_Readable
<1> SUFFICES ASSUME LInv, LInv', [Next]_vars PROVE [Log!Next]_Readable
  OBVIOUS
<1>1. ReadsLine(Readable, Made, order) /\ ReadsLine(Readable', Made', order')
  BY ReadableIs, ReadableNext
<1>2. IInv /\ Line /\ Made \in Nat /\ Len(order) \in Nat
  BY MadeType DEF LInv
<1>3. ASSUME Made' = Made, \A i \in 1 .. Made : order'[i] = order[i]
      PROVE  Readable' = Readable
  <2>1. /\ Readable \in Seq(Calls) /\ Readable' \in Seq(Calls) /\ Len(Readable') = Len(Readable)
        /\ Len(Readable) = Made
        /\ \A i \in 1 .. Made : Readable'[i] = Readable[i]
    BY <1>1, <1>3 DEF ReadsLine
  <2> QED
    BY <2>1, SeqEqual
<1>4. ASSUME NEW a \in Calls, AppendCall(a) PROVE Readable' = Readable
  <2>1. Made' = Made
    BY <1>4 DEF AppendCall, Made
  <2>2. \A i \in Positions : order'[i] = order[i]
    BY <1>2, <1>4 DEF AppendCall, Enqueue, IInv, TypeOK, Positions
  <2>3. \A i \in 1 .. Made : i \in Positions
    BY <1>2 DEF Line, Positions
  <2> QED
    BY <1>3, <2>1, <2>2, <2>3
<1>5. ASSUME UNCHANGED <<head, order>> PROVE Readable' = Readable
  BY <1>3, <1>5 DEF Made
<1>6. ASSUME NEW i \in Positions, UploadOk(i) PROVE Log!Accept(order[i])
  <2>1. i = Made + 1 /\ Made' = Made + 1 /\ order' = order
    BY <1>6, UploadOkLine DEF UploadOk
  <2>2. order[i] \in Calls /\ i \in Positions /\ \A k \in 1 .. Made : k \in Positions /\ k # i
    BY <1>2, <2>1, MadeType DEF Line, Positions
  <2>3. \A k \in DOMAIN Readable : Readable[k] # order[i]
    <3>1. \A k \in 1 .. Made : order[k] # order[i]
      BY <1>2, <2>2 DEF IInv, TypeOK
    <3>2. DOMAIN Readable = 1 .. Made /\ \A k \in 1 .. Made : Readable[k] = order[k]
      BY <1>1 DEF ReadsLine
    <3> QED
      BY <3>1, <3>2
  <2> DEFINE longer == Append(Readable, order[i])
  <2>4. /\ longer \in Seq(Calls) /\ Len(longer) = Made + 1 /\ longer[Made + 1] = order[i]
        /\ \A k \in 1 .. Made : longer[k] = order[k]
    <3>1. Readable \in Seq(Calls) /\ Len(Readable) = Made /\ \A k \in 1 .. Made : Readable[k] = order[k]
      BY <1>1 DEF ReadsLine
    <3> QED
      BY <1>2, <2>2, <3>1
  <2> HIDE DEF longer
  <2>5. \A k \in 1 .. Made + 1 : Readable'[k] = longer[k]
    <3>1. \A k \in 1 .. Made + 1 : Readable'[k] = order[k]
      BY <1>1, <2>1 DEF ReadsLine
    <3>2. \A k \in 1 .. Made + 1 : k \in 1 .. Made \/ k = Made + 1
      BY <1>2
    <3> QED
      BY <2>1, <2>4, <3>1, <3>2
  <2>6. Readable' \in Seq(Calls) /\ Len(Readable') = Made + 1
    BY <1>1, <2>1 DEF ReadsLine
  <2>7. Readable' = longer
    BY <2>4, <2>5, <2>6, SeqEqual
  <2> QED
    BY <2>3, <2>7 DEF Log!Accept, longer
<1>7. ASSUME NEW i \in Positions, Begin(i) \/ UploadFail(i) \/ Propagate(i)
      PROVE  Readable' = Readable
  BY <1>5, <1>7 DEF Begin, UploadFail, Propagate
<1>8. ASSUME NEW i \in Positions, UploadOk(i) PROVE Log!Next
  BY <1>6, <1>8, MadeType, <1>2 DEF Log!Next
<1>9. CASE UNCHANGED vars
  BY <1>5, <1>9 DEF vars
<1> QED
  BY <1>4, <1>7, <1>8, <1>9 DEF Next

LEMMA ReverseFacts ==
  ASSUME NEW S, NEW s \in Seq(S), NEW n \in Nat, Len(s) = n
  PROVE  /\ Reverse(s) \in Seq(S) /\ Len(Reverse(s)) = n
         /\ \A i \in 1 .. n : Reverse(s)[i] = s[n - i + 1]
<1>1. \A i \in 1 .. n : (n - i) + 1 \in 1 .. n
  OBVIOUS
<1>2. \A i \in 1 .. n : s[(n - i) + 1] \in S
  BY <1>1
<1>3. Reverse(s) = [i \in 1 .. n |-> s[(n - i) + 1]]
  BY DEF Reverse
<1> HIDE DEF Reverse
<1> QED
  BY <1>2, <1>3

(* The chain as its readers see it: whatever uploads fail, what is behind  *)
(* the head is the successful calls in the order they were made.           *)
THEOREM LineInvariance == Spec => []LInv
<1>1. Init => LInv
  BY InitStep, InitLine DEF LInv
<1> QED
  BY <1>1, LineStep, PTL DEF Spec

(* Walking back from the head returns exactly the appends that reported    *)
(* success, most recent first (rep.ts:49-91).                              *)
THEOREM WalkShowsHistory == Spec => []WalkIsHistory
<1>1. LInv => WalkIsHistory
  <2> SUFFICES ASSUME LInv, NEW limit \in 0 .. Len(order)
               PROVE  /\ Len(Walk(head, limit)) = IF limit < Cardinality(Successes)
                                                    THEN limit ELSE Cardinality(Successes)
                      /\ \A n \in DOMAIN Walk(head, limit) : \E i \in Successes :
                           /\ Walk(head, limit)[n] = order[i]
                           /\ Cardinality({j \in Successes : i < j}) = n - 1
    BY DEF WalkIsHistory
  <2>1. /\ Made \in Nat /\ Len(order) \in Nat /\ Made <= Len(order) /\ limit \in Nat
        /\ \A i \in Positions : pc[order[i]] = "fulfilled" <=> i <= Made
    BY MadeType DEF LInv, Line
  <2>2. Successes = 1 .. Made
    BY <2>1 DEF Successes, Positions
  <2>3. Cardinality(Successes) = Made
    <3>1. 1 \in Int /\ Made \in Int
      BY <2>1
    <3>2. Cardinality(1 .. Made) = IF 1 > Made THEN 0 ELSE Made - 1 + 1
      BY <3>1, FS_Interval
    <3> QED
      BY <2>1, <2>2, <3>2
  <2>4. CASE head = Nil
    BY <2>1, <2>3, <2>4 DEF Walk, Made
  <2>5. CASE head # Nil
    <3> DEFINE newest == Reverse(History[head])
    <3> DEFINE m == IF limit < Made THEN limit ELSE Made
    <3>1. Walk(head, limit) = SubSeq(newest, 1, IF limit < Len(newest) THEN limit ELSE Len(newest))
      BY <2>5 DEF Walk
    <3>2. ReadsLine(History[head], Made, order)
      BY <2>5, ReadableIs DEF Readable
    <3>3. /\ newest \in Seq(Calls) /\ Len(newest) = Made
          /\ \A n \in 1 .. Made : newest[n] = order[Made - n + 1]
      <4>1. /\ History[head] \in Seq(Calls) /\ Len(History[head]) = Made
            /\ \A i \in 1 .. Made : History[head][i] = order[i]
        BY <3>2 DEF ReadsLine
      <4>2. /\ newest \in Seq(Calls) /\ Len(newest) = Made
            /\ \A n \in 1 .. Made : newest[n] = History[head][Made - n + 1]
        BY <2>1, <4>1, ReverseFacts
      <4>3. \A n \in 1 .. Made : Made - n + 1 \in 1 .. Made
        BY <2>1
      <4> QED
        BY <4>1, <4>2, <4>3
    <3> HIDE DEF newest
    <3>4. /\ Len(Walk(head, limit)) = m /\ DOMAIN Walk(head, limit) = 1 .. m
          /\ \A n \in 1 .. m : Walk(head, limit)[n] = newest[n] /\ n \in 1 .. Made
      <4>1. m \in Nat /\ m <= Made
        BY <2>1
      <4>2. Walk(head, limit) = SubSeq(newest, 1, m)
        BY <3>1, <3>3
      <4> HIDE DEF m
      <4> QED
        BY <2>1, <3>3, <4>1, <4>2
    <3>5. ASSUME NEW n \in 1 .. m
          PROVE  \E i \in Successes : /\ Walk(head, limit)[n] = order[i]
                                      /\ Cardinality({j \in Successes : i < j}) = n - 1
      <4> DEFINE i == Made - n + 1
      <4>1. i \in 1 .. Made /\ Walk(head, limit)[n] = order[i]
        BY <2>1, <3>3, <3>4
      <4>2. {j \in 1 .. Made : i < j} = i + 1 .. Made
        BY <2>1, <4>1
      <4>3. Cardinality(i + 1 .. Made) = n - 1
        <5>1. i + 1 \in Int /\ Made \in Int
          BY <2>1, <4>1
        <5>2. Cardinality(i + 1 .. Made) = IF i + 1 > Made THEN 0 ELSE Made - (i + 1) + 1
          BY <5>1, FS_Interval
        <5> QED
          BY <2>1, <4>1, <5>2
      <4> QED
        BY <2>2, <4>1, <4>2, <4>3
    <3> QED
      BY <2>3, <3>4, <3>5
  <2> QED
    BY <2>4, <2>5
<1> QED
  BY LineInvariance, <1>1, PTL

(* To its readers the chain is an append-only log: one entry at a time at  *)
(* its end, and nothing that was read changes (rep.ts:49-91).              *)
THEOREM Refinement == Spec => LogRefinement
<1>1. Init => Log!Init
  BY DEF Init, Log!Init, Readable
<1> QED
  BY LineInvariance, <1>1, LogStep, PTL DEF Spec, LogRefinement, Log!Spec

-----------------------------------------------------------------------------
(* Memory anchoring.  The roots under way to the contract follow those     *)
(* that are on it: mining a transaction changes neither the line they make *)
(* nor its end.                                                            *)
Sent == anchored \o mempool
Tip == IF Sent = <<>> THEN Nil ELSE Sent[Len(Sent)]

(* The roots behind root r of a store s, r included: those in every set    *)
(* of roots that holds r and the predecessors of its members.              *)
Closed(s, T) == \A u \in T : s[u].prev # Nil => s[u].prev \in T
Behind(s, r) ==
  {q \in 1 .. Len(s) : \A T \in SUBSET (1 .. Len(s)) : Closed(s, T) /\ r \in T => q \in T}

Linked(s) == \A r \in 1 .. Len(s) : s[r].prev = Nil \/ s[r].prev \in 1 .. r - 1

(* A stage is reached only by the programs that have it.                   *)
Roles ==
  \A t \in Rotations :
    /\ stage[t] \in {"seeding", "appending"} => t \in AgentRotations
    /\ stage[t] \in {"uploading", "uploaded"} => t \in SoloRotations
    /\ stage[t] = "reading" => t \notin DashRotations

(* A rotation has a blob once its upload succeeded, and none before it.    *)
HasBlob ==
  \A t \in Rotations : Uploaded(t) => \E r \in Roots : store[r].call = t
BlobsAreOld ==
  \A r \in Roots :
    /\ store[r].call \in SoloRotations =>
         /\ store[r].prev = got[store[r].call]
         /\ stage[store[r].call] \notin {"idle", "reading", "uploading"}
    /\ store[r].call \in AgentRotations => pc[store[r].call] \in {"fulfilled", "rejected"}

(* What waits on the lock belongs to a rotation that awaits its append.    *)
AwaitsAppend ==
  \A i \in Positions : pc[order[i]] \in {"queued", "uploading"} => stage[order[i]] = "appending"

AnchorBase ==
  AnchorTypeOK /\ Linked(store) /\ Roles /\ HasBlob /\ BlobsAreOld /\ AwaitsAppend

(* One rotation at a time ...                                              *)
Alone == \A t, u \in Rotations : InFlight(t) /\ InFlight(u) => t = u

(* ... extends one line, whose end the head leads to, ...                  *)
Follows == \A i, j \in DOMAIN Sent : i < j => Sent[i] \in Behind(store, Sent[j])
HeadFollows == head # Nil /\ Sent # <<>> => Tip \in Behind(store, head)

(* ... from the root it read, or from the head it had: a chain without a   *)
(* head is only appended to when no root was ever sent.                    *)
ReadsTip ==
  \A t \in Rotations :
    stage[t] = "seeding" \/ (t \in CliRotations /\ stage[t] \in {"uploading", "uploaded"})
      => got[t] = Tip
Unheaded == \A t \in Rotations : stage[t] = "appending" /\ head = Nil => Sent = <<>>
AtHead == \A i \in Positions : pc[order[i]] = "uploading" => base[order[i]] = head
HeadIsMine ==
  \A t \in Rotations : stage[t] = "appending" /\ pc[t] = "fulfilled" =>
    head \in Roots /\ \A r \in Roots : store[r].call = t <=> r = head

OneLine ==
  Alone /\ Follows /\ HeadFollows /\ ReadsTip /\ Unheaded /\ AtHead /\ HeadIsMine

AInv == AnchorBase /\ (mishaps = {} => OneLine)

(* Walking back from a root: the roots behind it.                          *)
LEMMA BehindSelf ==
  ASSUME NEW s, NEW r \in 1 .. Len(s)
  PROVE  r \in Behind(s, r)
  BY DEF Behind

LEMMA BehindTrans ==
  ASSUME NEW s, NEW r, NEW q \in Behind(s, r), NEW p \in Behind(s, q)
  PROVE  p \in Behind(s, r)
  BY DEF Behind

(* A root leads to its predecessor, and to nothing that its predecessor    *)
(* does not lead to.                                                       *)
LEMMA BehindPrev ==
  ASSUME NEW S, NEW s \in Seq(S), Linked(s), NEW r \in 1 .. Len(s), s[r].prev # Nil
  PROVE  /\ s[r].prev \in 1 .. Len(s) /\ s[r].prev < r
         /\ s[r].prev \in Behind(s, r)
         /\ Behind(s, r) = {r} \cup Behind(s, s[r].prev)
<1> DEFINE p == s[r].prev
<1>0. \A u \in 1 .. Len(s) : s[u].prev # Nil => s[u].prev \in 1 .. Len(s) /\ s[u].prev < u
  BY DEF Linked
<1>1. p \in Behind(s, r)
  BY <1>0 DEF Behind, Closed
<1>2. r \in Behind(s, r)
  BY BehindSelf
<1>3. ASSUME NEW q \in Behind(s, p) PROVE q \in Behind(s, r)
  BY <1>1, <1>3, BehindTrans
<1>4. ASSUME NEW q \in Behind(s, r), q # r PROVE q \in Behind(s, p)
  <2> DEFINE T == {r} \cup Behind(s, p)
  <2>1. T \in SUBSET (1 .. Len(s)) /\ r \in T
    BY DEF Behind
  <2>2. p \in Behind(s, p)
    BY <1>0, BehindSelf
  <2>3. ASSUME NEW u \in Behind(s, p), s[u].prev # Nil PROVE s[u].prev \in Behind(s, p)
    <3>1. s[u].prev \in 1 .. Len(s)
      BY <1>0, <2>3 DEF Behind
    <3> QED
      BY <2>3, <3>1 DEF Behind, Closed
  <2>4. Closed(s, T)
    BY <2>2, <2>3 DEF Closed
  <2> QED
    BY <1>4, <2>1, <2>4 DEF Behind
<1> QED
  BY <1>0, <1>1, <1>2, <1>3, <1>4

LEMMA BehindFirst ==
  ASSUME NEW s, NEW r \in 1 .. Len(s), s[r].prev = Nil
  PROVE  Behind(s, r) = {r}
<1>1. Closed(s, {r}) /\ {r} \in SUBSET (1 .. Len(s))
  BY DEF Closed
<1> QED
  BY <1>1, BehindSelf DEF Behind

(* Storing a blob changes nothing behind the roots there were.             *)
LEMMA BehindStored ==
  ASSUME NEW s \in Seq(Blob), Linked(s), NEW b \in Blob, NEW r \in 1 .. Len(s)
  PROVE  Behind(Append(s, b), r) = Behind(s, r)
<1> DEFINE n == Len(s)
           z == Append(s, b)
<1>1. n \in Nat /\ Len(z) = n + 1 /\ \A u \in 1 .. n : z[u] = s[u]
  BY AppendedStore
<1>2. \A u \in 1 .. n : s[u].prev # Nil => s[u].prev \in 1 .. n
  BY <1>1 DEF Linked
<1>3. 1 .. n \subseteq 1 .. Len(z)
  BY <1>1
<1> HIDE DEF n, z
<1>4. ASSUME NEW T \in SUBSET (1 .. n) PROVE Closed(s, T) <=> Closed(z, T)
  BY <1>1 DEF Closed
<1>5. ASSUME NEW T \in SUBSET (1 .. Len(z)), Closed(z, T) PROVE Closed(z, T \cap (1 .. n))
  BY <1>1, <1>2, <1>5 DEF Closed
<1>6. r \in 1 .. n
  BY DEF n
<1>7. ASSUME NEW q \in Behind(z, r) PROVE q \in Behind(s, r)
  <2>1. Closed(z, 1 .. n)
    BY <1>1, <1>2 DEF Closed
  <2>2. q \in 1 .. n
    BY <1>3, <1>6, <2>1 DEF Behind
  <2> QED
    BY <1>3, <1>4, <2>2 DEF Behind, n
<1>8. ASSUME NEW q \in Behind(s, r) PROVE q \in Behind(z, r)
  <2>1. q \in 1 .. n /\ \A T \in SUBSET (1 .. n) : Closed(s, T) /\ r \in T => q \in T
    BY DEF Behind, n
  <2>2. ASSUME NEW T \in SUBSET (1 .. Len(z)), Closed(z, T), r \in T PROVE q \in T
    <3>1. T \cap (1 .. n) \in SUBSET (1 .. n) /\ r \in T \cap (1 .. n)
      BY <1>6, <2>2
    <3>2. Closed(s, T \cap (1 .. n))
      BY <1>4, <1>5, <2>2, <3>1
    <3> QED
      BY <2>1, <3>1, <3>2
  <2> QED
    BY <1>3, <2>1, <2>2 DEF Behind
<1> QED
  BY <1>7, <1>8 DEF z

(* The sent roots as one sequence: sending adds to its end, mining does    *)
(* not change it.                                                          *)
LEMMA SentMined ==
  ASSUME NEW S, NEW a \in Seq(S), NEW m \in Seq(S), m # <<>>
  PROVE  /\ Append(a, Head(m)) \in Seq(S) /\ Tail(m) \in Seq(S)
         /\ Append(a, Head(m)) \o Tail(m) = a \o m
<1>1. /\ Head(m) \in S /\ Head(m) = m[1] /\ Tail(m) \in Seq(S)
      /\ Len(m) \in Nat \ {0} /\ Len(Tail(m)) = Len(m) - 1
      /\ \A i \in 1 .. Len(m) - 1 : Tail(m)[i] = m[i + 1]
  BY HeadTailProperties, EmptySeq
<1> DEFINE b == Append(a, Head(m))
<1>2. /\ b \in Seq(S) /\ Len(b) = Len(a) + 1 /\ b[Len(a) + 1] = m[1] /\ Len(a) \in Nat
      /\ \A i \in 1 .. Len(a) : b[i] = a[i]
  BY <1>1
<1> HIDE DEF b
<1>3. /\ b \o Tail(m) \in Seq(S) /\ Len(b \o Tail(m)) = Len(a) + Len(m)
      /\ \A i \in 1 .. Len(a) + Len(m) : (b \o Tail(m))[i] =
             IF i <= Len(a) + 1 THEN b[i] ELSE Tail(m)[i - (Len(a) + 1)]
  <2>1. /\ b \o Tail(m) \in Seq(S) /\ Len(b \o Tail(m)) = Len(b) + Len(Tail(m))
        /\ \A i \in 1 .. Len(b) + Len(Tail(m)) : (b \o Tail(m))[i] =
               IF i <= Len(b) THEN b[i] ELSE Tail(m)[i - Len(b)]
    BY <1>1, <1>2, ConcatProperties
  <2>2. Len(b) + Len(Tail(m)) = Len(a) + Len(m)
    BY <1>1, <1>2
  <2> QED
    BY <1>2, <2>1, <2>2
<1>4. /\ a \o m \in Seq(S) /\ Len(a \o m) = Len(a) + Len(m)
      /\ \A i \in 1 .. Len(a) + Len(m) : (a \o m)[i] =
             IF i <= Len(a) THEN a[i] ELSE m[i - Len(a)]
  BY ConcatProperties
<1>5. ASSUME NEW i \in 1 .. Len(a) + Len(m) PROVE (b \o Tail(m))[i] = (a \o m)[i]
  <2>1. CASE i <= Len(a)
    BY <1>1, <1>2, <1>3, <1>4, <2>1
  <2>2. CASE i = Len(a) + 1
    BY <1>1, <1>2, <1>3, <1>4, <2>2
  <2>3. CASE i > Len(a) + 1
    <3>1. i - (Len(a) + 1) \in 1 .. Len(m) - 1 /\ i - (Len(a) + 1) + 1 = i - Len(a)
      BY <1>1, <1>2, <2>3
    <3> QED
      BY <1>1, <1>2, <1>3, <1>4, <2>3, <3>1
  <2> QED
    BY <1>1, <1>2, <2>1, <2>2, <2>3
<1>6. b \o Tail(m) = a \o m
  BY <1>3, <1>4, <1>5, SeqEqual
<1> QED
  BY <1>1, <1>2, <1>6 DEF b

LEMMA SentSubmitted ==
  ASSUME NEW S, NEW a \in Seq(S), NEW m \in Seq(S), NEW r \in S
  PROVE  /\ Append(m, r) \in Seq(S)
         /\ a \o Append(m, r) \in Seq(S)
         /\ Len(a \o Append(m, r)) = Len(a \o m) + 1
         /\ \A i \in 1 .. Len(a \o m) : (a \o Append(m, r))[i] = (a \o m)[i]
         /\ (a \o Append(m, r))[Len(a \o m) + 1] = r
<1> DEFINE n == Append(m, r)
<1>1. /\ n \in Seq(S) /\ Len(n) = Len(m) + 1 /\ n[Len(m) + 1] = r
      /\ Len(a) \in Nat /\ Len(m) \in Nat
      /\ \A i \in 1 .. Len(m) : n[i] = m[i]
  OBVIOUS
<1> HIDE DEF n
<1>2. /\ a \o n \in Seq(S) /\ Len(a \o n) = Len(a) + Len(m) + 1
      /\ \A i \in 1 .. Len(a) + Len(m) + 1 : (a \o n)[i] =
             IF i <= Len(a) THEN a[i] ELSE n[i - Len(a)]
  <2>1. /\ a \o n \in Seq(S) /\ Len(a \o n) = Len(a) + Len(n)
        /\ \A i \in 1 .. Len(a) + Len(n) : (a \o n)[i] =
               IF i <= Len(a) THEN a[i] ELSE n[i - Len(a)]
    BY <1>1, ConcatProperties
  <2>2. Len(a) + Len(n) = Len(a) + Len(m) + 1
    BY <1>1
  <2> QED
    BY <2>1, <2>2
<1>3. /\ Len(a \o m) = Len(a) + Len(m)
      /\ \A i \in 1 .. Len(a) + Len(m) : (a \o m)[i] =
             IF i <= Len(a) THEN a[i] ELSE m[i - Len(a)]
  BY ConcatProperties
<1>4. ASSUME NEW i \in 1 .. Len(a) + Len(m) PROVE (a \o n)[i] = (a \o m)[i]
  <2>0. i \in 1 .. Len(a) + Len(m) + 1
    BY <1>1
  <2>1. CASE i <= Len(a)
    BY <1>2, <1>3, <2>0, <2>1
  <2>2. CASE i > Len(a)
    <3>1. i - Len(a) \in 1 .. Len(m)
      BY <1>1, <2>2
    <3>2. n[i - Len(a)] = m[i - Len(a)]
      BY <1>1, <3>1
    <3> QED
      BY <1>1, <1>2, <1>3, <2>0, <2>2, <3>2
  <2> QED
    BY <1>1, <2>1, <2>2
<1> QED
  BY <1>1, <1>2, <1>3, <1>4 DEF n

-----------------------------------------------------------------------------
(* What an action of StateAnchor does to the invariant                     *)

LEMMA AnchorInitStep == AnchorInit => AInv
<1> SUFFICES ASSUME AnchorInit PROVE AInv
  OBVIOUS
<1>1. Positions = {} /\ Roots = {} /\ Len(store) = 0 /\ Sent = <<>> /\ DOMAIN Sent = {}
  BY DEF AnchorInit, Init, Positions, Roots, Sent
<1>2. AnchorTypeOK
  BY <1>1, AnchorAssumption DEF AnchorInit, Init, AnchorTypeOK, Stages
<1>3. AnchorBase
  <2>1. Linked(store) /\ AwaitsAppend /\ BlobsAreOld
    BY <1>1 DEF Linked, AwaitsAppend, BlobsAreOld
  <2>2. Roles /\ HasBlob
    BY DEF AnchorInit, Roles, HasBlob, Uploaded
  <2> QED
    BY <1>2, <2>1, <2>2 DEF AnchorBase
<1>4. OneLine
  <2>1. Alone /\ ReadsTip /\ Unheaded /\ HeadIsMine
    BY DEF AnchorInit, Alone, InFlight, ReadsTip, Unheaded, HeadIsMine
  <2>2. Follows /\ HeadFollows /\ AtHead
    BY <1>1 DEF Follows, HeadFollows, AtHead
  <2> QED
    BY <2>1, <2>2 DEF OneLine
<1> QED
  BY <1>3, <1>4 DEF AInv

LEMMA BlobFacts ==
  ASSUME AnchorTypeOK
  PROVE  /\ \A r \in Roots : store[r] \in Blob /\ store[r].call \in Rotations
         /\ \A i \in Positions : order[i] \in AgentRotations /\ order[i] \in Rotations
<1>1. \A r \in Roots : store[r] \in Blob
  BY DEF AnchorTypeOK, Roots
<1>2. \A b \in Blob : b.call \in Calls
  BY DEF Blob
<1>3. \A i \in Positions : order[i] \in AgentRotations
  BY DEF AnchorTypeOK, Positions
<1> QED
  BY <1>1, <1>2, <1>3, AnchorAssumption DEF Rotations

(* A rotation moves on and nothing else does.                              *)
LEMMA GoToFacts ==
  ASSUME AnchorTypeOK, NEW t \in Rotations, NEW s \in Stages, GoTo(t, s)
  PROVE  /\ stage' \in [Rotations -> Stages]
         /\ stage'[t] = s
         /\ \A u \in Rotations : u # t => stage'[u] = stage[u]
  BY DEF AnchorTypeOK, GoTo

LEMMA StageStep ==
  ASSUME AnchorBase, NEW t \in Rotations,
         NEW s \in {"reading", "uploading", "failed", "done"}, GoTo(t, s),
         UNCHANGED <<vars, got, mempool, anchored>>,
         mishaps' \subseteq Mishaps, faults' \in Nat, restarts' \in Nat,
         s \in {"reading", "uploading"} => stage[t] = "idle",
         s = "reading" => t \notin DashRotations,
         s = "uploading" => t \in DashRotations,
         stage[t] = "appending" => pc[t] \notin {"queued", "uploading"}
  PROVE  /\ AnchorBase'
         /\ OneLine /\ (s \in Ended \/ \A u \in Rotations : ~InFlight(u)) => OneLine'
<1>0. /\ UNCHANGED <<head, store, order, pc, base, got, mempool, anchored>>
      /\ Roots' = Roots /\ Positions' = Positions /\ Sent' = Sent /\ Tip' = Tip
  BY DEF vars, Roots, Positions, Sent, Tip
<1>1. /\ stage' \in [Rotations -> Stages]
      /\ stage'[t] = s
      /\ \A u \in Rotations : u # t => stage'[u] = stage[u]
  <2>1. s \in Stages
    BY DEF Stages, Ended
  <2> QED
    BY <2>1, GoToFacts DEF AnchorBase
<1>2. AnchorTypeOK'
  BY <1>0, <1>1 DEF AnchorBase, AnchorTypeOK
<1>3. /\ \A r \in Roots : store[r].call \in Rotations
      /\ \A i \in Positions : order[i] \in AgentRotations /\ order[i] \in Rotations
  BY BlobFacts DEF AnchorBase
<1>4. Linked(store)'
  BY <1>0 DEF AnchorBase, Linked
<1>5. Roles'
  BY <1>1 DEF AnchorBase, Roles, SoloRotations
<1>6. HasBlob'
  BY <1>0, <1>1 DEF AnchorBase, HasBlob, Uploaded
<1>7. BlobsAreOld'
  BY <1>0, <1>1, <1>3 DEF AnchorBase, BlobsAreOld
<1>8. AwaitsAppend'
  BY <1>0, <1>1, <1>3 DEF AnchorBase, AwaitsAppend
<1>9. ASSUME OneLine, s \in Ended \/ \A u \in Rotations : ~InFlight(u) PROVE OneLine'
  <2>1. Alone'
    BY <1>1, <1>9 DEF OneLine, Alone, InFlight
  <2>2. Follows' /\ HeadFollows' /\ AtHead'
    BY <1>0, <1>9 DEF OneLine, Follows, HeadFollows, AtHead
  <2>3. ReadsTip'
    BY <1>0, <1>1, <1>9, AnchorAssumption DEF OneLine, ReadsTip
  <2>4. Unheaded' /\ HeadIsMine'
    BY <1>0, <1>1, <1>9 DEF OneLine, Unheaded, HeadIsMine
  <2> QED
    BY <2>1, <2>2, <2>3, <2>4 DEF OneLine
<1> QED
  BY <1>2, <1>4, <1>5, <1>6, <1>7, <1>8, <1>9 DEF AnchorBase

(* A rotation calls append: its promise joins the queue.                   *)
LEMMA EnqueueStep ==
  ASSUME AnchorBase, NEW t \in AgentRotations, Enqueue(t), GoTo(t, "appending"),
         UNCHANGED <<store, base, got, mempool, anchored>>,
         head' \in Roots \cup {Nil},
         mishaps' \subseteq Mishaps, faults' \in Nat, restarts' \in Nat
  PROVE  /\ AnchorBase'
         /\ (/\ OneLine
             /\ \A u \in Rotations : InFlight(u) => u = t
             /\ HeadFollows'
             /\ head' = Nil => Sent = <<>>) => OneLine'
<1>0. /\ t \in Rotations /\ t \in Calls
      /\ Roots' = Roots /\ Sent' = Sent /\ Tip' = Tip
  BY AnchorAssumption DEF Rotations, Roots, Sent, Tip
<1>1. /\ stage' \in [Rotations -> Stages]
      /\ stage'[t] = "appending"
      /\ \A u \in Rotations : u # t => stage'[u] = stage[u]
  <2>1. "appending" \in Stages
    BY DEF Stages
  <2> QED
    BY <1>0, <2>1, GoToFacts DEF AnchorBase
<1>2. /\ pc' \in [Rotations -> {"idle", "queued", "uploading", "fulfilled", "rejected"}]
      /\ pc[t] = "idle" /\ pc'[t] = "queued"
      /\ \A u \in Rotations : u # t => pc'[u] = pc[u]
  BY <1>0 DEF Enqueue, AnchorBase, AnchorTypeOK
<1>3. /\ order' \in Seq(AgentRotations)
      /\ Positions' = Positions \cup {Len(order) + 1}
      /\ \A i \in Positions : order'[i] = order[i]
      /\ order'[Len(order) + 1] = t
  BY DEF Enqueue, AnchorBase, AnchorTypeOK, Positions
<1>4. AnchorTypeOK'
  BY <1>0, <1>1, <1>2, <1>3 DEF AnchorBase, AnchorTypeOK
<1>5. /\ \A r \in Roots : store[r].call \in Rotations
      /\ \A i \in Positions : order[i] \in AgentRotations /\ order[i] \in Rotations
  BY BlobFacts DEF AnchorBase
<1>6. Linked(store)'
  BY DEF AnchorBase, Linked
<1>7. Roles'
  BY <1>1, AnchorAssumption DEF AnchorBase, Roles, SoloRotations
<1>8. HasBlob'
  BY <1>0, <1>1, <1>2 DEF AnchorBase, HasBlob, Uploaded
<1>9. BlobsAreOld'
  BY <1>0, <1>1, <1>2, <1>5, AnchorAssumption DEF AnchorBase, BlobsAreOld
<1>10. AwaitsAppend'
  BY <1>1, <1>2, <1>3, <1>5 DEF AnchorBase, AwaitsAppend
<1>11. ASSUME OneLine, \A u \in Rotations : InFlight(u) => u = t,
              HeadFollows', head' = Nil => Sent = <<>>
       PROVE  OneLine'
  <2>1. Alone'
    BY <1>1, <1>11 DEF OneLine, Alone, InFlight
  <2>2. Follows'
    BY <1>0, <1>11 DEF OneLine, Follows
  <2>3. ReadsTip'
    BY <1>0, <1>1, <1>11, AnchorAssumption DEF OneLine, ReadsTip
  <2>4. \A u \in Rotations : u # t => stage'[u] # "appending"
    BY <1>1, <1>11 DEF InFlight, Ended
  <2>5. Unheaded' /\ HeadIsMine'
    BY <1>0, <1>2, <1>11, <2>4 DEF Unheaded, HeadIsMine
  <2>6. AtHead'
    <3>1. \A i \in Positions' : pc'[order'[i]] # "uploading"
      <4>1. ASSUME NEW i \in Positions, pc'[order[i]] = "uploading" PROVE FALSE
        <5>1. order[i] # t /\ pc[order[i]] = "uploading"
          BY <1>2, <1>5, <4>1
        <5>2. stage[order[i]] = "appending"
          BY <5>1 DEF AnchorBase, AwaitsAppend
        <5> QED
          BY <1>5, <1>11, <5>1, <5>2 DEF InFlight, Ended
      <4> QED
        BY <1>2, <1>3, <4>1
    <3> QED
      BY <3>1 DEF AtHead
  <2> QED
    BY <1>11, <2>1, <2>2, <2>3, <2>5, <2>6 DEF OneLine
<1> QED
  BY <1>4, <1>6, <1>7, <1>8, <1>9, <1>10, <1>11 DEF AnchorBase

(* A blob is stored: it leads where its predecessor leads.                 *)
LEMMA StoredFacts ==
  ASSUME AnchorBase, NEW b \in Blob, b.prev \in Roots \cup {Nil}, store' = Append(store, b)
  PROVE  /\ store' \in Seq(Blob)
         /\ Len(store) + 1 \in Nat /\ Len(store) + 1 \notin Roots
         /\ Roots' = Roots \cup {Len(store) + 1}
         /\ \A r \in Roots : store'[r] = store[r]
         /\ store'[Len(store) + 1] = b
         /\ Linked(store')
         /\ \A r \in Roots : Behind(store', r) = Behind(store, r)
         /\ b.prev # Nil => Behind(store, b.prev) \subseteq Behind(store', Len(store) + 1)
<1>1. store \in Seq(Blob) /\ Linked(store)
  BY DEF AnchorBase, AnchorTypeOK
<1>2. /\ store' \in Seq(Blob)
      /\ Len(store') = Len(store) + 1 /\ Len(store) \in Nat
      /\ \A r \in 1 .. Len(store) : store'[r] = store[r]
      /\ store'[Len(store) + 1] = b
  BY <1>1, AppendedStore
<1>3. Roots' = Roots \cup {Len(store) + 1} /\ Len(store) + 1 \notin Roots
  BY <1>2 DEF Roots
<1>4. Linked(store')
  <2>1. ASSUME NEW r \in 1 .. Len(store) PROVE store'[r].prev = Nil \/ store'[r].prev \in 1 .. r - 1
    BY <1>1, <1>2 DEF Linked
  <2>2. b.prev = Nil \/ b.prev \in 1 .. (Len(store) + 1) - 1
    BY <1>2 DEF Roots
  <2> QED
    BY <1>2, <2>1, <2>2 DEF Linked
<1>5. \A r \in Roots : Behind(store', r) = Behind(store, r)
  BY <1>1, BehindStored DEF Roots
<1>6. ASSUME b.prev # Nil PROVE Behind(store, b.prev) \subseteq Behind(store', Len(store) + 1)
  <2> DEFINE n == Len(store) + 1
  <2>1. n \in 1 .. Len(store') /\ store'[n].prev = b.prev
    BY <1>2
  <2>2. Behind(store', n) = {n} \cup Behind(store', b.prev)
    <3> HIDE DEF n
    <3>1. Behind(store', n) = {n} \cup Behind(store', store'[n].prev)
      <4>1. store'[n].prev # Nil
        BY <1>6, <2>1
      <4> QED
        BY <1>2, <1>4, <2>1, <4>1, BehindPrev
    <3> QED
      BY <2>1, <3>1
  <2> QED
    BY <1>5, <1>6, <2>2
<1> QED
  BY <1>2, <1>3, <1>4, <1>5, <1>6 DEF Roots

(* The line and the head's place on it survive a blob that is stored.      *)
LEMMA StoredLine ==
  ASSUME AnchorBase, OneLine, NEW b \in Blob, b.prev \in Roots \cup {Nil},
         store' = Append(store, b), UNCHANGED <<mempool, anchored>>
  PROVE  /\ Follows'
         /\ UNCHANGED head => HeadFollows'
<1>1. \A r \in Roots : Behind(store', r) = Behind(store, r)
  BY StoredFacts
<1>2. Sent' = Sent /\ Tip' = Tip
  BY DEF Sent, Tip
<1>3. \A i \in DOMAIN Sent : Sent[i] \in Roots
  <2>1. Sent \in Seq(Roots)
    BY ConcatProperties DEF AnchorBase, AnchorTypeOK, Sent
  <2> QED
    BY <2>1
<1>4. head \in Roots \cup {Nil}
  BY DEF AnchorBase, AnchorTypeOK
<1> QED
  BY <1>1, <1>2, <1>3, <1>4 DEF OneLine, Follows, HeadFollows

(* The one append at work belongs to the one rotation in flight.           *)
LEMMA OneAtWork ==
  ASSUME AnchorBase, OneLine, NEW i \in Positions, pc[order[i]] \in {"queued", "uploading"}
  PROVE  /\ stage[order[i]] = "appending"
         /\ \A j \in Positions : pc[order[j]] \in {"queued", "uploading"} => order[j] = order[i]
         /\ \A u \in Rotations : stage[u] = "appending" => u = order[i]
<1>1. \A j \in Positions : order[j] \in Rotations
  BY BlobFacts DEF AnchorBase
<1>2. \A j \in Positions : pc[order[j]] \in {"queued", "uploading"} => stage[order[j]] = "appending"
  BY DEF AnchorBase, AwaitsAppend
<1> QED
  BY <1>1, <1>2 DEF OneLine, Alone, InFlight, Ended

LEMMA PcFacts ==
  ASSUME AnchorTypeOK, NEW i \in Positions,
         NEW s \in {"uploading", "fulfilled", "rejected"}, pc' = [pc EXCEPT ![order[i]] = s]
  PROVE  /\ order[i] \in Rotations
         /\ pc' \in [Rotations -> {"idle", "queued", "uploading", "fulfilled", "rejected"}]
         /\ pc'[order[i]] = s
         /\ \A u \in Rotations : u # order[i] => pc'[u] = pc[u]
<1>1. order[i] \in Rotations
  BY BlobFacts
<1> QED
  BY <1>1 DEF AnchorTypeOK

Aside == UNCHANGED <<stage, got, mempool, anchored, mishaps, restarts>> /\ faults' \in Nat

(* The work of an append starts, or is skipped.                            *)
LEMMA PromiseStep ==
  ASSUME AnchorBase, NEW i \in Positions, Begin(i) \/ Propagate(i), Aside
  PROVE  AnchorBase' /\ (OneLine => OneLine')
<1>0. /\ UNCHANGED <<head, store, order, stage, got, mempool, anchored, mishaps, restarts>>
      /\ Roots' = Roots /\ Positions' = Positions /\ Sent' = Sent /\ Tip' = Tip
      /\ faults' \in Nat
  BY DEF Begin, Propagate, Aside, Roots, Positions, Sent, Tip
<1>1. /\ pc[order[i]] = "queued" /\ order[i] \in Rotations
      /\ pc' \in [Rotations -> {"idle", "queued", "uploading", "fulfilled", "rejected"}]
      /\ pc'[order[i]] \in {"uploading", "rejected"}
      /\ \A u \in Rotations : u # order[i] => pc'[u] = pc[u]
      /\ \A u \in Rotations : pc'[u] = "fulfilled" <=> pc[u] = "fulfilled"
  BY PcFacts DEF Begin, Propagate, AnchorBase
<1>2. base' \in [Rotations -> Roots \cup {Nil}]
  BY <1>1 DEF Begin, Propagate, AnchorBase, AnchorTypeOK
<1>3. AnchorTypeOK'
  BY <1>0, <1>1, <1>2 DEF AnchorBase, AnchorTypeOK
<1>4. /\ \A r \in Roots : store[r].call \in Rotations
      /\ \A j \in Positions : order[j] \in Rotations
  BY BlobFacts DEF AnchorBase
<1>5. Linked(store)' /\ Roles'
  BY <1>0 DEF AnchorBase, Linked, Roles
<1>6. HasBlob' /\ BlobsAreOld'
  BY <1>0, <1>1, <1>4 DEF AnchorBase, HasBlob, Uploaded, BlobsAreOld
<1>7. AwaitsAppend'
  BY <1>0, <1>1, <1>4 DEF AnchorBase, AwaitsAppend
<1>8. ASSUME OneLine PROVE OneLine'
  <2>1. Alone' /\ Follows' /\ HeadFollows' /\ ReadsTip' /\ Unheaded'
    BY <1>0, <1>8 DEF OneLine, Alone, InFlight, Follows, HeadFollows, ReadsTip, Unheaded
  <2>2. HeadIsMine'
    BY <1>0, <1>1, <1>8 DEF OneLine, HeadIsMine
  <2>3. AtHead'
    <3> SUFFICES ASSUME NEW j \in Positions, pc'[order[j]] = "uploading"
                 PROVE  base'[order[j]] = head
      BY <1>0 DEF AtHead
    <3>1. order[j] = order[i]
      BY <1>1, <1>4, <1>8, OneAtWork
    <3> QED
      BY <1>1, <3>1 DEF Begin, Propagate, AnchorBase, AnchorTypeOK
  <2> QED
    BY <2>1, <2>2, <2>3 DEF OneLine
<1> QED
  BY <1>3, <1>5, <1>6, <1>7, <1>8 DEF AnchorBase

(* An upload ends.                                                         *)
LEMMA BlobOfFacts ==
  ASSUME AnchorBase, NEW i \in Positions
  PROVE  /\ BlobOf(order[i]) \in Blob
         /\ BlobOf(order[i]).prev = base[order[i]]
         /\ BlobOf(order[i]).call = order[i]
         /\ base[order[i]] \in Roots \cup {Nil}
<1>1. order[i] \in Rotations /\ order[i] \in Calls
  BY BlobFacts, AnchorAssumption DEF AnchorBase
<1>2. base[order[i]] \in Roots \cup {Nil} /\ Roots \subseteq Nat
  BY <1>1 DEF AnchorBase, AnchorTypeOK, Roots
<1> QED
  BY <1>1, <1>2 DEF BlobOf, Blob

LEMMA AnchorUploadStep ==
  ASSUME AnchorBase, NEW i \in Positions, UploadOk(i) \/ UploadFail(i), Aside
  PROVE  AnchorBase'
<1>0. /\ UNCHANGED <<order, base, stage, got, mempool, anchored, mishaps, restarts>>
      /\ Positions' = Positions /\ faults' \in Nat
  BY DEF UploadOk, UploadFail, Aside, Positions
<1>1. /\ pc[order[i]] = "uploading" /\ order[i] \in Rotations
      /\ pc' \in [Rotations -> {"idle", "queued", "uploading", "fulfilled", "rejected"}]
      /\ pc'[order[i]] \in {"fulfilled", "rejected"}
      /\ \A u \in Rotations : u # order[i] => pc'[u] = pc[u]
  BY PcFacts DEF UploadOk, UploadFail, AnchorBase
<1>2. /\ \A r \in Roots : store[r].call \in Rotations
      /\ \A j \in Positions : order[j] \in AgentRotations /\ order[j] \in Rotations
  BY BlobFacts DEF AnchorBase
<1>3. CASE store' = store
  <2>1. Roots' = Roots
    BY <1>3 DEF Roots
  <2>2. store' # Append(store, BlobOf(order[i]))
    <3>1. store \in Seq(Blob) /\ Len(Append(store, BlobOf(order[i]))) = Len(store) + 1
      BY BlobOfFacts DEF AnchorBase, AnchorTypeOK
    <3> QED
      BY <1>3, <3>1
  <2>3. head' = head /\ pc'[order[i]] = "rejected"
    BY <1>1, <2>2, PcFacts DEF UploadOk, UploadFail, AnchorBase
  <2>4. AnchorTypeOK'
    BY <1>0, <1>1, <1>3, <2>1, <2>3 DEF AnchorBase, AnchorTypeOK
  <2>5. Linked(store)' /\ Roles'
    BY <1>0, <1>3 DEF AnchorBase, Linked, Roles
  <2>6. HasBlob' /\ BlobsAreOld'
    BY <1>0, <1>1, <1>2, <1>3, <2>1, <2>3 DEF AnchorBase, HasBlob, Uploaded, BlobsAreOld
  <2>7. AwaitsAppend'
    BY <1>0, <1>1, <1>2 DEF AnchorBase, AwaitsAppend
  <2> QED
    BY <2>4, <2>5, <2>6, <2>7 DEF AnchorBase
<1>4. CASE store' = Append(store, BlobOf(order[i]))
  <2> DEFINE n == Len(store) + 1
  <2>1. /\ store' \in Seq(Blob) /\ Roots' = Roots \cup {n}
        /\ \A r \in Roots : store'[r] = store[r]
        /\ store'[n].call = order[i]
        /\ Linked(store')
    BY <1>4, BlobOfFacts, StoredFacts
  <2>2. head' = head \/ head' = n
    BY <1>4, BlobOfFacts DEF UploadOk, UploadFail, AnchorBase, AnchorTypeOK
  <2> HIDE DEF n
  <2>3. AnchorTypeOK'
    <3>1. head' \in Roots' \cup {Nil}
      BY <2>1, <2>2 DEF AnchorBase, AnchorTypeOK
    <3>2. mempool' \in Seq(Roots') /\ anchored' \in Seq(Roots')
      BY <1>0, <2>1, SeqMonotonic DEF AnchorBase, AnchorTypeOK
    <3>3. /\ base' \in [Rotations -> Roots' \cup {Nil}]
          /\ got' \in [Rotations -> Roots' \cup {Nil}]
      BY <1>0, <2>1 DEF AnchorBase, AnchorTypeOK
    <3> QED
      BY <1>0, <1>1, <2>1, <3>1, <3>2, <3>3 DEF AnchorBase, AnchorTypeOK
  <2>4. Linked(store)' /\ Roles'
    BY <1>0, <2>1 DEF AnchorBase, Roles
  <2>5. HasBlob'
    <3> SUFFICES ASSUME NEW u \in Rotations, Uploaded(u)' PROVE \E r \in Roots' : store'[r].call = u
      BY DEF HasBlob
    <3>1. CASE u = order[i]
      BY <2>1, <3>1
    <3>2. CASE u # order[i]
      BY <1>0, <1>1, <2>1, <3>2 DEF AnchorBase, HasBlob, Uploaded
    <3> QED
      BY <3>1, <3>2
  <2>6. BlobsAreOld'
    <3>1. order[i] \notin SoloRotations
      BY <1>2, AnchorAssumption
    <3>2. ASSUME NEW r \in Roots
          PROVE  /\ store'[r].call \in SoloRotations =>
                      /\ store'[r].prev = got'[store'[r].call]
                      /\ stage'[store'[r].call] \notin {"idle", "reading", "uploading"}
                 /\ store'[r].call \in AgentRotations
                      => pc'[store'[r].call] \in {"fulfilled", "rejected"}
      BY <1>0, <1>1, <1>2, <2>1 DEF AnchorBase, BlobsAreOld
    <3> QED
      BY <1>1, <2>1, <3>1, <3>2 DEF BlobsAreOld
  <2>7. AwaitsAppend'
    BY <1>0, <1>1, <1>2 DEF AnchorBase, AwaitsAppend
  <2> QED
    BY <2>3, <2>4, <2>5, <2>6, <2>7 DEF AnchorBase
<1> QED
  BY <1>3, <1>4 DEF UploadOk, UploadFail

LEMMA AnchorUploadLine ==
  ASSUME AnchorBase, OneLine, NEW i \in Positions, UploadOk(i) \/ UploadFail(i), Aside
  PROVE  OneLine'
<1>0. /\ UNCHANGED <<order, base, stage, got, mempool, anchored>>
      /\ Positions' = Positions /\ Sent' = Sent /\ Tip' = Tip
  BY DEF UploadOk, UploadFail, Aside, Positions, Sent, Tip
<1>1. /\ pc[order[i]] = "uploading" /\ order[i] \in Rotations
      /\ pc'[order[i]] \in {"fulfilled", "rejected"}
      /\ \A u \in Rotations : u # order[i] => pc'[u] = pc[u]
  BY PcFacts DEF UploadOk, UploadFail, AnchorBase
<1>2. /\ stage[order[i]] = "appending"
      /\ \A j \in Positions : pc[order[j]] = "uploading" => order[j] = order[i]
      /\ \A u \in Rotations : stage[u] = "appending" => u = order[i]
  BY <1>1, OneAtWork
<1>3. \A j \in Positions : order[j] \in Rotations
  BY BlobFacts DEF AnchorBase
<1>4. Alone' /\ ReadsTip'
  BY <1>0 DEF OneLine, Alone, InFlight, ReadsTip
<1>5. AtHead'
  BY <1>0, <1>1, <1>2, <1>3 DEF AtHead
<1>6. BlobOf(order[i]).prev = head /\ head \in Roots \cup {Nil}
  BY <1>1, BlobOfFacts DEF OneLine, AtHead
<1>7. CASE UploadFail(i)
  <2>1. Follows' /\ HeadFollows'
    <3>1. CASE store' = store
      BY <1>0, <1>7, <3>1 DEF UploadFail, OneLine, Follows, HeadFollows
    <3>2. CASE store' = Append(store, BlobOf(order[i]))
      BY <1>0, <1>7, <3>2, StoredLine, BlobOfFacts DEF UploadFail
    <3> QED
      BY <1>7, <3>1, <3>2 DEF UploadFail
  <2>2. pc'[order[i]] = "rejected"
    BY <1>7, PcFacts DEF UploadFail, AnchorBase
  <2>3. Unheaded' /\ HeadIsMine'
    BY <1>0, <1>2, <1>7, <2>2 DEF UploadFail, OneLine, Unheaded, HeadIsMine
  <2> QED
    BY <1>4, <1>5, <2>1, <2>3 DEF OneLine
<1>8. CASE UploadOk(i)
  <2> DEFINE n == Len(store) + 1
  <2>1. /\ store' = Append(store, BlobOf(order[i])) /\ head' = n
        /\ n \in Nat /\ n \notin Roots /\ Roots' = Roots \cup {n}
        /\ \A r \in Roots : store'[r] = store[r]
        /\ store'[n].call = order[i]
        /\ head # Nil => Behind(store, head) \subseteq Behind(store', n)
    <3>1. store' = Append(store, BlobOf(order[i])) /\ head' = Len(store')
      BY <1>8 DEF UploadOk
    <3>2. Len(store') = n
      BY <3>1, BlobOfFacts, AppendedStore DEF AnchorBase, AnchorTypeOK
    <3> QED
      BY <1>6, <3>1, <3>2, BlobOfFacts, StoredFacts
  <2>2. n # Nil
    BY <2>1, ChainAssumption
  <2> HIDE DEF n
  <2>3. Follows'
    BY <1>0, <2>1, BlobOfFacts, StoredLine
  <2>4. HeadFollows'
    <3> SUFFICES ASSUME Sent # <<>> PROVE Tip \in Behind(store', n)
      BY <1>0, <2>1 DEF HeadFollows
    <3>1. head # Nil
      BY <1>1, <1>2 DEF OneLine, Unheaded
    <3>2. Tip \in Behind(store, head)
      BY <3>1 DEF OneLine, HeadFollows
    <3> QED
      BY <2>1, <3>1, <3>2
  <2>5. Unheaded'
    BY <2>1, <2>2 DEF Unheaded
  <2>6. HeadIsMine'
    <3>1. \A r \in Roots : store[r].call # order[i]
      <4>1. order[i] \in AgentRotations
        BY BlobFacts DEF AnchorBase
      <4> QED
        BY <1>1, <4>1 DEF AnchorBase, BlobsAreOld
    <3>2. \A r \in Roots' : store'[r].call = order[i] <=> r = n
      BY <2>1, <3>1
    <3> QED
      BY <1>0, <1>2, <2>1, <3>2 DEF HeadIsMine
  <2> QED
    BY <1>4, <1>5, <2>3, <2>4, <2>5, <2>6 DEF OneLine
<1> QED
  BY <1>7, <1>8

(* A rotation reads the root on chain.                                     *)
LEMMA ReadRootStep ==
  ASSUME AnchorBase, NEW t \in Rotations, ReadRoot(t)
  PROVE  /\ AnchorBase'
         /\ OneLine /\ mishaps' = {} => OneLine'
<1> DEFINE s == IF t \in CliRotations THEN "uploading" ELSE "seeding"
<1>0. /\ UNCHANGED <<head, store, order, pc, base, mempool, anchored, faults, restarts>>
      /\ Roots' = Roots /\ Positions' = Positions /\ Sent' = Sent /\ Tip' = Tip
      /\ stage[t] = "reading"
  BY DEF ReadRoot, vars, Roots, Positions, Sent, Tip
<1>1. /\ stage' \in [Rotations -> Stages]
      /\ stage'[t] = s
      /\ \A u \in Rotations : u # t => stage'[u] = stage[u]
  <2>1. s \in Stages /\ GoTo(t, s)
    BY DEF Stages, ReadRoot
  <2> HIDE DEF s
  <2> QED
    BY <2>1, GoToFacts DEF AnchorBase
<1>2. OnChain \in Roots \cup {Nil}
  <2>1. anchored \in Seq(Roots)
    BY DEF AnchorBase, AnchorTypeOK
  <2>2. anchored # <<>> => Len(anchored) \in 1 .. Len(anchored)
    BY <2>1, EmptySeq
  <2> QED
    BY <2>1, <2>2, ElementOfSeq DEF OnChain
<1>3. /\ got' \in [Rotations -> Roots \cup {Nil}]
      /\ got'[t] = OnChain
      /\ \A u \in Rotations : u # t => got'[u] = got[u]
  BY <1>2 DEF ReadRoot, AnchorBase, AnchorTypeOK
<1>4. mishaps' \subseteq Mishaps
  BY DEF ReadRoot, Note, Mishaps, AnchorBase, AnchorTypeOK
<1>5. AnchorTypeOK'
  BY <1>0, <1>1, <1>3, <1>4 DEF AnchorBase, AnchorTypeOK
<1>6. /\ \A r \in Roots : store[r].call \in Rotations
      /\ \A i \in Positions : order[i] \in AgentRotations /\ order[i] \in Rotations
  BY BlobFacts DEF AnchorBase
<1>7. t \in CliRotations \/ t \in AgentRotations
  BY <1>0 DEF AnchorBase, Roles, Rotations
<1>8. Linked(store)' /\ Roles'
  BY <1>0, <1>1, <1>7, AnchorAssumption DEF AnchorBase, Roles, SoloRotations
<1>9. HasBlob'
  BY <1>0, <1>1 DEF AnchorBase, HasBlob, Uploaded
<1>10. BlobsAreOld'
  BY <1>0, <1>1, <1>3, <1>6 DEF AnchorBase, BlobsAreOld
<1>11. AwaitsAppend'
  BY <1>0, <1>1, <1>6 DEF AnchorBase, AwaitsAppend
<1>12. ASSUME OneLine, mishaps' = {} PROVE OneLine'
  <2>1. mempool = <<>>
    BY <1>12 DEF ReadRoot, Note
  <2>2. Sent = anchored /\ OnChain = Tip
    <3>1. Sent = anchored
      BY <2>1, ConcatEmptySeq DEF Sent, AnchorBase, AnchorTypeOK
    <3> QED
      BY <3>1 DEF OnChain, Tip
  <2>3. Alone'
    BY <1>0, <1>1, <1>12 DEF OneLine, Alone, InFlight, Ended
  <2>4. Follows' /\ HeadFollows' /\ AtHead'
    BY <1>0, <1>12 DEF OneLine, Follows, HeadFollows, AtHead
  <2>5. ReadsTip'
    BY <1>0, <1>1, <1>3, <1>12, <2>2 DEF OneLine, ReadsTip
  <2>6. Unheaded' /\ HeadIsMine'
    BY <1>0, <1>1, <1>12 DEF OneLine, Unheaded, HeadIsMine
  <2> QED
    BY <2>3, <2>4, <2>5, <2>6 DEF OneLine
<1> QED
  BY <1>5, <1>8, <1>9, <1>10, <1>11, <1>12 DEF AnchorBase

(* A writer that has its chain for itself stores its blob.                 *)
LEMMA SoloUploadStep ==
  ASSUME AnchorBase, NEW t \in Rotations, SoloUpload(t)
  PROVE  AnchorBase' /\ (OneLine => OneLine')
<1>0. /\ UNCHANGED <<head, order, pc, base, got, mempool, anchored, mishaps, restarts>>
      /\ Positions' = Positions /\ Sent' = Sent /\ Tip' = Tip
      /\ stage[t] = "uploading" /\ t \in SoloRotations
  BY DEF SoloUpload, Positions, Sent, Tip, AnchorBase, Roles
<1>1. CASE GoTo(t, "failed") /\ Fault /\ UNCHANGED store
  <2>1. mishaps' \subseteq Mishaps /\ faults' \in Nat /\ restarts' \in Nat /\ UNCHANGED vars
    BY <1>0, <1>1 DEF Fault, AnchorBase, AnchorTypeOK, vars
  <2>2. "failed" \in Ended
    BY DEF Ended
  <2> QED
    BY <1>0, <1>1, <2>1, <2>2, StageStep
<1>2. CASE /\ store' = Append(store, [prev |-> got[t], call |-> t])
           /\ GoTo(t, "uploaded")
           /\ UNCHANGED faults
  <2> DEFINE b == [prev |-> got[t], call |-> t]
             n == Len(store) + 1
  <2>1. b \in Blob /\ b.prev = got[t] /\ b.call = t /\ got[t] \in Roots \cup {Nil}
    <3>1. got[t] \in Roots \cup {Nil} /\ Roots \subseteq Nat /\ t \in Calls
      BY AnchorAssumption DEF AnchorBase, AnchorTypeOK, Roots
    <3> QED
      BY <3>1 DEF Blob
  <2>2. /\ store' \in Seq(Blob) /\ Roots' = Roots \cup {n}
        /\ \A r \in Roots : store'[r] = store[r]
        /\ store'[n] = b
        /\ Linked(store')
    <3> HIDE DEF b
    <3> QED
      BY <1>2, <2>1, StoredFacts DEF b
  <2>3. /\ stage' \in [Rotations -> Stages]
        /\ stage'[t] = "uploaded"
        /\ \A u \in Rotations : u # t => stage'[u] = stage[u]
    <3>1. "uploaded" \in Stages
      BY DEF Stages
    <3> QED
      BY <1>2, <3>1, GoToFacts DEF AnchorBase
  <2>4. /\ \A r \in Roots : store[r].call \in Rotations
        /\ \A i \in Positions : order[i] \in AgentRotations /\ order[i] \in Rotations
    BY BlobFacts DEF AnchorBase
  <2>5. store' = Append(store, b)
    BY <1>2
  <2> HIDE DEF b, n
  <2>6. AnchorTypeOK'
    <3>1. mempool' \in Seq(Roots') /\ anchored' \in Seq(Roots')
      BY <1>0, <2>2, SeqMonotonic DEF AnchorBase, AnchorTypeOK
    <3>2. /\ head' \in Roots' \cup {Nil}
          /\ base' \in [Rotations -> Roots' \cup {Nil}]
          /\ got' \in [Rotations -> Roots' \cup {Nil}]
      BY <1>0, <2>2 DEF AnchorBase, AnchorTypeOK
    <3> QED
      BY <1>0, <1>2, <2>2, <2>3, <3>1, <3>2 DEF AnchorBase, AnchorTypeOK
  <2>7. Roles'
    BY <1>0, <2>3 DEF AnchorBase, Roles
  <2>8. HasBlob'
    <3> SUFFICES ASSUME NEW u \in Rotations, Uploaded(u)' PROVE \E r \in Roots' : store'[r].call = u
      BY DEF HasBlob
    <3>1. CASE u = t
      BY <2>1, <2>2, <3>1
    <3>2. CASE u # t
      BY <1>0, <2>2, <2>3, <3>2 DEF AnchorBase, HasBlob, Uploaded
    <3> QED
      BY <3>1, <3>2
  <2>9. BlobsAreOld'
    <3>1. t \notin AgentRotations
      BY <1>0, AnchorAssumption
    <3>2. ASSUME NEW r \in Roots
          PROVE  /\ store'[r].call \in SoloRotations =>
                      /\ store'[r].prev = got'[store'[r].call]
                      /\ stage'[store'[r].call] \notin {"idle", "reading", "uploading"}
                 /\ store'[r].call \in AgentRotations
                      => pc'[store'[r].call] \in {"fulfilled", "rejected"}
      BY <1>0, <2>2, <2>3, <2>4 DEF AnchorBase, BlobsAreOld
    <3> QED
      BY <1>0, <2>1, <2>2, <2>3, <3>1, <3>2 DEF BlobsAreOld
  <2>10. AwaitsAppend'
    BY <1>0, <2>3, <2>4 DEF AnchorBase, AwaitsAppend
  <2>11. ASSUME OneLine PROVE OneLine'
    <3>1. Alone'
      BY <1>0, <2>3, <2>11 DEF OneLine, Alone, InFlight, Ended
    <3>2. Follows' /\ HeadFollows'
      BY <1>0, <2>1, <2>5, <2>11, StoredLine
    <3>3. ReadsTip'
      BY <1>0, <2>3, <2>11 DEF OneLine, ReadsTip
    <3>4. \A u \in Rotations : stage'[u] # "appending"
      BY <1>0, <2>3, <2>11 DEF OneLine, Alone, InFlight, Ended
    <3>5. Unheaded' /\ HeadIsMine'
      BY <3>4 DEF Unheaded, HeadIsMine
    <3>6. AtHead'
      BY <1>0, <2>11 DEF OneLine, AtHead
    <3> QED
      BY <3>1, <3>2, <3>3, <3>5, <3>6 DEF OneLine
  <2> QED
    BY <2>2, <2>6, <2>7, <2>8, <2>9, <2>10, <2>11 DEF AnchorBase
<1> QED
  BY <1>1, <1>2 DEF SoloUpload

(* A transaction is sent: the line grows by a root that leads to its end.  *)
LEMMA SentFacts ==
  ASSUME AnchorTypeOK
  PROVE  /\ Sent \in Seq(Roots)
         /\ DOMAIN Sent = 1 .. Len(Sent) /\ Len(Sent) \in Nat
         /\ \A i \in 1 .. Len(Sent) : Sent[i] \in Roots
         /\ Sent # <<>> => Len(Sent) \in 1 .. Len(Sent) /\ Tip = Sent[Len(Sent)] /\ Tip \in Roots
<1>1. Sent \in Seq(Roots)
  BY ConcatProperties DEF AnchorTypeOK, Sent
<1>2. Sent # <<>> => Len(Sent) \in 1 .. Len(Sent)
  BY <1>1, EmptySeq
<1> QED
  BY <1>1, <1>2, LenProperties, ElementOfSeq DEF Tip

LEMMA SubmitFollows ==
  ASSUME AnchorBase, Follows, NEW r \in Roots, mempool' = Append(mempool, r),
         UNCHANGED <<anchored, store>>,
         Sent # <<>> => Tip \in Behind(store, r)
  PROVE  Follows' /\ Sent' # <<>> /\ Tip' = r
<1> DEFINE n == Len(Sent)
<1>1. /\ Sent' \in Seq(Roots) /\ Len(Sent') = n + 1 /\ Sent'[n + 1] = r
      /\ \A i \in 1 .. n : Sent'[i] = Sent[i]
  BY SentSubmitted DEF AnchorBase, AnchorTypeOK, Sent
<1>2. /\ DOMAIN Sent = 1 .. n /\ n \in Nat /\ DOMAIN Sent' = 1 .. n + 1
      /\ Sent # <<>> => n \in 1 .. n /\ Tip = Sent[n]
  BY <1>1, SentFacts DEF AnchorBase
<1>3. n # 0 => Sent # <<>>
  OBVIOUS
<1> HIDE DEF n
<1>4. Sent' # <<>> /\ Tip' = r
  <2>1. Sent' # <<>>
    BY <1>1, <1>2
  <2> QED
    BY <1>1, <2>1 DEF Tip
<1>5. ASSUME NEW i \in 1 .. n + 1, NEW j \in 1 .. n + 1, i < j
      PROVE  Sent'[i] \in Behind(store, Sent'[j])
  <2>1. CASE j # n + 1
    BY <1>1, <1>2, <1>5, <2>1 DEF Follows
  <2>2. CASE j = n + 1
    <3>1. i \in 1 .. n /\ n # 0 /\ Sent'[i] = Sent[i] /\ Sent'[j] = r
      BY <1>1, <1>2, <1>5, <2>2
    <3>2. Tip \in Behind(store, r) /\ Tip = Sent[n] /\ n \in 1 .. n
      BY <1>2, <1>3, <3>1
    <3>3. CASE i = n
      BY <3>1, <3>2, <3>3
    <3>4. CASE i # n
      <4>1. Sent[i] \in Behind(store, Tip)
        <5>1. i < n
          BY <1>2, <3>1, <3>4
        <5> QED
          BY <1>2, <3>1, <3>2, <5>1 DEF Follows
      <4> QED
        BY <3>1, <3>2, <4>1, BehindTrans
    <3> QED
      BY <3>3, <3>4
  <2> QED
    BY <2>1, <2>2
<1> QED
  BY <1>2, <1>4, <1>5 DEF Follows

LEMMA SubmitStep ==
  ASSUME AnchorBase, NEW t \in Rotations, Submit(t)
  PROVE  /\ AnchorBase'
         /\ OneLine /\ mishaps' = {} => OneLine'
<1> DEFINE r == RootOf(t)
<1>0. /\ UNCHANGED <<head, store, order, pc, base, got, anchored, faults, restarts>>
      /\ Roots' = Roots /\ Positions' = Positions
      /\ Uploaded(t) /\ mempool' = Append(mempool, r)
  BY DEF Submit, vars, Roots, Positions
<1>1. r \in Roots /\ store[r].call = t
  BY <1>0 DEF AnchorBase, HasBlob, RootOf
<1> HIDE DEF r
<1>2. /\ stage' \in [Rotations -> Stages]
      /\ stage'[t] = "waiting"
      /\ \A u \in Rotations : u # t => stage'[u] = stage[u]
  <2>1. "waiting" \in Stages
    BY DEF Stages
  <2> QED
    BY <2>1, GoToFacts DEF Submit, AnchorBase
<1>3. mishaps' \subseteq Mishaps /\ mempool' \in Seq(Roots)
  BY <1>0, <1>1 DEF Submit, Note, Mishaps, AnchorBase, AnchorTypeOK
<1>4. AnchorTypeOK'
  BY <1>0, <1>2, <1>3 DEF AnchorBase, AnchorTypeOK
<1>5. /\ \A q \in Roots : store[q].call \in Rotations
      /\ \A i \in Positions : order[i] \in AgentRotations /\ order[i] \in Rotations
  BY BlobFacts DEF AnchorBase
<1>6. Linked(store)' /\ Roles'
  BY <1>0, <1>2 DEF AnchorBase, Roles
<1>7. HasBlob'
  BY <1>0, <1>2 DEF AnchorBase, HasBlob, Uploaded
<1>8. BlobsAreOld'
  BY <1>0, <1>2, <1>5 DEF AnchorBase, BlobsAreOld
<1>9. AwaitsAppend'
  <2>1. t \in AgentRotations => pc[t] = "fulfilled"
    BY <1>0, AnchorAssumption DEF Uploaded, AnchorBase, Roles
  <2> QED
    BY <1>0, <1>2, <1>5, <2>1 DEF AnchorBase, AwaitsAppend
<1>10. ASSUME OneLine, mishaps' = {} PROVE OneLine'
  <2>1. ~Bypasses(t)
    BY <1>10 DEF Submit, Note
  <2>2. /\ InFlight(t)
        /\ \A u \in Rotations : stage'[u] \notin {"waiting"} \cup Ended => ~InFlight(u)
        /\ \A u \in Rotations : stage'[u] \in {"seeding", "appending", "uploading", "uploaded"} => FALSE
    <3>1. InFlight(t)
      BY <1>0 DEF Uploaded, InFlight, Ended
    <3> QED
      BY <1>2, <1>10, <3>1 DEF OneLine, Alone, InFlight, Ended
  <2>3. Sent # <<>> => Tip \in Behind(store, r)
    <3>1. CASE stage[t] = "uploaded"
      <4>1. t \in SoloRotations /\ head = Nil /\ store[r].prev = got[t]
        BY <1>1, <2>1, <3>1 DEF AnchorBase, Roles, Bypasses, BlobsAreOld
      <4>2. CASE t \in DashRotations
        <5>1. anchored = <<>> /\ mempool = <<>>
          BY <2>1, <4>2 DEF Bypasses
        <5>2. Sent = <<>>
          BY <5>1, ConcatEmptySeq DEF Sent, AnchorBase, AnchorTypeOK
        <5> QED
          BY <5>2
      <4>3. CASE t \in CliRotations
        <5> SUFFICES ASSUME Sent # <<>> PROVE Tip \in Behind(store, r)
          OBVIOUS
        <5>1. store[r].prev = Tip /\ Tip \in Roots
          BY <1>10, <3>1, <4>1, <4>3, SentFacts DEF OneLine, ReadsTip, AnchorBase
        <5>2. Tip # Nil
          BY <5>1, ChainAssumption DEF Roots
        <5> QED
          BY <1>1, <5>1, <5>2, BehindPrev DEF AnchorBase, AnchorTypeOK, Roots
      <4> QED
        BY <4>1, <4>2, <4>3 DEF SoloRotations
    <3>2. CASE stage[t] = "appending" /\ pc[t] = "fulfilled"
      <4>1. r = head /\ head # Nil
        <5>1. head \in Roots
          BY <1>10, <3>2 DEF OneLine, HeadIsMine
        <5> QED
          BY <1>1, <1>10, <3>2, <5>1, ChainAssumption DEF OneLine, HeadIsMine, Roots
      <4> QED
        BY <1>10, <4>1 DEF OneLine, HeadFollows
    <3> QED
      BY <1>0, <3>1, <3>2 DEF Uploaded
  <2>4. Follows' /\ Sent' # <<>> /\ Tip' = r
    BY <1>0, <1>1, <1>10, <2>3, SubmitFollows DEF OneLine
  <2>5. HeadFollows'
    <3>1. head # Nil => head = r
      <4>1. CASE stage[t] = "uploaded"
        BY <2>1, <4>1 DEF AnchorBase, Roles, Bypasses
      <4>2. CASE stage[t] = "appending" /\ pc[t] = "fulfilled"
        BY <1>1, <1>10, <4>2 DEF OneLine, HeadIsMine
      <4> QED
        BY <1>0, <4>1, <4>2 DEF Uploaded
    <3>2. r \in Behind(store, r)
      BY <1>1, BehindSelf DEF Roots
    <3> QED
      BY <1>0, <2>4, <3>1, <3>2 DEF HeadFollows
  <2>6. Alone'
    BY <1>2, <1>10, <2>2 DEF OneLine, Alone, InFlight, Ended
  <2>7. ReadsTip' /\ Unheaded' /\ HeadIsMine'
    BY <2>2 DEF ReadsTip, Unheaded, HeadIsMine
  <2>8. AtHead'
    BY <1>0, <1>10 DEF OneLine, AtHead
  <2> QED
    BY <2>4, <2>5, <2>6, <2>7, <2>8 DEF OneLine
<1> QED
  BY <1>4, <1>6, <1>7, <1>8, <1>9, <1>10 DEF AnchorBase

(* A transaction is mined: the line is the same, and so is the rest.       *)
LEMMA MineStep ==
  ASSUME AnchorBase, Mine
  PROVE  AnchorBase' /\ (OneLine => OneLine')
<1>1. /\ UNCHANGED <<head, store, order, pc, base, stage, got, mishaps, faults, restarts>>
      /\ Roots' = Roots /\ Positions' = Positions
  BY DEF Mine, vars, Roots, Positions
<1>2. /\ anchored' \in Seq(Roots) /\ mempool' \in Seq(Roots)
      /\ Sent' = Sent
  BY SentMined DEF Mine, AnchorBase, AnchorTypeOK, Sent
<1>3. Tip' = Tip
  BY <1>2 DEF Tip
<1>4. AnchorTypeOK'
  BY <1>1, <1>2 DEF AnchorBase, AnchorTypeOK
<1>5. Linked(store)' /\ Roles' /\ HasBlob' /\ BlobsAreOld' /\ AwaitsAppend'
  BY <1>1 DEF AnchorBase, Roles, HasBlob, Uploaded, BlobsAreOld, AwaitsAppend
<1>6. ASSUME OneLine PROVE OneLine'
  <2>1. Alone' /\ ReadsTip' /\ Unheaded' /\ HeadIsMine'
    BY <1>1, <1>2, <1>3, <1>6 DEF OneLine, Alone, InFlight, ReadsTip, Unheaded, HeadIsMine
  <2>2. Follows' /\ HeadFollows' /\ AtHead'
    BY <1>1, <1>2, <1>3, <1>6 DEF OneLine, Follows, HeadFollows, AtHead
  <2> QED
    BY <2>1, <2>2 DEF OneLine
<1> QED
  BY <1>4, <1>5, <1>6 DEF AnchorBase

(* The agent restarts: it forgets its head and its rotations.              *)
LEMMA AgentRestartsStep ==
  ASSUME AnchorBase, AgentRestarts
  PROVE  AnchorBase' /\ (OneLine => OneLine')
<1>1. /\ UNCHANGED <<store, pc, base, got, mempool, anchored, mishaps, faults>>
      /\ Roots' = Roots /\ Sent' = Sent /\ Tip' = Tip
      /\ head' = Nil /\ order' = <<>> /\ Positions' = {}
      /\ restarts' \in Nat
  BY DEF AgentRestarts, Roots, Positions, Sent, Tip, AnchorBase, AnchorTypeOK
<1>2. \A u \in Rotations :
        stage'[u] = IF u \in AgentRotations /\ InFlight(u) THEN "lost" ELSE stage[u]
  BY DEF AgentRestarts
<1>3. stage' \in [Rotations -> Stages]
  <2>1. "lost" \in Stages
    BY DEF Stages, Ended
  <2> QED
    BY <2>1 DEF AgentRestarts, AnchorBase, AnchorTypeOK
<1>4. AnchorTypeOK'
  BY <1>1, <1>3 DEF AnchorBase, AnchorTypeOK
<1>5. \A r \in Roots : store[r].call \in Rotations
  BY BlobFacts DEF AnchorBase
<1>6. Linked(store)' /\ Roles' /\ HasBlob'
  BY <1>1, <1>2 DEF AnchorBase, Roles, HasBlob, Uploaded
<1>7. BlobsAreOld'
  BY <1>1, <1>2, <1>5, AnchorAssumption DEF AnchorBase, BlobsAreOld
<1>8. AwaitsAppend'
  BY <1>1 DEF AwaitsAppend
<1>9. ASSUME OneLine PROVE OneLine'
  <2>1. Alone'
    BY <1>2, <1>9 DEF OneLine, Alone, InFlight, Ended
  <2>2. Follows' /\ HeadFollows' /\ AtHead'
    BY <1>1, <1>9 DEF OneLine, Follows, HeadFollows, AtHead
  <2>3. ReadsTip'
    BY <1>1, <1>2, <1>9 DEF OneLine, ReadsTip
  <2>4. \A u \in Rotations : stage'[u] # "appending"
    BY <1>2 DEF AnchorBase, Roles, InFlight, Ended
  <2>5. Unheaded' /\ HeadIsMine'
    BY <2>4 DEF Unheaded, HeadIsMine
  <2> QED
    BY <2>1, <2>2, <2>3, <2>5 DEF OneLine
<1> QED
  BY <1>4, <1>6, <1>7, <1>8, <1>9 DEF AnchorBase

LEMMA AnchorNextStep == AInv /\ [AnchorNext]_anchorVars => AInv'
<1> SUFFICES ASSUME AInv, [AnchorNext]_anchorVars PROVE AInv'
  OBVIOUS
<1>0. /\ AnchorBase /\ (mishaps = {} => OneLine)
      /\ AnchorTypeOK /\ mishaps \subseteq Mishaps /\ faults \in Nat /\ restarts \in Nat
  BY DEF AInv, AnchorBase, AnchorTypeOK
<1>1. AgentRotations \subseteq Rotations /\ CliRotations \subseteq Rotations /\ DashRotations \subseteq Rotations
  BY DEF Rotations
<1>2. \A t \in Rotations : Starts(t) =>
        /\ stage[t] = "idle" /\ mishaps' \subseteq Mishaps
        /\ mishaps' = {} => mishaps = {} /\ \A u \in Rotations : ~InFlight(u)
  BY <1>0 DEF Starts, Note, Mishaps
<1>3. ASSUME NEW t \in AgentRotations, AgentStarts(t) PROVE AInv'
  <2>1. t \in Rotations /\ Starts(t) /\ UNCHANGED <<got, mempool, anchored, faults, restarts>>
    BY <1>1, <1>3 DEF AgentStarts
  <2>2. CASE head = Nil /\ GoTo(t, "reading") /\ UNCHANGED vars
    <3>1. t \notin DashRotations
      BY AnchorAssumption DEF SoloRotations
    <3> QED
      BY <1>0, <1>2, <2>1, <2>2, <3>1, StageStep DEF AInv
  <2>3. CASE head # Nil /\ GoTo(t, "appending") /\ AppendCall(t)
    <3>1. Enqueue(t) /\ UNCHANGED <<head, store, base>>
      BY <2>3 DEF AppendCall
    <3>2. head' \in Roots \cup {Nil} /\ head' # Nil
      BY <1>0, <2>3, <3>1 DEF AnchorTypeOK
    <3>3. AnchorBase'
      BY <1>0, <1>2, <2>1, <2>3, <3>1, <3>2, EnqueueStep
    <3>4. ASSUME mishaps' = {} PROVE OneLine'
      <4>1. HeadFollows'
        BY <1>0, <1>2, <2>1, <3>1, <3>4 DEF OneLine, HeadFollows, Sent, Tip
      <4> QED
        BY <1>0, <1>2, <2>1, <2>3, <3>1, <3>2, <3>4, <4>1, EnqueueStep
    <3> QED
      BY <3>3, <3>4 DEF AInv
  <2> QED
    BY <1>3, <2>2, <2>3 DEF AgentStarts
<1>4. ASSUME NEW t \in CliRotations, CliStarts(t) PROVE AInv'
  <2>1. t \in Rotations /\ t \notin DashRotations
    BY <1>1, AnchorAssumption
  <2>2. GoTo(t, "reading") /\ UNCHANGED <<vars, got, mempool, anchored, faults, restarts>> /\ Starts(t)
    BY <1>4 DEF CliStarts
  <2>3. stage[t] # "appending"
    BY <1>2, <2>1, <2>2
  <2> QED
    BY <1>0, <1>2, <2>1, <2>2, <2>3, StageStep DEF AInv
<1>5. ASSUME NEW t \in DashRotations, DashStarts(t) PROVE AInv'
  <2>1. t \in Rotations
    BY <1>1
  <2>2. GoTo(t, "uploading") /\ UNCHANGED <<vars, got, mempool, anchored, faults, restarts>> /\ Starts(t)
    BY <1>5 DEF DashStarts
  <2>3. stage[t] # "appending"
    BY <1>2, <2>1, <2>2
  <2> QED
    BY <1>0, <1>2, <2>1, <2>2, <2>3, StageStep DEF AInv
<1>6. ASSUME NEW t \in Rotations, ReadFails(t) PROVE AInv'
  <2>1. UNCHANGED <<got, mempool, anchored, restarts>> /\ stage[t] = "reading" /\ faults' \in Nat
    BY <1>0, <1>6 DEF ReadFails, Fault
  <2>2. CASE t \in AgentRotations /\ GoTo(t, "appending") /\ AppendCall(t) /\ Note({"unseeded"})
    <3>1. mishaps' # {} /\ mishaps' \subseteq Mishaps
      BY <1>0, <2>2 DEF Note, Mishaps
    <3>2. Enqueue(t) /\ UNCHANGED <<head, store, base>> /\ head' \in Roots \cup {Nil}
      BY <1>0, <2>2 DEF AppendCall, AnchorTypeOK
    <3>3. AnchorBase'
      BY <1>0, <2>1, <2>2, <3>1, <3>2, EnqueueStep
    <3> QED
      BY <3>1, <3>3 DEF AInv
  <2>3. CASE GoTo(t, "failed") /\ UNCHANGED <<vars, mishaps>>
    <3>1. stage[t] # "appending" /\ "failed" \in Ended
      BY <2>1 DEF Ended
    <3> QED
      BY <1>0, <2>1, <2>3, <3>1, StageStep DEF AInv
  <2> QED
    BY <1>6, <2>2, <2>3 DEF ReadFails
<1>7. ASSUME NEW t \in Rotations, Seed(t) PROVE AInv'
  <2>1. /\ Enqueue(t) /\ GoTo(t, "appending") /\ stage[t] = "seeding"
        /\ UNCHANGED <<store, base, got, mempool, anchored, faults, restarts>>
        /\ head' = IF got[t] = Nil THEN head ELSE got[t]
        /\ mishaps' \subseteq Mishaps /\ (mishaps' = {} => mishaps = {})
        /\ Sent' = Sent /\ Tip' = Tip
    BY <1>0, <1>7 DEF Seed, Note, Mishaps, Sent, Tip
  <2>2. t \in AgentRotations /\ head' \in Roots \cup {Nil}
    BY <1>0, <2>1 DEF AnchorBase, Roles, AnchorTypeOK
  <2>3. AnchorBase'
    BY <1>0, <2>1, <2>2, EnqueueStep
  <2>4. ASSUME mishaps' = {} PROVE OneLine'
    <3>1. OneLine /\ got[t] = Tip
      BY <1>0, <2>1, <2>4 DEF OneLine, ReadsTip
    <3>2. \A u \in Rotations : InFlight(u) => u = t
      BY <2>1, <3>1 DEF OneLine, Alone, InFlight, Ended
    <3>3. Sent # <<>> => Tip # Nil /\ Tip \in Roots
      BY <1>0, SentFacts, ChainAssumption DEF Roots
    <3>4. HeadFollows'
      <4>1. Sent # <<>> => head' = Tip /\ Tip \in Behind(store, Tip)
        BY <2>1, <3>1, <3>3, BehindSelf DEF Roots
      <4> QED
        BY <2>1, <4>1 DEF HeadFollows
    <3>5. head' = Nil => Sent = <<>>
      BY <2>1, <3>1, <3>3
    <3> QED
      BY <1>0, <2>1, <2>2, <3>1, <3>2, <3>4, <3>5, EnqueueStep
  <2> QED
    BY <2>3, <2>4 DEF AInv
<1>8. ASSUME NEW t \in Rotations, AppendRejected(t) PROVE AInv'
  <2>1. /\ GoTo(t, "failed") /\ pc[t] = "rejected" /\ "failed" \in Ended
        /\ UNCHANGED <<vars, got, mempool, anchored, mishaps, faults, restarts>>
    BY <1>8 DEF AppendRejected, Ended
  <2> QED
    BY <1>0, <2>1, StageStep DEF AInv
<1>9. ASSUME NEW t \in Rotations, AnchorFails(t) PROVE AInv'
  <2>1. /\ GoTo(t, "failed") /\ "failed" \in Ended /\ faults' \in Nat
        /\ stage[t] = "appending" => pc[t] \notin {"queued", "uploading"}
        /\ UNCHANGED <<vars, got, mempool, anchored, mishaps, restarts>>
    BY <1>0, <1>9 DEF AnchorFails, Uploaded, Fault, Ended
  <2> QED
    BY <1>0, <2>1, StageStep DEF AInv
<1>10. ASSUME NEW t \in Rotations, Confirm(t) PROVE AInv'
  <2>1. /\ GoTo(t, "done") /\ stage[t] # "appending" /\ "done" \in Ended
        /\ UNCHANGED <<vars, got, mempool, anchored, mishaps, faults, restarts>>
    BY <1>10 DEF Confirm, Ended
  <2> QED
    BY <1>0, <2>1, StageStep DEF AInv
<1>11. ASSUME NEW t \in Rotations, ReadRoot(t) PROVE AInv'
  <2>1. mishaps' = {} => mishaps = {}
    BY <1>11 DEF ReadRoot, Note
  <2> QED
    BY <1>0, <1>11, <2>1, ReadRootStep DEF AInv
<1>12. ASSUME NEW t \in Rotations, SoloUpload(t) PROVE AInv'
  <2>1. mishaps' = mishaps
    BY <1>12 DEF SoloUpload
  <2> QED
    BY <1>0, <1>12, <2>1, SoloUploadStep DEF AInv
<1>13. ASSUME NEW t \in Rotations, Submit(t) PROVE AInv'
  <2>1. mishaps' = {} => mishaps = {}
    BY <1>13 DEF Submit, Note
  <2> QED
    BY <1>0, <1>13, <2>1, SubmitStep DEF AInv
<1>14. CASE ChainWork
  <2>1. PICK i \in Positions : Begin(i) \/ UploadOk(i) \/ UploadFail(i) \/ Propagate(i)
    BY <1>14 DEF ChainWork
  <2>2. Aside /\ mishaps' = mishaps
    BY <1>0, <1>14 DEF ChainWork, Aside, Fault
  <2>3. CASE Begin(i) \/ Propagate(i)
    BY <1>0, <2>2, <2>3, PromiseStep DEF AInv
  <2>4. CASE UploadOk(i) \/ UploadFail(i)
    BY <1>0, <2>2, <2>4, AnchorUploadStep, AnchorUploadLine DEF AInv
  <2> QED
    BY <2>1, <2>3, <2>4
<1>15. CASE Mine
  <2>1. mishaps' = mishaps
    BY <1>15 DEF Mine
  <2> QED
    BY <1>0, <1>15, <2>1, MineStep DEF AInv
<1>16. CASE AgentRestarts
  <2>1. mishaps' = mishaps
    BY <1>16 DEF AgentRestarts
  <2> QED
    BY <1>0, <1>16, <2>1, AgentRestartsStep DEF AInv
<1>17. CASE UNCHANGED anchorVars
  <2>1. UNCHANGED <<head, store, order, pc, base, stage, got, mempool, anchored, mishaps, faults, restarts>>
    BY <1>17 DEF anchorVars, vars
  <2>2. Roots' = Roots /\ Positions' = Positions /\ Sent' = Sent /\ Tip' = Tip
    BY <2>1 DEF Roots, Positions, Sent, Tip
  <2>3. AnchorTypeOK' /\ Linked(store)' /\ Roles' /\ HasBlob' /\ BlobsAreOld' /\ AwaitsAppend'
    BY <1>0, <2>1, <2>2 DEF AnchorBase, AnchorTypeOK, Roles, HasBlob, Uploaded, BlobsAreOld, AwaitsAppend
  <2>4. OneLine => OneLine'
    BY <2>1, <2>2 DEF OneLine, Alone, InFlight, Follows, HeadFollows, ReadsTip, Unheaded, AtHead, HeadIsMine
  <2> QED
    BY <1>0, <2>1, <2>3, <2>4 DEF AInv, AnchorBase
<1>18. ASSUME NEW t \in Rotations, Step(t) PROVE AInv'
  BY <1>6, <1>7, <1>8, <1>9, <1>10, <1>11, <1>12, <1>13, <1>18 DEF Step
<1> QED
  BY <1>3, <1>4, <1>5, <1>14, <1>15, <1>16, <1>17, <1>18 DEF AnchorNext

-----------------------------------------------------------------------------
(* The walk of the model visits the roots behind its start.                *)
LEMMA VisitedIs ==
  ASSUME AnchorBase
  PROVE  \A r \in Roots : Visited[r] = Behind(store, r)
<1> DEFINE Body(f, r) == {r} \cup IF store[r].prev = Nil THEN {} ELSE f[store[r].prev]
           g == [r \in Roots |-> Behind(store, r)]
<1>1. /\ store \in Seq(Blob) /\ Linked(store) /\ Roots = 1 .. Len(store) /\ Len(store) \in Nat
      /\ \A r \in Roots : r \in Nat /\ r >= 1
  BY DEF AnchorBase, AnchorTypeOK, Roots
<1>2. \A r \in Roots : store[r].prev # Nil => store[r].prev \in Roots /\ store[r].prev < r
  BY <1>1, BehindPrev
<1>3. ASSUME NEW r \in Roots PROVE Behind(store, r) = Body(g, r)
  <2>1. CASE store[r].prev = Nil
    BY <1>1, <2>1, BehindFirst
  <2>2. CASE store[r].prev # Nil
    <3>1. g[store[r].prev] = Behind(store, store[r].prev)
      BY <1>2, <2>2
    <3>2. Behind(store, r) = {r} \cup Behind(store, store[r].prev)
      BY <1>1, <2>2, BehindPrev
    <3> QED
      BY <2>2, <3>1, <3>2
  <2> QED
    BY <2>1, <2>2
<1>4. \E f : f = [r \in Roots |-> Body(f, r)]
  <2>1. g = [r \in Roots |-> Body(g, r)]
    BY <1>3
  <2> HIDE DEF g
  <2> QED
    BY <2>1
<1>5. Visited = [r \in Roots |-> Body(Visited, r)]
  BY <1>4 DEF Visited
<1> HIDE DEF Body
<1>6. \A r \in Roots : Visited[r] = Body(Visited, r)
  BY <1>5
<1> DEFINE S == {n \in Nat : \A r \in Roots : r <= n => Visited[r] = Behind(store, r)}
<1>7. 0 \in S
  BY <1>1
<1>8. ASSUME NEW n \in Nat, n \in S PROVE n + 1 \in S
  <2> SUFFICES ASSUME NEW r \in Roots, r = n + 1 PROVE Visited[r] = Behind(store, r)
    <3>1. \A q \in Roots : q <= n + 1 => q <= n \/ q = n + 1
      BY <1>1
    <3> QED
      BY <1>8, <3>1
  <2>1. store[r].prev # Nil => Visited[store[r].prev] = g[store[r].prev]
    <3>1. store[r].prev # Nil => store[r].prev \in Roots /\ store[r].prev <= n
      BY <1>1, <1>2
    <3> QED
      BY <1>8, <3>1
  <2>2. Visited[r] = Body(g, r)
    BY <1>6, <2>1 DEF Body
  <2> QED
    BY <1>3, <2>2
<1>9. Nat \subseteq S
  BY <1>7, <1>8, Induct
<1> QED
  BY <1>1, <1>9

(* The line of memory, while no mishap happened (agent.ts:339-386).        *)
THEOREM AnchorInvariance == AnchorSpec => []AInv
  BY AnchorInitStep, AnchorNextStep, PTL DEF AnchorSpec

(* Every variable of memory anchoring keeps its type.                      *)
THEOREM AnchorTypes == AnchorSpec => []AnchorTypeOK
<1>1. AInv => AnchorTypeOK
  BY DEF AInv, AnchorBase
<1> QED
  BY AnchorInvariance, <1>1, PTL

(* Memory forks only through one of the mishaps: whatever crashes, uploads *)
(* or anchorings fail, the anchored roots are one line and every head      *)
(* continues it (agent.ts:339-386, snapshot.ts:70-112).                    *)
THEOREM LineageHolds == AnchorSpec => []LineageUnlessMishap
<1>1. AInv => LineageUnlessMishap
  <2> SUFFICES ASSUME AInv, mishaps = {} PROVE Lineage /\ HeadLeadsToAnchor
    BY DEF LineageUnlessMishap
  <2>1. AnchorBase /\ OneLine /\ AnchorTypeOK
    BY DEF AInv, AnchorBase
  <2>2. \A r \in Roots : Visited[r] = Behind(store, r)
    BY <2>1, VisitedIs
  <2>3. /\ DOMAIN anchored = 1 .. Len(anchored) /\ Len(anchored) \in Nat
        /\ \A i \in DOMAIN anchored : anchored[i] \in Roots /\ Sent[i] = anchored[i]
        /\ Len(anchored) <= Len(Sent)
    <3>1. anchored \in Seq(Roots) /\ mempool \in Seq(Roots)
      BY <2>1 DEF AnchorTypeOK
    <3>2. /\ Len(Sent) = Len(anchored) + Len(mempool)
          /\ \A i \in 1 .. Len(anchored) + Len(mempool) :
               Sent[i] = IF i <= Len(anchored) THEN anchored[i] ELSE mempool[i - Len(anchored)]
      BY <3>1, ConcatProperties DEF Sent
    <3> QED
      BY <3>1, <3>2
  <2>4. DOMAIN Sent = 1 .. Len(Sent) /\ Len(Sent) \in Nat
    BY <2>1, SentFacts
  <2>5. Lineage
    <3> SUFFICES ASSUME NEW i \in DOMAIN anchored, NEW j \in DOMAIN anchored, i < j
                 PROVE  anchored[i] \in Visited[anchored[j]]
      BY DEF Lineage
    <3>1. i \in DOMAIN Sent /\ j \in DOMAIN Sent
      BY <2>3, <2>4
    <3> QED
      BY <2>1, <2>2, <2>3, <3>1 DEF OneLine, Follows
  <2>6. HeadLeadsToAnchor
    <3> SUFFICES ASSUME head # Nil, anchored # <<>> PROVE OnChain \in Visited[head]
      BY DEF HeadLeadsToAnchor
    <3>1. head \in Roots
      BY <2>1 DEF AnchorTypeOK
    <3>2. /\ Len(anchored) \in DOMAIN anchored /\ OnChain = Sent[Len(anchored)]
          /\ Len(anchored) \in DOMAIN Sent
      <4>1. Len(anchored) # 0
        BY <2>1 DEF AnchorTypeOK
      <4> QED
        BY <2>3, <2>4, <4>1 DEF OnChain
    <3>3. Sent # <<>> /\ Tip = Sent[Len(Sent)] /\ Len(Sent) \in DOMAIN Sent
      <4>1. Len(Sent) # 0
        BY <2>3, <2>4, <3>2
      <4>2. Sent # <<>>
        BY <4>1
      <4> QED
        BY <2>4, <4>1, <4>2 DEF Tip
    <3>4. Tip \in Behind(store, head)
      BY <2>1, <3>3 DEF OneLine, HeadFollows
    <3>5. CASE Len(anchored) = Len(Sent)
      BY <2>2, <3>1, <3>2, <3>3, <3>4, <3>5
    <3>6. CASE Len(anchored) # Len(Sent)
      <4>1. Len(anchored) < Len(Sent)
        <5>1. Len(anchored) \in 1 .. Len(Sent) /\ Len(Sent) \in Nat
          BY <2>4, <3>2
        <5> HIDE DEF Sent
        <5> QED
          BY <3>6, <5>1
      <4>2. OnChain \in Behind(store, Tip)
        BY <2>1, <3>2, <3>3, <4>1 DEF OneLine, Follows
      <4> QED
        BY <2>2, <3>1, <3>4, <4>2, BehindTrans
    <3> QED
      BY <3>5, <3>6
  <2> QED
    BY <2>5, <2>6
<1> QED
  BY AnchorInvariance, <1>1, PTL
=============================================================================
