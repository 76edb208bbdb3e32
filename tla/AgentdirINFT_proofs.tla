------------------------ MODULE AgentdirINFT_proofs ------------------------
(***************************************************************************)
(* What an indexer of the iNFT contract may rely on, for any numbers of    *)
(* addresses and tokens, events and nested receiver hooks.                 *)
(*                                                                         *)
(* A hook that rejects returns the contract to an earlier storage, so the  *)
(* invariant is one of storages: the present one and each of those a       *)
(* running hook can return to are sound.                                   *)
(***************************************************************************)
EXTENDS AgentdirINFT, SequenceTheorems, TLAPS

Kinds == {"state", "pubkey", "uri", "transfer"}

(* The field of the storage whose changes the events of a kind announce.   *)
Field(c, kind) ==
  CASE kind = "state" -> c.stateRoot
    [] kind = "pubkey" -> c.axlPubkey
    [] kind = "uri" -> c.tokenURI
    [] kind = "transfer" -> c.owner

(* Nothing is said of a token that is not minted yet.                      *)
Fresh(c) == \A i \in DOMAIN c.log : c.log[i].token < c.nextId

Sound(c) ==
  /\ IdsDense(c)
  /\ Fresh(c)
  /\ Replayed(c)
  /\ History(c.log)

SoundStorages == {c \in Storages : Sound(c)}

Inv ==
  /\ chain \in SoundStorages
  /\ hooks \in Seq([receiver : Contracts, before : SoundStorages])

-----------------------------------------------------------------------------
(* Logs                                                                    *)

Extended(l2, l) == Len(l) <= Len(l2) /\ \A i \in 1 .. Len(l) : l2[i] = l[i]

(* What was said of an event stays true as the log grows.                  *)
LEMMA HistoryKept ==
  ASSUME NEW l \in Seq(Events), NEW l2 \in Seq(Events), Extended(l2, l), History(l),
         NEW i \in 1 .. Len(l)
  PROVE  LinkedAt(l2, i) /\ RotatedByOwnerAt(l2, i) /\ InitializedAt(l2, i)
<1>1. /\ Len(l) \in Nat /\ Len(l2) \in Nat /\ Len(l) <= Len(l2)
      /\ DOMAIN l = 1 .. Len(l) /\ DOMAIN l2 = 1 .. Len(l2)
      /\ \A k \in 1 .. Len(l) : l2[k] = l[k]
  BY LenProperties DEF Extended
<1>2. LinkedAt(l, i) /\ RotatedByOwnerAt(l, i) /\ InitializedAt(l, i)
  BY <1>1 DEF History
<1>3. \A k \in 1 .. i : k \in 1 .. Len(l) /\ k \in 1 .. Len(l2) /\ l2[k] = l[k]
  BY <1>1
<1>4. First(l2, i) <=> First(l, i)
  BY <1>1, <1>3 DEF First
<1>5. ASSUME NEW j \in DOMAIN l, NEW kind, Precedes(l, j, i, kind)
      PROVE  j \in DOMAIN l2 /\ Precedes(l2, j, i, kind) /\ l2[j] = l[j]
  BY <1>1, <1>3, <1>5 DEF Precedes
<1>6. LinkedAt(l2, i)
  BY <1>1, <1>2, <1>4, <1>5 DEF LinkedAt
<1>7. RotatedByOwnerAt(l2, i)
  BY <1>1, <1>2, <1>4, <1>5 DEF RotatedByOwnerAt
<1>8. InitializedAt(l2, i)
  BY <1>1, <1>2, <1>3 DEF InitializedAt
<1> QED
  BY <1>6, <1>7, <1>8

(* Events about something else leave what the log says of a field.         *)
LEMMA ReplaysKept ==
  ASSUME NEW l \in Seq(Events), NEW l2 \in Seq(Events), Extended(l2, l),
         NEW kind, NEW t, NEW value, Replays(l, kind, t, value),
         \A i \in Len(l) + 1 .. Len(l2) : ~IsAbout(l2[i], kind, t)
  PROVE  Replays(l2, kind, t, value)
<1>1. /\ Len(l) \in Nat /\ Len(l2) \in Nat /\ Len(l) <= Len(l2)
      /\ DOMAIN l = 1 .. Len(l) /\ DOMAIN l2 = 1 .. Len(l2)
      /\ \A k \in 1 .. Len(l) : l2[k] = l[k]
  BY LenProperties DEF Extended
<1>2. CASE value = Zero /\ \A i \in DOMAIN l : ~IsAbout(l[i], kind, t)
  BY <1>1, <1>2 DEF Replays
<1>3. ASSUME NEW i \in DOMAIN l, IsLast(l, i, kind, t), l[i].new = value
      PROVE  Replays(l2, kind, t, value)
  <2>1. i \in DOMAIN l2 /\ l2[i] = l[i]
    BY <1>1
  <2>2. IsLast(l2, i, kind, t)
    BY <1>1, <1>3, <2>1 DEF IsLast
  <2> QED
    BY <1>3, <2>1, <2>2 DEF Replays
<1> QED
  BY <1>2, <1>3 DEF Replays

(* What the log says of a field up to event m of that token.               *)
SaidBefore(log, m, kind, value) ==
  \/ value = Zero /\ \A j \in 1 .. m - 1 : ~IsAbout(log[j], kind, log[m].token)
  \/ \E j \in 1 .. m - 1 : Precedes(log, j, m, kind) /\ log[j].new = value

LEMMA LastSays ==
  ASSUME NEW l \in Seq(Events), NEW l2 \in Seq(Events), Extended(l2, l),
         NEW m, m = Len(l) + 1,
         NEW kind, NEW t, NEW value, Replays(l, kind, t, value), l2[m].token = t
  PROVE  SaidBefore(l2, m, kind, value)
<1>1. DOMAIN l = 1 .. m - 1 /\ m \in Nat /\ \A k \in 1 .. m - 1 : l2[k] = l[k]
  BY LenProperties DEF Extended
<1>2. ASSUME NEW j \in DOMAIN l, IsLast(l, j, kind, t)
      PROVE  Precedes(l2, j, m, kind) /\ l2[j] = l[j]
  BY <1>1, <1>2 DEF IsLast, Precedes
<1> QED
  BY <1>1, <1>2 DEF Replays, SaidBefore

LEMMA ReplayedMeans ==
  ASSUME NEW c
  PROVE  Replayed(c) <=>
           \A kind \in Kinds, t \in Tokens : Replays(c.log, kind, t, Field(c, kind)[t])
  BY DEF Replayed, Kinds, Field

-----------------------------------------------------------------------------
(* Calls of the contract                                                   *)

(* A call about an existing token that announces what it changes keeps the *)
(* storage sound.                                                          *)
LEMMA AnnouncedChange ==
  ASSUME NEW c \in Storages, Sound(c), NEW c2 \in Storages, NEW e \in Events,
         c2.log = Append(c.log, e), c2.nextId = c.nextId,
         e.token < c.nextId,
         \A kind \in Kinds, t \in Tokens :
           Field(c2, kind)[t] = IF IsAbout(e, kind, t) THEN e.new ELSE Field(c, kind)[t],
         \A t \in Tokens : c2.owner[t] # Zero <=> c.owner[t] # Zero,
         e.kind = "state" => e.old = c.stateRoot[e.token] /\ e.by = c.owner[e.token]
  PROVE  Sound(c2)
<1> DEFINE l == c.log
           l2 == c2.log
           n == Len(c.log)
           x == e.token
<1>1. l \in Seq(Events) /\ l2 \in Seq(Events) /\ x \in Tokens /\ e.kind \in Kinds
  BY DEF Storages, Events, Kinds
<1>2. /\ n \in Nat /\ Len(l) = n /\ Len(l2) = n + 1 /\ l2[n + 1] = e
      /\ DOMAIN l = 1 .. n /\ DOMAIN l2 = 1 .. n + 1
      /\ \A i \in 1 .. n : l2[i] = l[i]
  BY <1>1, AppendProperties, LenProperties
<1>3. c.owner[x] # Zero
  BY <1>1 DEF Sound, IdsDense
<1>4. /\ Replays(l, "state", x, c.stateRoot[x]) /\ Replays(l, "transfer", x, c.owner[x])
      /\ History(l)
  BY <1>1 DEF Sound, Replayed
<1>5. \A kind \in Kinds, t \in Tokens : Replays(l, kind, t, Field(c, kind)[t])
  BY ReplayedMeans DEF Sound
<1>6. IdsDense(c2) /\ Fresh(c2)
  <2>1. \A i \in 1 .. n : l[i].token < c.nextId
    BY <1>2 DEF Sound, Fresh
  <2>2. \A i \in 1 .. n + 1 : l2[i].token < c.nextId
    BY <1>2, <2>1
  <2> QED
    BY <1>2, <2>2 DEF Sound, IdsDense, Fresh
<1> HIDE DEF l, l2, n, x
<1>7. Extended(l2, l)
  BY <1>2 DEF Extended
<1>8. Replayed(c2)
  <2> SUFFICES ASSUME NEW kind \in Kinds, NEW t \in Tokens
               PROVE  Replays(l2, kind, t, Field(c2, kind)[t])
    BY ReplayedMeans DEF l2
  <2>1. CASE IsAbout(e, kind, t)
    <3>1. IsLast(l2, n + 1, kind, t)
      BY <1>2, <2>1 DEF IsLast
    <3> QED
      BY <1>2, <2>1, <3>1 DEF Replays
  <2>2. CASE ~IsAbout(e, kind, t)
    <3>1. \A i \in n + 1 .. n + 1 : ~IsAbout(l2[i], kind, t)
      BY <1>2, <2>2
    <3>2. Field(c2, kind)[t] = Field(c, kind)[t]
      BY <2>2
    <3> QED
      BY <1>1, <1>2, <1>5, <1>7, <3>1, <3>2, ReplaysKept
  <2> QED
    BY <2>1, <2>2
<1>9. ASSUME NEW kind, NEW value, Replays(l, kind, x, value)
      PROVE  \/ value = Zero /\ \A j \in 1 .. n : ~IsAbout(l2[j], kind, x)
             \/ \E j \in 1 .. n : Precedes(l2, j, n + 1, kind) /\ l2[j].new = value
  <2> DEFINE m == n + 1
  <2>1. m = Len(l) + 1 /\ l2[m].token = x /\ m - 1 = n
    BY <1>2 DEF x
  <2> HIDE DEF m
  <2>2. SaidBefore(l2, m, kind, value)
    BY <1>1, <1>7, <1>9, <2>1, LastSays
  <2> QED
    BY <2>1, <2>2 DEF SaidBefore, m
<1>10. \E j \in 1 .. n : Precedes(l2, j, n + 1, "transfer") /\ l2[j].new = c.owner[x]
  BY <1>3, <1>4, <1>9
<1>11. LinkedAt(l2, n + 1)
  <2>1. SUFFICES ASSUME e.kind = "state" PROVE LinkedAt(l2, n + 1)
    BY <1>2 DEF LinkedAt
  <2>2. e.old = c.stateRoot[x]
    BY <2>1 DEF x
  <2>3. \/ e.old = Zero /\ \A j \in 1 .. n : ~IsAbout(l2[j], "state", x)
        \/ \E j \in 1 .. n : Precedes(l2, j, n + 1, "state") /\ l2[j].new = e.old
    BY <1>4, <1>9, <2>2
  <2>4. (\A j \in 1 .. n : ~IsAbout(l2[j], "state", x)) => First(l2, n + 1)
    BY <1>2, <2>1 DEF First, x
  <2> QED
    BY <1>2, <2>3, <2>4 DEF LinkedAt
<1>12. RotatedByOwnerAt(l2, n + 1)
  <2>1. e.kind = "state" => e.by = c.owner[x]
    BY DEF x
  <2> QED
    BY <1>2, <1>10, <2>1 DEF RotatedByOwnerAt
<1>13. InitializedAt(l2, n + 1)
  <2>1. PICK j \in 1 .. n : Precedes(l2, j, n + 1, "transfer")
    BY <1>10
  <2>2. IsAbout(l[j], "transfer", x) /\ InitializedAt(l, j)
    BY <1>2, <1>4, <2>1 DEF Precedes, History, x
  <2>3. \A kind \in {"pubkey", "state", "uri"} : \E k \in 1 .. j - 1 : IsAbout(l[k], kind, x)
    BY <2>2 DEF InitializedAt, IsAbout
  <2>4. \A k \in 1 .. j - 1 : k \in 1 .. n /\ l2[k] = l[k]
    BY <1>2
  <2>5. \A kind \in {"pubkey", "state", "uri"} : \E k \in 1 .. n : IsAbout(l2[k], kind, x)
    BY <2>3, <2>4
  <2> QED
    BY <1>2, <2>5 DEF InitializedAt, x
<1>14. History(l2)
  <2>1. \A i \in 1 .. n : LinkedAt(l2, i) /\ RotatedByOwnerAt(l2, i) /\ InitializedAt(l2, i)
    BY <1>1, <1>2, <1>4, <1>7, HistoryKept
  <2>2. \A i \in 1 .. n + 1 : i \in 1 .. n \/ i = n + 1
    BY <1>2
  <2> QED
    BY <1>2, <1>11, <1>12, <1>13, <2>1, <2>2 DEF History
<1> QED
  BY <1>6, <1>8, <1>14 DEF Sound, l2

(* The four events of a mint, and what is stored with them.                *)
Announces(c, c2, t, e1, e2, e3, e4) ==
  /\ t = c.nextId /\ c2.nextId = t + 1
  /\ c2.log = c.log \o <<e1, e2, e3, e4>>
  /\ e1.kind = "pubkey" /\ e2.kind = "state" /\ e3.kind = "uri" /\ e4.kind = "transfer"
  /\ e1.token = t /\ e2.token = t /\ e3.token = t /\ e4.token = t
  /\ e2.old = Zero /\ e4.new # Zero
  /\ e1.new = c2.axlPubkey[t] /\ e2.new = c2.stateRoot[t] /\ e3.new = c2.tokenURI[t]
  /\ e4.new = c2.owner[t]
  /\ \A kind \in Kinds, u \in Tokens : u # t => Field(c2, kind)[u] = Field(c, kind)[u]

(* A mint announces every field of a token nothing was said of.            *)
LEMMA MintedToken ==
  ASSUME NEW c \in Storages, Sound(c), NEW c2 \in Storages, NEW t \in Tokens,
         NEW e1 \in Events, NEW e2 \in Events, NEW e3 \in Events, NEW e4 \in Events,
         Announces(c, c2, t, e1, e2, e3, e4)
  PROVE  Sound(c2)
<1> USE DEF Announces
<1> DEFINE l == c.log
           l2 == c2.log
           n == Len(c.log)
<1>1. l \in Seq(Events) /\ l2 \in Seq(Events)
  BY DEF Storages
<1>2. /\ n \in Nat /\ Len(l) = n /\ Len(l2) = n + 4
      /\ l2[n + 1] = e1 /\ l2[n + 2] = e2 /\ l2[n + 3] = e3 /\ l2[n + 4] = e4
      /\ DOMAIN l = 1 .. n /\ DOMAIN l2 = 1 .. n + 4
      /\ \A i \in 1 .. n : l2[i] = l[i]
  <2> DEFINE s == <<e1, e2, e3, e4>>
  <2>1. s \in Seq(Events) /\ Len(s) = 4 /\ s[1] = e1 /\ s[2] = e2 /\ s[3] = e3 /\ s[4] = e4
    OBVIOUS
  <2> HIDE DEF s
  <2>2. c.log \in Seq(Events) /\ c2.log = c.log \o s
    BY <1>1 DEF s
  <2>3. /\ Len(c.log \o s) = n + 4 /\ n \in Nat
        /\ \A i \in 1 .. n + 4 : (c.log \o s)[i] = IF i <= n THEN c.log[i] ELSE s[i - n]
    BY <2>1, <2>2, ConcatProperties, LenProperties
  <2>4. DOMAIN l = 1 .. n /\ DOMAIN l2 = 1 .. n + 4
    BY <1>1, <2>2, <2>3, LenProperties
  <2>5. \A i \in 1 .. n : l2[i] = l[i]
    BY <2>2, <2>3
  <2>6. l2[n + 1] = s[1] /\ l2[n + 2] = s[2] /\ l2[n + 3] = s[3] /\ l2[n + 4] = s[4]
    BY <2>2, <2>3
  <2>7. n \in Nat /\ Len(l) = n /\ Len(l2) = n + 4
    BY <2>2, <2>3
  <2> HIDE DEF l, l2, n
  <2> QED
    BY <2>1, <2>4, <2>5, <2>6, <2>7
<1>3. \A i \in 1 .. n : l[i].token < t /\ l[i].token # t
  <2>1. \A i \in 1 .. n : l[i] \in Events
    BY <1>1, <1>2, ElementOfSeq
  <2>2. \A i \in 1 .. n : l[i].token \in Tokens /\ l[i].token < c.nextId
    BY <1>2, <2>1 DEF Sound, Fresh, Events
  <2>3. \A u \in Tokens : u < t => u # t
    BY InftAssumption DEF Tokens
  <2> QED
    BY <2>2, <2>3
<1>4. /\ \A u \in Tokens : c.owner[u] # Zero <=> u < t
      /\ \A u \in Tokens : u # t => c2.owner[u] = c.owner[u]
      /\ c2.owner[t] # Zero
  <2>1. \A u \in Tokens : c.owner[u] # Zero <=> u < t
    BY DEF Sound, IdsDense
  <2>2. Field(c, "transfer") = c.owner /\ Field(c2, "transfer") = c2.owner
    BY DEF Field
  <2>3. "transfer" \in Kinds
    BY DEF Kinds
  <2> QED
    BY <2>1, <2>2, <2>3
<1>5. IdsDense(c2)
  <2>1. \A u \in Tokens : u < t + 1 <=> u < t \/ u = t
    BY InftAssumption DEF Tokens
  <2> QED
    BY <1>4, <2>1 DEF IdsDense
<1>6. \A kind \in Kinds, u \in Tokens : Replays(l, kind, u, Field(c, kind)[u])
  BY ReplayedMeans DEF Sound
<1>7. History(l)
  BY DEF Sound
<1> HIDE DEF l, l2, n
<1>8. Fresh(c2)
  <2>1. \A i \in 1 .. n + 4 : i \in 1 .. n \/ i \in {n + 1, n + 2, n + 3, n + 4}
    BY <1>2
  <2>2. \A i \in 1 .. n : l2[i].token < t + 1
    <3>1. \A i \in 1 .. n : l[i].token \in Tokens
      <4>1. \A i \in 1 .. n : l[i] \in Events
        BY <1>1, <1>2, ElementOfSeq
      <4> QED
        BY <4>1 DEF Events
    <3>2. \A u \in Tokens : u < t => u < t + 1
      BY InftAssumption DEF Tokens
    <3> QED
      BY <1>2, <1>3, <3>1, <3>2
  <2>3. t < t + 1
    BY InftAssumption DEF Tokens
  <2>4. \A i \in 1 .. n + 4 : l2[i].token < t + 1
    BY <1>2, <2>1, <2>2, <2>3
  <2> QED
    BY <1>2, <2>4 DEF Fresh, l2
<1>9. Extended(l2, l)
  BY <1>2 DEF Extended
<1>10. \A i \in n + 1 .. n + 4 :
         i = n + 1 \/ i = n + 2 \/ i = n + 3 \/ i = n + 4
  BY <1>2
<1>11. Replayed(c2)
  <2> SUFFICES ASSUME NEW kind \in Kinds, NEW u \in Tokens
               PROVE  Replays(l2, kind, u, Field(c2, kind)[u])
    BY ReplayedMeans DEF l2
  <2>1. CASE u # t
    <3>1. \A i \in n + 1 .. n + 4 : ~IsAbout(l2[i], kind, u)
      BY <1>2, <1>10, <2>1 DEF IsAbout
    <3>2. Field(c2, kind)[u] = Field(c, kind)[u]
      BY <2>1
    <3> QED
      BY <1>1, <1>2, <1>6, <1>9, <3>1, <3>2, ReplaysKept
  <2>2. CASE u = t
    <3>1. ASSUME NEW i \in {n + 1, n + 2, n + 3, n + 4}, l2[i].kind = kind,
                 \A j \in {n + 1, n + 2, n + 3, n + 4} : j # i => l2[j].kind # kind,
                 l2[i].new = Field(c2, kind)[t]
          PROVE  Replays(l2, kind, t, Field(c2, kind)[t])
      <4>1. i \in DOMAIN l2 /\ \A j \in DOMAIN l2 : j > i => j # i /\ j \in n + 1 .. n + 4
        BY <1>2, <3>1
      <4>2. IsAbout(l2[i], kind, t)
        BY <1>2, <3>1 DEF IsAbout
      <4>3. IsLast(l2, i, kind, t)
        BY <1>10, <3>1, <4>1, <4>2 DEF IsLast, IsAbout
      <4> QED
        BY <3>1, <4>1, <4>3 DEF Replays
    <3>2. /\ Field(c2, "pubkey")[t] = e1.new /\ Field(c2, "state")[t] = e2.new
          /\ Field(c2, "uri")[t] = e3.new /\ Field(c2, "transfer")[t] = e4.new
      BY DEF Field
    <3>3. CASE kind = "pubkey"
      BY <1>2, <2>2, <3>1, <3>2, <3>3
    <3>4. CASE kind = "state"
      BY <1>2, <2>2, <3>1, <3>2, <3>4
    <3>5. CASE kind = "uri"
      BY <1>2, <2>2, <3>1, <3>2, <3>5
    <3>6. CASE kind = "transfer"
      BY <1>2, <2>2, <3>1, <3>2, <3>6
    <3> QED
      BY <3>3, <3>4, <3>5, <3>6 DEF Kinds
  <2> QED
    BY <2>1, <2>2
<1>12. \A i \in n + 1 .. n + 4 :
         LinkedAt(l2, i) /\ RotatedByOwnerAt(l2, i) /\ InitializedAt(l2, i)
  <2>1. First(l2, n + 2)
    <3>1. \A j \in 1 .. n + 1 : j \in 1 .. n \/ j = n + 1
      BY <1>2
    <3>2. \A j \in 1 .. n + 1 : ~IsAbout(l2[j], "state", t)
      <4>1. ~IsAbout(l2[n + 1], "state", t)
        BY <1>2 DEF IsAbout
      <4>2. \A j \in 1 .. n : ~IsAbout(l2[j], "state", t)
        BY <1>2, <1>3 DEF IsAbout
      <4> QED
        BY <3>1, <4>1, <4>2
    <3> QED
      BY <1>2, <3>2 DEF First
  <2>2. LinkedAt(l2, n + 2) /\ RotatedByOwnerAt(l2, n + 2)
    BY <1>2, <2>1 DEF LinkedAt, RotatedByOwnerAt
  <2>3. InitializedAt(l2, n + 4)
    <3>1. /\ n + 1 \in 1 .. (n + 4) - 1 /\ n + 2 \in 1 .. (n + 4) - 1 /\ n + 3 \in 1 .. (n + 4) - 1
          /\ IsAbout(l2[n + 1], "pubkey", t) /\ IsAbout(l2[n + 2], "state", t)
          /\ IsAbout(l2[n + 3], "uri", t)
      BY <1>2 DEF IsAbout
    <3> QED
      BY <1>2, <3>1 DEF InitializedAt
  <2>4. ASSUME NEW i \in {n + 1, n + 3, n + 4}
        PROVE  LinkedAt(l2, i) /\ RotatedByOwnerAt(l2, i)
    BY <1>2 DEF LinkedAt, RotatedByOwnerAt
  <2>5. ASSUME NEW i \in {n + 1, n + 2, n + 3}
        PROVE  InitializedAt(l2, i)
    BY <1>2 DEF InitializedAt
  <2> QED
    BY <1>10, <2>2, <2>3, <2>4, <2>5
<1>13. History(l2)
  <2>1. \A i \in 1 .. n : LinkedAt(l2, i) /\ RotatedByOwnerAt(l2, i) /\ InitializedAt(l2, i)
    BY <1>1, <1>2, <1>7, <1>9, HistoryKept
  <2>2. \A i \in 1 .. n + 4 : i \in 1 .. n \/ i \in n + 1 .. n + 4
    BY <1>2
  <2> QED
    BY <1>2, <1>12, <2>1, <2>2 DEF History
<1> QED
  BY <1>5, <1>8, <1>11, <1>13 DEF Sound, l2

-----------------------------------------------------------------------------
(* Steps                                                                   *)

(* The parts of a storage.                                                 *)
LEMMA StorageParts ==
  ASSUME chain \in SoundStorages
  PROVE  /\ chain \in Storages /\ Sound(chain)
         /\ chain.nextId \in Nat /\ chain.log \in Seq(Events)
         /\ chain.admin \in Addresses \cup {Zero}
         /\ chain.owner \in [Tokens -> Addresses \cup {Zero}]
         /\ chain.approved \in [Tokens -> Addresses \cup {Zero}]
         /\ chain.stateRoot \in [Tokens -> Roots \cup {Zero}]
         /\ chain.axlPubkey \in [Tokens -> Keys \cup {Zero}]
         /\ chain.tokenURI \in [Tokens -> Uris \cup {Zero}]
         /\ \A t \in Tokens : Exists(t) => t < chain.nextId
  BY DEF SoundStorages, Storages, Sound, IdsDense, Exists

LEMMA MintStep ==
  ASSUME chain \in SoundStorages, NEW s \in Senders, NEW to \in Addresses, NEW k \in Keys,
         NEW r \in Roots \cup {Zero}, NEW u \in Uris, Mint(s, to, k, r, u)
  PROVE  chain' \in SoundStorages
<1> DEFINE t == chain.nextId
           e1 == Event("pubkey", t, Zero, k, Zero)
           e2 == Event("state", t, Zero, r, to)
           e3 == Event("uri", t, Zero, u, Zero)
           e4 == Event("transfer", t, Zero, to, Zero)
           es == <<e1, e2, e3, e4>>
<1>1. /\ t \in Tokens
      /\ chain' = [chain EXCEPT
           !.nextId = t + 1,
           !.axlPubkey[t] = k, !.stateRoot[t] = r, !.tokenURI[t] = u,
           !.owner[t] = to,
           !.log = @ \o es]
  BY DEF Mint
<1>2. t = chain.nextId
  OBVIOUS
<1> HIDE DEF t
<1>3. /\ e1 \in Events /\ e2 \in Events /\ e3 \in Events /\ e4 \in Events
      /\ e1.kind = "pubkey" /\ e2.kind = "state" /\ e3.kind = "uri" /\ e4.kind = "transfer"
      /\ e1.token = t /\ e2.token = t /\ e3.token = t /\ e4.token = t
      /\ e2.old = Zero /\ e1.new = k /\ e2.new = r /\ e3.new = u /\ e4.new = to
  <2>1. t \in Tokens
    BY <1>1
  <2>2. e1 \in Events /\ e1.kind = "pubkey" /\ e1.token = t /\ e1.new = k
    BY <2>1 DEF Event, Events
  <2>3. e2 \in Events /\ e2.kind = "state" /\ e2.token = t /\ e2.old = Zero /\ e2.new = r
    BY <2>1 DEF Event, Events
  <2>4. e3 \in Events /\ e3.kind = "uri" /\ e3.token = t /\ e3.new = u
    BY <2>1 DEF Event, Events
  <2>5. e4 \in Events /\ e4.kind = "transfer" /\ e4.token = t /\ e4.new = to
    BY <2>1 DEF Event, Events
  <2> QED
    BY <2>2, <2>3, <2>4, <2>5
<1> HIDE DEF e1, e2, e3, e4
<1>4. es \in Seq(Events)
  BY <1>3
<1>5. chain.log \o es \in Seq(Events)
  BY <1>4, StorageParts, ConcatProperties
<1> HIDE DEF es
<1>61. chain \in Storages
  BY StorageParts
<1>6. chain'.nextId = t + 1
  BY <1>1, <1>61 DEF Storages
<1>60. chain'.log = chain.log \o es
  BY <1>1, <1>61 DEF Storages
<1>7. chain' \in Storages
  <2>1. t \in Tokens /\ t + 1 \in Nat
    BY <1>1 DEF Tokens
  <2> DEFINE c1 == [chain EXCEPT !.nextId = t + 1]
             c2 == [c1 EXCEPT !.axlPubkey[t] = k]
             c3 == [c2 EXCEPT !.stateRoot[t] = r]
             c4 == [c3 EXCEPT !.tokenURI[t] = u]
             c5 == [c4 EXCEPT !.owner[t] = to]
             c6 == [c5 EXCEPT !.log = chain.log \o es]
  <2>2. c1 \in Storages /\ c1.log = chain.log
    BY <2>1, <1>61 DEF Storages
  <2> HIDE DEF c1
  <2>3. c2 \in Storages /\ c2.log = chain.log
    BY <2>2 DEF Storages
  <2> HIDE DEF c2
  <2>4. c3 \in Storages /\ c3.log = chain.log
    BY <2>3 DEF Storages
  <2> HIDE DEF c3
  <2>5. c4 \in Storages /\ c4.log = chain.log
    BY <2>4 DEF Storages
  <2> HIDE DEF c4
  <2>6. c5 \in Storages /\ c5.log = chain.log
    BY <2>5 DEF Storages, Senders
  <2> HIDE DEF c5
  <2>7. c6 \in Storages
    BY <2>6, <1>5 DEF Storages
  <2>8. chain' = [c5 EXCEPT !.log = @ \o es]
    BY <1>1 DEF c1, c2, c3, c4, c5
  <2> QED
    BY <2>6, <2>7, <2>8
<1>8. to # Zero
  BY InftAssumption
<1>9. /\ chain'.axlPubkey[t] = k /\ chain'.stateRoot[t] = r /\ chain'.tokenURI[t] = u
      /\ chain'.owner[t] = to
      /\ \A v \in Tokens : v # t => /\ chain'.axlPubkey[v] = chain.axlPubkey[v]
                                    /\ chain'.stateRoot[v] = chain.stateRoot[v]
                                    /\ chain'.tokenURI[v] = chain.tokenURI[v]
                                    /\ chain'.owner[v] = chain.owner[v]
  <2>1. chain \in Storages
    BY StorageParts
  <2>2. chain'.axlPubkey[t] = k /\ \A v \in Tokens : v # t => chain'.axlPubkey[v] = chain.axlPubkey[v]
    BY <1>1, <2>1 DEF Storages
  <2>3. chain'.stateRoot[t] = r /\ \A v \in Tokens : v # t => chain'.stateRoot[v] = chain.stateRoot[v]
    BY <1>1, <2>1 DEF Storages
  <2>4. chain'.tokenURI[t] = u /\ \A v \in Tokens : v # t => chain'.tokenURI[v] = chain.tokenURI[v]
    BY <1>1, <2>1 DEF Storages
  <2>5. chain'.owner[t] = to /\ \A v \in Tokens : v # t => chain'.owner[v] = chain.owner[v]
    BY <1>1, <2>1 DEF Storages
  <2> QED
    BY <2>2, <2>3, <2>4, <2>5
<1>10. \A kind \in Kinds, v \in Tokens : v # t => Field(chain', kind)[v] = Field(chain, kind)[v]
  BY <1>9 DEF Kinds, Field
<1>11. Sound(chain')
  <2>1. chain'.log = chain.log \o <<e1, e2, e3, e4>>
    BY <1>60 DEF es
  <2>2. Announces(chain, chain', t, e1, e2, e3, e4)
    BY <2>1, <1>2, <1>3, <1>6, <1>8, <1>9, <1>10 DEF Announces
  <2>3. t \in Tokens
    BY <1>1
  <2>4. chain \in Storages /\ Sound(chain)
    BY StorageParts
  <2>5. e1 \in Events /\ e2 \in Events /\ e3 \in Events /\ e4 \in Events
    BY <1>3
  <2> QED
    BY <1>7, <2>2, <2>3, <2>4, <2>5, MintedToken
<1> QED
  BY <1>7, <1>11 DEF SoundStorages

(* A setter of the owner, announced by one event.                          *)
LEMMA SetterStep ==
  ASSUME chain \in SoundStorages, NEW s \in Senders, NEW t \in Tokens,
         \/ \E r \in Roots \cup {Zero} : SetAgentStateRoot(s, t, r)
         \/ \E k \in Keys : SetAgentAxlPubkey(s, t, k)
         \/ \E u \in Uris : SetTokenURI(s, t, u)
  PROVE  chain' \in SoundStorages
<1>1. t < chain.nextId /\ s = chain.owner[t] /\ s \in Addresses
  <2>1. Exists(t) /\ s = chain.owner[t]
    BY DEF SetAgentStateRoot, SetAgentAxlPubkey, SetTokenURI
  <2> QED
    BY <2>1, StorageParts DEF Exists
<1>2. ASSUME NEW r \in Roots \cup {Zero}, SetAgentStateRoot(s, t, r)
      PROVE  chain' \in SoundStorages
  <2> DEFINE e == Event("state", t, chain.stateRoot[t], r, s)
  <2>1. /\ e \in Events /\ e.kind = "state" /\ e.token = t
        /\ e.old = chain.stateRoot[t] /\ e.new = r /\ e.by = s
    <3>1. chain.stateRoot[t] \in Roots \cup {Zero}
      BY StorageParts
    <3> QED
      BY <1>1, <3>1 DEF Event, Events
  <2>2. chain' = [chain EXCEPT !.stateRoot[t] = r, !.log = Append(@, e)]
    BY <1>2 DEF SetAgentStateRoot
  <2> HIDE DEF e
  <2>3. Append(chain.log, e) \in Seq(Events)
    BY <2>1, StorageParts, AppendProperties
  <2>4. /\ chain' \in Storages
        /\ chain'.log = Append(chain.log, e) /\ chain'.nextId = chain.nextId
        /\ chain'.stateRoot = [chain.stateRoot EXCEPT ![t] = r]
        /\ chain'.axlPubkey = chain.axlPubkey /\ chain'.tokenURI = chain.tokenURI
        /\ chain'.owner = chain.owner
    BY <2>2, <2>3, StorageParts DEF Storages
  <2>5. \A kind \in Kinds, v \in Tokens :
          Field(chain', kind)[v] = IF IsAbout(e, kind, v) THEN e.new ELSE Field(chain, kind)[v]
    BY <2>1, <2>4, StorageParts DEF Kinds, Field, IsAbout
  <2>6. Sound(chain')
    BY <1>1, <2>1, <2>4, <2>5, StorageParts, AnnouncedChange
  <2> QED
    BY <2>4, <2>6 DEF SoundStorages
<1>3. ASSUME NEW k \in Keys, SetAgentAxlPubkey(s, t, k)
      PROVE  chain' \in SoundStorages
  <2> DEFINE e == Event("pubkey", t, Zero, k, Zero)
  <2>1. e \in Events /\ e.kind = "pubkey" /\ e.token = t /\ e.new = k
    BY DEF Event, Events
  <2>2. chain' = [chain EXCEPT !.axlPubkey[t] = k, !.log = Append(@, e)]
    BY <1>3 DEF SetAgentAxlPubkey
  <2> HIDE DEF e
  <2>3. Append(chain.log, e) \in Seq(Events)
    BY <2>1, StorageParts, AppendProperties
  <2>4. /\ chain' \in Storages
        /\ chain'.log = Append(chain.log, e) /\ chain'.nextId = chain.nextId
        /\ chain'.axlPubkey = [chain.axlPubkey EXCEPT ![t] = k]
        /\ chain'.stateRoot = chain.stateRoot /\ chain'.tokenURI = chain.tokenURI
        /\ chain'.owner = chain.owner
    BY <2>2, <2>3, StorageParts DEF Storages
  <2>5. \A kind \in Kinds, v \in Tokens :
          Field(chain', kind)[v] = IF IsAbout(e, kind, v) THEN e.new ELSE Field(chain, kind)[v]
    BY <2>1, <2>4, StorageParts DEF Kinds, Field, IsAbout
  <2>6. Sound(chain')
    BY <1>1, <2>1, <2>4, <2>5, StorageParts, AnnouncedChange
  <2> QED
    BY <2>4, <2>6 DEF SoundStorages
<1>4. ASSUME NEW u \in Uris, SetTokenURI(s, t, u)
      PROVE  chain' \in SoundStorages
  <2> DEFINE e == Event("uri", t, Zero, u, Zero)
  <2>1. e \in Events /\ e.kind = "uri" /\ e.token = t /\ e.new = u
    BY DEF Event, Events
  <2>2. chain' = [chain EXCEPT !.tokenURI[t] = u, !.log = Append(@, e)]
    BY <1>4 DEF SetTokenURI
  <2> HIDE DEF e
  <2>3. Append(chain.log, e) \in Seq(Events)
    BY <2>1, StorageParts, AppendProperties
  <2>4. /\ chain' \in Storages
        /\ chain'.log = Append(chain.log, e) /\ chain'.nextId = chain.nextId
        /\ chain'.tokenURI = [chain.tokenURI EXCEPT ![t] = u]
        /\ chain'.stateRoot = chain.stateRoot /\ chain'.axlPubkey = chain.axlPubkey
        /\ chain'.owner = chain.owner
    BY <2>2, <2>3, StorageParts DEF Storages
  <2>5. \A kind \in Kinds, v \in Tokens :
          Field(chain', kind)[v] = IF IsAbout(e, kind, v) THEN e.new ELSE Field(chain, kind)[v]
    BY <2>1, <2>4, StorageParts DEF Kinds, Field, IsAbout
  <2>6. Sound(chain')
    BY <1>1, <2>1, <2>4, <2>5, StorageParts, AnnouncedChange
  <2> QED
    BY <2>4, <2>6 DEF SoundStorages
<1> QED
  BY <1>2, <1>3, <1>4

LEMMA TransferStep ==
  ASSUME chain \in SoundStorages, NEW s \in Senders, NEW t \in Tokens, NEW to \in Addresses,
         NEW safe \in BOOLEAN, Transfer(s, t, to, safe)
  PROVE  chain' \in SoundStorages
<1> DEFINE e == Event("transfer", t, chain.owner[t], to, Zero)
<1>1. t < chain.nextId /\ chain.owner[t] # Zero /\ to # Zero
  BY StorageParts, InftAssumption DEF Transfer, Exists
<1>2. e \in Events /\ e.kind = "transfer" /\ e.token = t /\ e.new = to
  <2>1. chain.owner[t] \in Addresses \cup {Zero}
    BY StorageParts
  <2> QED
    BY <2>1 DEF Event, Events
<1>3. chain' = [chain EXCEPT !.owner[t] = to, !.approved[t] = Zero, !.log = Append(@, e)]
  BY DEF Transfer
<1> HIDE DEF e
<1>4. Append(chain.log, e) \in Seq(Events)
  BY <1>2, StorageParts, AppendProperties
<1>5. /\ chain' \in Storages
      /\ chain'.log = Append(chain.log, e) /\ chain'.nextId = chain.nextId
      /\ chain'.owner = [chain.owner EXCEPT ![t] = to]
      /\ chain'.stateRoot = chain.stateRoot /\ chain'.axlPubkey = chain.axlPubkey
      /\ chain'.tokenURI = chain.tokenURI
  BY <1>3, <1>4, StorageParts DEF Storages
<1>6. \A kind \in Kinds, v \in Tokens :
        Field(chain', kind)[v] = IF IsAbout(e, kind, v) THEN e.new ELSE Field(chain, kind)[v]
  BY <1>2, <1>5, StorageParts DEF Kinds, Field, IsAbout
<1>7. \A v \in Tokens : chain'.owner[v] # Zero <=> chain.owner[v] # Zero
  BY <1>1, <1>5, StorageParts
<1>8. Sound(chain')
  BY <1>1, <1>2, <1>5, <1>6, <1>7, StorageParts, AnnouncedChange
<1> QED
  BY <1>5, <1>8 DEF SoundStorages

(* Approvals and the contract's own owner are announced by none of the     *)
(* events.                                                                 *)
LEMMA UnannouncedStep ==
  ASSUME chain \in SoundStorages, NEW s \in Senders,
         \/ \E t \in Tokens, to \in Addresses : Approve(s, t, to)
         \/ \E to \in Addresses : TransferOwnership(s, to)
         \/ RenounceOwnership(s)
  PROVE  chain' \in SoundStorages
<1>1. /\ chain' \in Storages
      /\ chain'.log = chain.log /\ chain'.nextId = chain.nextId
      /\ chain'.owner = chain.owner /\ chain'.stateRoot = chain.stateRoot
      /\ chain'.axlPubkey = chain.axlPubkey /\ chain'.tokenURI = chain.tokenURI
  BY StorageParts DEF Storages, Approve, TransferOwnership, RenounceOwnership
<1>2. Sound(chain')
  BY <1>1, StorageParts DEF Sound, IdsDense, Fresh, Replayed
<1> QED
  BY <1>1, <1>2 DEF SoundStorages

(* A hook keeps the storage its call started from.                         *)
LEMMA HookKept ==
  ASSUME Inv, NEW to, UNCHANGED hooks \/ CallHook(to)
  PROVE  hooks' \in Seq([receiver : Contracts, before : SoundStorages])
<1>1. CASE UNCHANGED hooks
  BY <1>1 DEF Inv
<1>2. CASE CallHook(to) /\ to \in Contracts
  <2>1. [receiver |-> to, before |-> chain] \in [receiver : Contracts, before : SoundStorages]
    BY <1>2 DEF Inv
  <2> QED
    <3>1. hooks' = Append(hooks, [receiver |-> to, before |-> chain])
      BY <1>2 DEF CallHook
    <3> QED
      BY <2>1, <3>1, AppendProperties DEF Inv
<1> QED
  BY <1>1, <1>2 DEF CallHook

LEMMA HookEnds ==
  ASSUME Inv, HookAccepts \/ HookRejects
  PROVE  Inv'
<1> DEFINE H == [receiver : Contracts, before : SoundStorages]
<1>1. hooks \in Seq(H) /\ hooks # <<>> /\ hooks' = SubSeq(hooks, 1, Len(hooks) - 1)
  BY DEF Inv, HookAccepts, HookRejects
<1> HIDE DEF H
<1>2. Len(hooks) \in Nat /\ Len(hooks) >= 1 /\ \A i \in 1 .. Len(hooks) : hooks[i] \in H
  BY <1>1, EmptySeq, LenProperties, ElementOfSeq
<1>3. hooks' \in Seq(H)
  BY <1>1, <1>2, SubSeqProperties
<1>4. hooks[Len(hooks)] \in H
  BY <1>2
<1>5. chain' \in SoundStorages
  BY <1>4 DEF H, Inv, HookAccepts, HookRejects
<1> QED
  BY <1>3, <1>5 DEF H, Inv

LEMMA InitSound ==
  ASSUME Init
  PROVE  Inv
<1>1. chain \in Storages /\ chain.log = <<>> /\ chain.nextId = 1
  BY DEF Init, Storages
<1>2. IdsDense(chain) /\ Replayed(chain)
  <2>1. \A t \in Tokens : ~(t < 1)
    BY InftAssumption DEF Tokens
  <2> QED
    BY <2>1 DEF Init, IdsDense, Replayed, Replays
<1>3. Fresh(chain) /\ History(chain.log)
  BY <1>1 DEF Fresh, History
<1>4. hooks \in Seq([receiver : Contracts, before : SoundStorages])
  BY EmptySeq DEF Init
<1> QED
  BY <1>1, <1>2, <1>3, <1>4 DEF Inv, SoundStorages, Sound

(* The storage, and every storage a running hook can return to, is sound:  *)
(* nothing is said of tokens to come, and the log agrees with the fields.  *)
THEOREM StoragesSound == Spec => []Inv
<1>1. Inv /\ [Next]_vars => Inv'
  <2> SUFFICES ASSUME Inv, [Next]_vars PROVE Inv'
    OBVIOUS
  <2>1. chain \in SoundStorages
    BY DEF Inv
  <2>2. ASSUME NEW s \in Senders, NEW to \in Addresses, NEW k \in Keys,
               NEW r \in Roots \cup {Zero}, NEW u \in Uris, Mint(s, to, k, r, u)
        PROVE  Inv'
    <3>1. CallHook(to)
      BY <2>2 DEF Mint
    <3> QED
      BY <2>1, <2>2, <3>1, MintStep, HookKept DEF Inv
  <2>3. ASSUME NEW s \in Senders, NEW t \in Tokens,
               \/ \E r \in Roots \cup {Zero} : SetAgentStateRoot(s, t, r)
               \/ \E k \in Keys : SetAgentAxlPubkey(s, t, k)
               \/ \E u \in Uris : SetTokenURI(s, t, u)
        PROVE  Inv'
    <3>1. UNCHANGED hooks
      BY <2>3 DEF SetAgentStateRoot, SetAgentAxlPubkey, SetTokenURI
    <3> QED
      BY <2>1, <2>3, <3>1, SetterStep DEF Inv
  <2>4. ASSUME NEW s \in Senders, NEW t \in Tokens, NEW to \in Addresses, NEW safe \in BOOLEAN,
               Transfer(s, t, to, safe)
        PROVE  Inv'
    <3>1. UNCHANGED hooks \/ CallHook(to)
      BY <2>4 DEF Transfer
    <3> QED
      BY <2>1, <2>4, <3>1, TransferStep, HookKept DEF Inv
  <2>5. ASSUME NEW s \in Senders,
               \/ \E t \in Tokens, to \in Addresses : Approve(s, t, to)
               \/ \E to \in Addresses : TransferOwnership(s, to)
               \/ RenounceOwnership(s)
        PROVE  Inv'
    <3>1. UNCHANGED hooks
      BY <2>5 DEF Approve, TransferOwnership, RenounceOwnership
    <3> QED
      BY <2>1, <2>5, <3>1, UnannouncedStep DEF Inv
  <2>6. CASE HookAccepts \/ HookRejects
    BY <2>6, HookEnds
  <2>7. CASE UNCHANGED vars
    BY <2>7 DEF vars, Inv
  <2> QED
    BY <2>2, <2>3, <2>4, <2>5, <2>6, <2>7 DEF Next
<1> QED
  BY InitSound, <1>1, PTL DEF Spec

(* The storage and every state a rejection can return to keep their types. *)
THEOREM ContractTypes == Spec => []TypeOK
<1>1. Inv => TypeOK
  <2> SUFFICES ASSUME Inv PROVE TypeOK
    OBVIOUS
  <2>1. [receiver : Contracts, before : SoundStorages] \subseteq
          [receiver : Contracts, before : Storages]
    BY DEF SoundStorages
  <2>2. hooks \in Seq([receiver : Contracts, before : Storages])
    BY <2>1, SeqMonotonic DEF Inv
  <2> QED
    BY <2>2 DEF Inv, TypeOK, SoundStorages
<1> QED
  BY StoragesSound, <1>1, PTL

(* For any number of tokens, re-entrant hooks and reverts, whoever only    *)
(* reads the events holds the contract's state.                            *)
THEOREM LogIsTheState == Spec => []LogReplaysState
<1>1. Inv => LogReplaysState
  BY DEF Inv, SoundStorages, Sound, LogReplaysState
<1> QED
  BY StoragesSound, <1>1, PTL

(* Ids are dense, roots link up, only owners rotate, and a token is        *)
(* initialized before it is owned.                                         *)
THEOREM HistoryIsReliable == Spec => []EventHistory
<1>1. Inv => EventHistory
  BY DEF Inv, SoundStorages, Sound, EventHistory
<1> QED
  BY StoragesSound, <1>1, PTL

=============================================================================
