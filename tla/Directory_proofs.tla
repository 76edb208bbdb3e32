-------------------------- MODULE Directory_proofs --------------------------
(***************************************************************************)
(* A handle has one key pair and one name, for any number of commands that *)
(* race over its file, any failures and any interruptions.                 *)
(*                                                                         *)
(* OneIdentity speaks of the file and of what commands hold, tokens and    *)
(* records name.  The inductive invariant IInv says in addition that the   *)
(* file is filled for the first time by one process, while nobody has an   *)
(* identity, and that every other place was told by a process that has one.*)
(* EInv adds where the token and the records of a publication are on their *)
(* way, and that the score of an entry is still what its chain gives.      *)
(***************************************************************************)
EXTENDS Directory, SequenceTheorems, FiniteSetTheorems, TLAPS

Early == {"idle", "loading", "creating", "filling"}
Holding == {"minting", "waiting", "saving", "rewriting", "publishing", "serving"}
States == Early \cup Holding \cup {"reading", "ranking", "done", "failed"}

Values == Cards \cup Procs \cup Nat \cup Heads \cup {Nil}
Process ==
  [at : States, cmd : Commands \cup {Nil}, ens : Names \cup {Nil}, id : Ids \cup {Nil},
   card : Cards \cup {Nil}, next : Nat, got : [Used -> Values], seen : SUBSET Used]

Types ==
  /\ file \in Ids \cup {Absent, Torn}
  /\ tokens \in Seq([pub : Procs, by : Procs])
  /\ sent \in SUBSET Procs
  /\ rep \in [Procs -> Seq(Attested)]
  /\ records \in [KeySet -> Values]
  /\ pool \in Seq([key : KeySet, val : Values])
  /\ proc \in [Procs -> Process]

Knows(p) == proc[p].id # Nil
Known(k) == \E q \in Procs : Knows(q) /\ proc[q].id.pub = k

(* What a process has, or has not, in each of its stages.                  *)
AtStage(p) ==
  /\ proc[p].at \in Early => ~Knows(p) /\ proc[p].next = 1
  /\ proc[p].at \in Early \ {"idle"} => proc[p].cmd \in DOMAIN Work
  /\ proc[p].at = "loading" /\ Creates(proc[p].cmd) => proc[p].ens \in Names
  /\ proc[p].at \in {"creating", "filling"} => proc[p].ens \in Names
  /\ proc[p].at \in Holding => Knows(p)
  /\ proc[p].at = "publishing" => proc[p].next \in 1 .. 4
  /\ p \in sent => Knows(p)
  /\ proc[p].card # Nil => Knows(p) /\ proc[p].card.pub = proc[p].id.pub

Alike(i, j) == i.pub = j.pub /\ i.ens = j.ens

Agree == \A p, q \in Procs : Knows(p) /\ Knows(q) => Alike(proc[p].id, proc[q].id)

(* The file holds what some process holds.                                 *)
FileKnown == Whole => \E q \in Procs : Knows(q) /\ Alike(proc[q].id, file)

(* Until the file is filled nobody knows an identity, and one fills it.    *)
FirstFile ==
  /\ file = Absent => \A q \in Procs : ~Knows(q) /\ ~At(q, "filling")
  /\ \A p \in Procs : At(p, "filling") =>
       /\ file = Torn
       /\ \A q \in Procs : ~Knows(q) /\ (At(q, "filling") => q = p)

TokensKnown == \A t \in 1 .. Len(tokens) : Known(tokens[t].pub)
RecordsKnown ==
  /\ records["pubkey"] # Nil => Known(records["pubkey"])
  /\ \A i \in 1 .. Len(pool) : pool[i].key = "pubkey" => Known(pool[i].val)

Holders ==
  /\ proc \in [Procs -> Process] /\ file \in Ids \cup {Absent, Torn}
  /\ sent \in SUBSET Procs
  /\ \A p \in Procs : AtStage(p)
  /\ Agree /\ FileKnown /\ FirstFile

IInv == Types /\ Holders /\ TokensKnown /\ RecordsKnown

-----------------------------------------------------------------------------
LEMMA KeysAre ==
  /\ KeySet = {"card", "pubkey", "tokenId", "repHead"}
  /\ Used = {"card", "tokenId", "repHead"}
  /\ \A n \in 1 .. 4 : Keys[n] \in KeySet
<1>1. DOMAIN Keys = 1 .. 4
  BY DEF Keys
<1>2. KeySet = {Keys[1], Keys[2], Keys[3], Keys[4]}
  BY <1>1 DEF KeySet
<1>3. KeySet = {"card", "pubkey", "tokenId", "repHead"}
  BY <1>2 DEF Keys
<1> QED
  BY <1>1, <1>3 DEF Used, KeySet

LEMMA Longer ==
  ASSUME NEW S, NEW s \in Seq(S), NEW e \in S
  PROVE  /\ Append(s, e) \in Seq(S)
         /\ \A i \in 1 .. Len(Append(s, e)) :
              \/ i \in 1 .. Len(s) /\ Append(s, e)[i] = s[i]
              \/ Append(s, e)[i] = e
<1>1. /\ Append(s, e) \in Seq(S) /\ Len(Append(s, e)) = Len(s) + 1
      /\ \A i \in 1 .. Len(s) : Append(s, e)[i] = s[i]
      /\ Append(s, e)[Len(s) + 1] = e
  BY AppendProperties
<1>2. Len(s) \in Nat
  BY LenProperties
<1> QED
  BY <1>1, <1>2

LEMMA Shorter ==
  ASSUME NEW S, NEW s \in Seq(S), s # <<>>
  PROVE  /\ Head(s) = s[1] /\ Head(s) \in S /\ 1 \in 1 .. Len(s)
         /\ Tail(s) \in Seq(S)
         /\ \A i \in 1 .. Len(Tail(s)) : i + 1 \in 1 .. Len(s) /\ Tail(s)[i] = s[i + 1]
<1>1. /\ Head(s) = s[1] /\ Head(s) \in S
      /\ Tail(s) \in Seq(S) /\ Len(Tail(s)) = Len(s) - 1
      /\ \A i \in 1 .. Len(Tail(s)) : Tail(s)[i] = s[i + 1]
  BY HeadTailProperties
<1>2. Len(s) \in Nat /\ Len(s) # 0
  BY LenProperties, EmptySeq
<1> QED
  BY <1>1, <1>2

LEMMA WorkIs ==
  /\ DOMAIN Work = {"mint", "publish", "agent", "show"}
  /\ \A cmd \in DOMAIN Work :
       Work[cmd] \in {"minting", "publishing", "serving", "done"}
  BY DEF Work

(* A process gets on, and the file is left alone, emptied, or filled with  *)
(* what the process holds: nobody comes by another identity.               *)
LEMMA ProcessStep ==
  ASSUME IInv, NEW p \in Procs, NEW c \in Process,
         proc' = [proc EXCEPT ![p] = c],
         Knows(p) => c.id # Nil /\ Alike(c.id, proc[p].id),
         c.id # Nil => Knows(p) \/ (Whole /\ c.id = file),
         c.at # "filling",
         \/ file' = file
         \/ Knows(p) /\ file' = Torn
         \/ Knows(p) /\ file' = c.id,
         sent' \in SUBSET Procs, sent' \subseteq sent \cup {p},
         AtStage(p)'
  PROVE  Holders' /\ \A k : Known(k) => Known(k)'
<1>1. /\ proc' \in [Procs -> Process] /\ proc'[p] = c
      /\ \A q \in Procs : q # p => proc'[q] = proc[q]
      /\ Types
  BY DEF IInv, Types
<1>2. file' \in Ids \cup {Absent, Torn}
  BY <1>1 DEF Types, Process
<1>3. \A q \in Procs : AtStage(q)'
  <2> SUFFICES ASSUME NEW q \in Procs, q # p PROVE AtStage(q)'
    OBVIOUS
  <2>1. AtStage(q) /\ proc'[q] = proc[q] /\ (q \in sent' => q \in sent)
    BY <1>1 DEF IInv, Holders
  <2> QED
    BY <2>1 DEF AtStage, Knows
<1>4. \A q \in Procs : Knows(q) => Knows(q)' /\ Alike(proc'[q].id, proc[q].id)
  <2> SUFFICES ASSUME NEW q \in Procs, Knows(q)
               PROVE  Knows(q)' /\ Alike(proc'[q].id, proc[q].id)
    OBVIOUS
  <2> QED
    BY <1>1 DEF Knows, Alike
<1>5. \A q \in Procs : Knows(q)' => \E r \in Procs : Knows(r) /\ Alike(proc'[q].id, proc[r].id)
  <2> SUFFICES ASSUME NEW q \in Procs, Knows(q)'
               PROVE  \E r \in Procs : Knows(r) /\ Alike(proc'[q].id, proc[r].id)
    OBVIOUS
  <2>1. CASE Knows(q)
    BY <1>4, <2>1
  <2>2. CASE ~Knows(q)
    <3>1. q = p /\ Whole /\ proc'[q].id = file
      BY <1>1, <2>2 DEF Knows
    <3> QED
      BY <3>1 DEF IInv, Holders, FileKnown, Alike
  <2> QED
    BY <2>1, <2>2
<1>6. Agree'
  BY <1>5 DEF IInv, Holders, Agree, Alike
<1>7. FileKnown'
  <2> SUFFICES ASSUME Whole' PROVE \E q \in Procs : Knows(q)' /\ Alike(proc'[q].id, file')
    BY DEF FileKnown
  <2>1. CASE file' = file
    <3>1. PICK q \in Procs : Knows(q) /\ Alike(proc[q].id, file)
      BY <2>1 DEF IInv, Holders, FileKnown, Whole
    <3> QED
      BY <1>4, <2>1, <3>1 DEF Alike
  <2>2. CASE Knows(p) /\ file' = c.id
    BY <1>1, <1>4, <2>2 DEF Alike
  <2> QED
    BY <2>1, <2>2 DEF Whole
<1>8. FirstFile'
  <2>1. ASSUME file = Absent \/ \E q \in Procs : At(q, "filling")
        PROVE  file' = file /\ \A q \in Procs : ~Knows(q)'
    <3>1. ~Whole /\ \A q \in Procs : ~Knows(q)
      BY <2>1 DEF IInv, Holders, FirstFile, Whole
    <3> QED
      BY <1>5, <3>1
  <2>2. \A q \in Procs : At(q, "filling")' => At(q, "filling") /\ q # p
    BY <1>1 DEF At
  <2>3. ASSUME file' = Absent PROVE file = Absent
    BY <1>1, <2>3, CommandLineAssumption DEF Types, Process, Ids, Knows
  <2>4. \A q \in Procs : At(q, "filling") => file = Torn
    BY DEF IInv, Holders, FirstFile
  <2>5. \A q, r \in Procs : At(q, "filling") /\ At(r, "filling") => q = r
    BY DEF IInv, Holders, FirstFile
  <2>6. file' = Absent => \A q \in Procs : ~Knows(q)' /\ ~At(q, "filling")'
    BY <2>1, <2>2, <2>3, <2>4, CommandLineAssumption
  <2> QED
    BY <2>1, <2>2, <2>4, <2>5, <2>6 DEF FirstFile
<1>9. ASSUME NEW k, Known(k) PROVE Known(k)'
  BY <1>4, <1>9 DEF Known, Alike
<1> QED
  BY <1>1, <1>2, <1>3, <1>6, <1>7, <1>8, <1>9 DEF Holders

(* Nothing is minted, published or attested in the step.                   *)
LEMMA NothingWritten ==
  ASSUME IInv, Holders', \A k : Known(k) => Known(k)',
         UNCHANGED <<tokens, rep, records, pool>>
  PROVE  IInv'
<1>1. Types'
  BY DEF IInv, Types, Holders
<1>2. TokensKnown'
  BY DEF IInv, TokensKnown
<1>3. RecordsKnown'
  BY DEF IInv, RecordsKnown
<1> QED
  BY <1>1, <1>2, <1>3 DEF IInv

LEMMA GotoStep ==
  ASSUME IInv, NEW p \in Procs, NEW s \in States \ {"filling"}, Goto(p, s),
         s \in Early => /\ ~Knows(p) /\ proc[p].next = 1
                        /\ proc[p].cmd \in DOMAIN Work /\ proc[p].ens \in Names,
         s \in Holding => Knows(p),
         s # "publishing",
         \/ file' = file
         \/ Knows(p) /\ file' \in {Torn, proc[p].id},
         \/ sent' = sent
         \/ Knows(p) /\ sent' = sent \cup {p},
         UNCHANGED <<tokens, rep, records, pool>>
  PROVE  IInv'
<1>1. proc[p] \in Process /\ proc \in [Procs -> Process] /\ AtStage(p) /\ sent \in SUBSET Procs
  BY DEF IInv, Types, Holders
<1>2. PICK c \in Process : /\ c = [proc[p] EXCEPT !.at = s]
                           /\ c.id = proc[p].id /\ c.at = s /\ c.next = proc[p].next
                           /\ c.cmd = proc[p].cmd /\ c.ens = proc[p].ens
                           /\ c.card = proc[p].card
  <2> DEFINE d == [proc[p] EXCEPT !.at = s]
  <2>1. d \in Process
    BY <1>1 DEF Process
  <2>2. /\ d.id = proc[p].id /\ d.at = s /\ d.next = proc[p].next
        /\ d.cmd = proc[p].cmd /\ d.ens = proc[p].ens /\ d.card = proc[p].card
    BY <1>1 DEF Process
  <2> QED
    BY <2>1, <2>2
<1>3. proc' = [proc EXCEPT ![p] = c]
  BY <1>2 DEF Goto
<1>4. proc'[p] = c
  BY <1>1, <1>3
<1>5. AtStage(p)'
  BY <1>1, <1>2, <1>4 DEF AtStage, Knows, Early
<1>6. Alike(c.id, proc[p].id)
  BY <1>2 DEF Alike
<1>7. Holders' /\ \A k : Known(k) => Known(k)'
  BY <1>1, <1>2, <1>3, <1>5, <1>6, ProcessStep DEF Knows
<1> QED
  BY <1>7, NothingWritten

-----------------------------------------------------------------------------
(* A command begins, or a query: nothing is known yet.                     *)
LEMMA StartStep ==
  ASSUME IInv, NEW p \in Procs, Start(p) \/ Query(p)
  PROVE  IInv'
<1>1. proc[p] \in Process /\ proc \in [Procs -> Process] /\ AtStage(p) /\ sent \in SUBSET Procs
      /\ At(p, "idle")
  BY DEF IInv, Types, Holders, Start, Query
<1>2. PICK c \in Process : /\ proc' = [proc EXCEPT ![p] = c]
                           /\ c.id = proc[p].id /\ c.next = proc[p].next
                           /\ c.card = proc[p].card
                           /\ \/ /\ c.at = "loading" /\ c.cmd \in DOMAIN Work
                                 /\ Creates(c.cmd) => c.ens \in Names
                              \/ c.at = "reading"
  <2>1. CASE Start(p)
    <3>1. PICK cmd \in Commands \ {"directory"}, n \in Names \cup {Nil} :
            /\ proc' = [proc EXCEPT ![p].cmd = cmd, ![p].ens = n, ![p].at = "loading"]
            /\ Creates(cmd) => n \in Names
      BY <2>1 DEF Start, EnsName
    <3> DEFINE d == [proc[p] EXCEPT !.cmd = cmd, !.ens = n, !.at = "loading"]
    <3>2. d \in Process /\ proc' = [proc EXCEPT ![p] = d]
      BY <1>1, <3>1 DEF Process, States, Early
    <3>3. d.id = proc[p].id /\ d.next = proc[p].next /\ d.card = proc[p].card
          /\ d.at = "loading" /\ d.cmd = cmd /\ d.ens = n
      BY <1>1 DEF Process
    <3>4. cmd \in DOMAIN Work
      BY WorkIs DEF Commands
    <3> HIDE DEF d
    <3> QED
      BY <3>1, <3>2, <3>3, <3>4
  <2>2. CASE Query(p)
    <3> DEFINE d == [proc[p] EXCEPT !.cmd = "directory", !.at = "reading"]
    <3>1. d \in Process /\ proc' = [proc EXCEPT ![p] = d]
      BY <1>1, <2>2 DEF Process, States, Commands, Query
    <3>2. d.id = proc[p].id /\ d.next = proc[p].next /\ d.card = proc[p].card
          /\ d.at = "reading"
      BY <1>1 DEF Process
    <3> HIDE DEF d
    <3> QED
      BY <3>1, <3>2
  <2> QED
    BY <2>1, <2>2
<1>3. UNCHANGED <<file, tokens, sent, rep, records, pool>>
  BY DEF Start, Query
<1>4. proc'[p] = c /\ ~Knows(p) /\ proc[p].next = 1
  BY <1>1, <1>2 DEF AtStage, At, Early
<1>5. AtStage(p)'
  BY <1>1, <1>2, <1>3, <1>4 DEF AtStage, Knows, Early, Holding
<1>6. Holders' /\ \A k : Known(k) => Known(k)'
  BY <1>1, <1>2, <1>3, <1>4, <1>5, ProcessStep DEF Knows
<1> QED
  BY <1>3, <1>6, NothingWritten

(* The file is read.                                                       *)
LEMMA LoadStep ==
  ASSUME IInv, NEW p \in Procs, Load(p)
  PROVE  IInv'
<1>1. proc[p] \in Process /\ proc \in [Procs -> Process] /\ AtStage(p) /\ sent \in SUBSET Procs
      /\ At(p, "loading") /\ Whole /\ file \in Ids
  BY DEF IInv, Types, Holders, Load, Whole
<1>2. UNCHANGED <<file, tokens, sent, rep, records, pool>>
  BY DEF Load
<1>3. ~Knows(p) /\ proc[p].next = 1 /\ proc[p].cmd \in DOMAIN Work
  BY <1>1 DEF AtStage, At, Early
<1>4. CASE Goto(p, "failed")
  BY <1>2, <1>4, GotoStep DEF States, Early, Holding
<1>5. CASE Holds(p, file)
  <2> DEFINE d == [proc[p] EXCEPT !.id = file, !.at = Work[proc[p].cmd]]
  <2>1. d \in Process /\ proc' = [proc EXCEPT ![p] = d]
    BY <1>1, <1>3, <1>5, WorkIs DEF Holds, Process, States, Holding
  <2>2. d.id = file /\ d.next = 1 /\ d.card = proc[p].card
        /\ d.at \in {"minting", "publishing", "serving", "done"}
    BY <1>1, <1>3, WorkIs DEF Process
  <2> HIDE DEF d
  <2>3. PICK c \in Process : proc' = [proc EXCEPT ![p] = c] /\ c = d
    BY <2>1
  <2>4. proc'[p] = c /\ c.id # Nil /\ proc[p].card = Nil
    BY <1>1, <1>3, <2>2, <2>3, CommandLineAssumption DEF Ids, AtStage
  <2>5. AtStage(p)'
    BY <1>1, <1>3, <2>2, <2>3, <2>4 DEF AtStage, Knows, Early, Holding
  <2>6. Holders' /\ \A k : Known(k) => Known(k)'
    BY <1>1, <1>2, <1>3, <2>2, <2>3, <2>5, ProcessStep
  <2> QED
    BY <1>2, <2>6, NothingWritten
<1> QED
  BY <1>4, <1>5 DEF Load

(* There is no file to read, or none that will do.                         *)
LEMMA LoadEnds ==
  ASSUME IInv, NEW p \in Procs, LoadNothing(p) \/ LoadRefused(p)
  PROVE  IInv'
<1>1. AtStage(p) /\ At(p, "loading")
  BY DEF IInv, Holders, LoadNothing, LoadRefused
<1>2. /\ ~Knows(p) /\ proc[p].next = 1 /\ proc[p].cmd \in DOMAIN Work
      /\ Creates(proc[p].cmd) => proc[p].ens \in Names
  BY <1>1 DEF AtStage, At, Early
<1>3. UNCHANGED <<file, tokens, sent, rep, records, pool>>
  BY DEF LoadNothing, LoadRefused
<1>4. (Goto(p, "creating") /\ Creates(proc[p].cmd)) \/ Goto(p, "failed")
  BY DEF LoadNothing, LoadRefused
<1> QED
  BY <1>2, <1>3, <1>4, GotoStep DEF States, Early, Holding

-----------------------------------------------------------------------------
(* The file is opened: by one process, which is the only one to fill it.   *)
LEMMA CreateStep ==
  ASSUME IInv, NEW p \in Procs, CreateFile(p)
  PROVE  IInv'
<1>1. proc \in [Procs -> Process] /\ AtStage(p) /\ At(p, "creating")
  BY DEF IInv, Types, Holders, CreateFile
<1>2. UNCHANGED <<tokens, sent, rep, records, pool>>
  BY DEF CreateFile
<1>3. CASE file = Absent
  <2>1. file' = Torn /\ Goto(p, "filling") /\ \A q \in Procs : ~Knows(q) /\ ~At(q, "filling")
    BY <1>3 DEF CreateFile, IInv, Holders, FirstFile
  <2> DEFINE d == [proc[p] EXCEPT !.at = "filling"]
  <2>2. /\ d \in Process /\ proc' = [proc EXCEPT ![p] = d]
        /\ d.at = "filling" /\ d.id = proc[p].id /\ d.next = proc[p].next
        /\ d.card = proc[p].card /\ d.cmd = proc[p].cmd /\ d.ens = proc[p].ens
    BY <1>1, <2>1 DEF Goto, Process, States, Early
  <2> HIDE DEF d
  <2>3. /\ proc' \in [Procs -> Process]
        /\ \A q \in Procs : q # p => proc'[q] = proc[q]
        /\ proc'[p].at = "filling" /\ proc'[p].id = proc[p].id /\ proc'[p].next = proc[p].next
        /\ proc'[p].card = proc[p].card /\ proc'[p].cmd = proc[p].cmd
        /\ proc'[p].ens = proc[p].ens
    BY <1>1, <2>2
  <2>4. \A q \in Procs : Knows(q)' <=> Knows(q)
    BY <2>3 DEF Knows
  <2>5. ASSUME NEW q \in Procs PROVE AtStage(q)'
    <3>1. AtStage(q)
      BY DEF IInv, Holders
    <3>2. CASE q = p
      BY <1>1, <1>2, <2>3, <3>1, <3>2 DEF AtStage, At, Knows, Early, Holding
    <3>3. CASE q # p
      BY <1>2, <2>3, <3>1, <3>3 DEF AtStage, Knows
    <3> QED
      BY <3>2, <3>3
  <2>6. Agree' /\ FileKnown' /\ (\A k : Known(k) => Known(k)')
    BY <2>1, <2>4 DEF Agree, FileKnown, Whole, Known
  <2>7. FirstFile'
    BY <2>1, <2>3, <2>4, CommandLineAssumption DEF FirstFile, At
  <2>8. Holders'
    BY <1>2, <2>1, <2>3, <2>5, <2>6, <2>7 DEF Holders, IInv
  <2> QED
    BY <1>2, <2>6, <2>8, NothingWritten
<1>4. CASE file # Absent
  <2>1. Goto(p, "failed") /\ UNCHANGED file
    BY <1>4 DEF CreateFile
  <2> QED
    BY <1>2, <2>1, GotoStep DEF States, Early, Holding
<1> QED
  BY <1>3, <1>4

(* It is filled, with a key pair nobody else has heard of.                 *)
LEMMA FillStep ==
  ASSUME IInv, NEW p \in Procs, FillFile(p)
  PROVE  IInv'
<1>1. /\ proc[p] \in Process /\ proc \in [Procs -> Process] /\ AtStage(p)
      /\ At(p, "filling") /\ file = Torn
      /\ \A q \in Procs : ~Knows(q) /\ (At(q, "filling") => q = p)
  BY DEF IInv, Types, Holders, FirstFile, FillFile
<1>2. PICK fresh \in Ids : fresh = [pub |-> p, ens |-> proc[p].ens, token |-> 0]
  BY <1>1 DEF AtStage, At, Early, Ids
<1>3. file' = fresh /\ Holds(p, fresh) /\ UNCHANGED <<tokens, sent, rep, records, pool>>
  BY <1>2 DEF FillFile
<1>4. fresh # Nil /\ fresh # Absent /\ fresh # Torn
  BY CommandLineAssumption DEF Ids
<1>5. proc[p].cmd \in DOMAIN Work /\ proc[p].next = 1 /\ proc[p].card = Nil
  BY <1>1 DEF AtStage, At, Early
<1> DEFINE d == [proc[p] EXCEPT !.id = fresh, !.at = Work[proc[p].cmd]]
<1>6. /\ d \in Process /\ proc' = [proc EXCEPT ![p] = d]
      /\ d.id = fresh /\ d.next = 1 /\ d.card = Nil
      /\ d.at \in {"minting", "publishing", "serving", "done"}
  <2>1. PICK w \in {"minting", "publishing", "serving", "done"} : w = Work[proc[p].cmd]
    BY <1>5, WorkIs
  <2>2. w \in States
    BY DEF States, Holding
  <2>3. d \in Process
    BY <1>1, <2>1, <2>2 DEF Process
  <2>4. d.id = fresh /\ d.next = 1 /\ d.card = Nil /\ d.at = w
    BY <1>1, <1>5, <2>1 DEF Process
  <2>5. proc' = [proc EXCEPT ![p] = d]
    BY <1>1, <1>3 DEF Holds
  <2> QED
    BY <2>3, <2>4, <2>5
<1> HIDE DEF d
<1>7. /\ proc' \in [Procs -> Process]
      /\ \A q \in Procs : q # p => proc'[q] = proc[q]
      /\ proc'[p].id = fresh /\ proc'[p].next = 1 /\ proc'[p].card = Nil
      /\ proc'[p].at \in {"minting", "publishing", "serving", "done"}
  BY <1>1, <1>6
<1>8. Knows(p)' /\ \A q \in Procs : Knows(q)' => q = p
  BY <1>1, <1>4, <1>7 DEF Knows
<1>9. ASSUME NEW q \in Procs PROVE AtStage(q)'
  <2>1. AtStage(q)
    BY DEF IInv, Holders
  <2>2. CASE q = p
    BY <1>3, <1>7, <1>8, <2>2 DEF AtStage, Early, Holding
  <2>3. CASE q # p
    BY <1>3, <1>7, <2>1, <2>3 DEF AtStage, Knows
  <2> QED
    BY <2>2, <2>3
<1>10. Agree' /\ FileKnown' /\ \A k : Known(k) => Known(k)'
  <2>1. Agree'
    BY <1>8 DEF Agree, Alike
  <2>2. FileKnown'
    BY <1>3, <1>7, <1>8 DEF FileKnown, Alike
  <2>3. \A k : ~Known(k)
    BY <1>1 DEF Known
  <2> QED
    BY <2>1, <2>2, <2>3
<1>11. FirstFile'
  <2>1. \A q \in Procs : ~At(q, "filling")'
    BY <1>1, <1>7 DEF At
  <2> QED
    BY <1>3, <1>4, <2>1 DEF FirstFile
<1>12. Holders'
  BY <1>3, <1>7, <1>9, <1>10, <1>11 DEF Holders, IInv
<1> QED
  BY <1>3, <1>10, <1>12, NothingWritten

-----------------------------------------------------------------------------
(* Steps that move a process on, and leave it what it holds.               *)
LEMMA MoveStep ==
  ASSUME IInv, NEW p \in Procs,
         \/ SendMint(p) \/ MintFails(p) \/ TruncateFile(p) \/ RewriteFile(p)
         \/ PublishFails(p) \/ StopAgent(p) \/ Interrupt(p)
         \/ LeaveOut(p) \/ Answer(p) \/ ReadFails(p) \/ Rank(p) \/ WalkFails(p)
  PROVE  IInv'
<1>1. AtStage(p)
  BY DEF IInv, Holders
<1>2. CASE SendMint(p)
  <2>1. Knows(p)
    BY <1>1, <1>2 DEF SendMint, AtStage, At, Holding
  <2> QED
    BY <1>2, <2>1, GotoStep DEF SendMint, States, Early, Holding
<1>3. CASE MintFails(p) \/ PublishFails(p) \/ StopAgent(p) \/ Interrupt(p)
            \/ LeaveOut(p) \/ Answer(p) \/ ReadFails(p) \/ Rank(p) \/ WalkFails(p)
  <2>1. Goto(p, "failed") \/ Goto(p, "done") \/ Goto(p, "ranking")
    <3>1. CASE Answer(p)
      BY <3>1 DEF Answer
    <3>2. CASE ~Answer(p)
      BY <1>3, <3>2 DEF MintFails, PublishFails, StopAgent, Interrupt,
                LeaveOut, ReadFails, Rank, WalkFails
    <3> QED
      BY <3>1, <3>2
  <2>2. UNCHANGED <<file, tokens, sent, rep, records, pool>>
    BY <1>3 DEF MintFails, PublishFails, StopAgent, Interrupt,
                LeaveOut, Answer, ReadFails, Rank, WalkFails
  <2> QED
    BY <2>1, <2>2, GotoStep DEF States, Early, Holding
<1>4. CASE TruncateFile(p)
  <2>1. Knows(p)
    BY <1>1, <1>4 DEF TruncateFile, AtStage, At, Holding
  <2> QED
    BY <1>4, <2>1, GotoStep DEF TruncateFile, States, Early, Holding
<1>5. CASE RewriteFile(p)
  <2>1. Knows(p)
    BY <1>1, <1>5 DEF RewriteFile, AtStage, At, Holding
  <2>2. file' \in {Torn, proc[p].id}
    BY <1>5 DEF RewriteFile
  <2> QED
    BY <1>5, <2>1, <2>2, GotoStep DEF RewriteFile, States, Early, Holding
<1> QED
  BY <1>2, <1>3, <1>4, <1>5

LEMMA ReceiptStep ==
  ASSUME IInv, NEW p \in Procs, GetReceipt(p)
  PROVE  IInv'
<1>1. /\ proc[p] \in Process /\ proc \in [Procs -> Process] /\ AtStage(p) /\ sent \in SUBSET Procs
      /\ tokens \in Seq([pub : Procs, by : Procs])
  BY DEF IInv, Types, Holders
<1>2. UNCHANGED <<file, tokens, sent, rep, records, pool>> /\ At(p, "waiting")
  BY DEF GetReceipt
<1>3. PICK i \in Nat : proc' = [proc EXCEPT ![p].id.token = i, ![p].at = "saving"]
  <2>1. PICK i \in DOMAIN tokens : proc' = [proc EXCEPT ![p].id.token = i, ![p].at = "saving"]
    BY DEF GetReceipt
  <2>2. DOMAIN tokens = 1 .. Len(tokens)
    BY <1>1, LenProperties
  <2>3. Len(tokens) \in Nat
    BY <1>1, LenProperties
  <2>4. i \in Nat
    BY <2>2, <2>3
  <2> QED
    BY <2>1, <2>4
<1>4. Knows(p) /\ proc[p].id \in Ids
  BY <1>1, <1>2 DEF AtStage, At, Holding, Process, Knows
<1> DEFINE j == [proc[p].id EXCEPT !.token = i]
<1>5. j \in Ids /\ Alike(j, proc[p].id) /\ j # Nil
  BY <1>4, CommandLineAssumption DEF Ids, Alike
<1>6. proc' = [proc EXCEPT ![p] = [proc[p] EXCEPT !.id = j, !.at = "saving"]]
  BY <1>1, <1>3 DEF Process
<1> HIDE DEF j
<1> DEFINE d == [proc[p] EXCEPT !.id = j, !.at = "saving"]
<1>7. /\ d \in Process /\ d.id = j /\ d.at = "saving" /\ d.card = proc[p].card
  BY <1>1, <1>5 DEF Process, States, Holding
<1>8. proc' = [proc EXCEPT ![p] = d]
  BY <1>6
<1> HIDE DEF d
<1>9. proc'[p] = d
  BY <1>1, <1>8
<1>10. AtStage(p)'
  BY <1>1, <1>2, <1>5, <1>7, <1>9 DEF AtStage, Knows, Alike, Early, Holding
<1>11. PICK c \in Process : proc' = [proc EXCEPT ![p] = c] /\ c = d
  BY <1>7, <1>8
<1>12. Holders' /\ \A k : Known(k) => Known(k)'
  BY <1>1, <1>2, <1>4, <1>5, <1>7, <1>10, <1>11, ProcessStep
<1> QED
  BY <1>2, <1>12, NothingWritten

(* What the directory reads, or publish puts together, goes into no place  *)
(* that anybody else takes an identity from.                               *)
LEMMA KeepStep ==
  ASSUME IInv, NEW p \in Procs, NEW c \in Process, proc' = [proc EXCEPT ![p] = c],
         c.id = proc[p].id, c.at = proc[p].at \/ c.at = "done", proc[p].at # "filling",
         c.cmd = proc[p].cmd, c.ens = proc[p].ens,
         c.card = proc[p].card \/ (Knows(p) /\ c.card.pub = proc[p].id.pub),
         c.at \in Early => c.next = proc[p].next,
         c.at = "publishing" => c.next \in 1 .. 4,
         UNCHANGED <<file, sent>>
  PROVE  Holders' /\ \A k : Known(k) => Known(k)'
<1>1. proc \in [Procs -> Process] /\ AtStage(p) /\ sent \in SUBSET Procs
  BY DEF IInv, Types, Holders
<1>2. proc'[p] = c
  BY <1>1
<1>3. AtStage(p)'
  <2>1. Knows(p)' <=> Knows(p)
    BY <1>2 DEF Knows
  <2>2. c.at \in Early \cup Holding => c.at = proc[p].at
    BY DEF Early, Holding
  <2> QED
    BY <1>1, <1>2, <2>1, <2>2 DEF AtStage, Early, Holding
<1>4. Alike(c.id, proc[p].id)
  BY DEF Alike
<1> QED
  BY <1>1, <1>3, <1>4, ProcessStep DEF Knows

LEMMA ReadStep ==
  ASSUME IInv, NEW p \in Procs, NEW k \in Used, ReadRecord(p, k)
  PROVE  IInv'
<1>1. /\ proc[p] \in Process /\ proc \in [Procs -> Process]
      /\ At(p, "reading") /\ records[k] \in Values
  BY KeysAre DEF IInv, Types, ReadRecord
<1>2. UNCHANGED <<file, tokens, sent, rep, records, pool>>
  BY DEF ReadRecord
<1> DEFINE g == [proc[p].got EXCEPT ![k] = records[k]]
           n == proc[p].seen \cup {k}
<1>3. g \in [Used -> Values] /\ n \in SUBSET Used
  BY <1>1 DEF Process
<1>4. proc' = [proc EXCEPT ![p] = [proc[p] EXCEPT !.got = g, !.seen = n]]
  BY <1>1 DEF ReadRecord, Process
<1> HIDE DEF g, n
<1> DEFINE d == [proc[p] EXCEPT !.got = g, !.seen = n]
<1>5. d \in Process
  BY <1>1, <1>3 DEF Process
<1>6. /\ d.id = proc[p].id /\ d.at = proc[p].at /\ d.next = proc[p].next
      /\ d.cmd = proc[p].cmd /\ d.ens = proc[p].ens /\ d.card = proc[p].card
  BY <1>1 DEF Process
<1>7. PICK c \in Process : proc' = [proc EXCEPT ![p] = c] /\ c = d
  BY <1>4, <1>5
<1> HIDE DEF d
<1>8. Holders' /\ \A x : Known(x) => Known(x)'
  BY <1>1, <1>2, <1>6, <1>7, KeepStep DEF At
<1> QED
  BY <1>2, <1>8, NothingWritten

LEMMA BuildStep ==
  ASSUME IInv, NEW p \in Procs, BuildCard(p)
  PROVE  IInv'
<1>1. /\ proc[p] \in Process /\ proc \in [Procs -> Process] /\ AtStage(p)
      /\ At(p, "publishing") /\ rep \in [Procs -> Seq(Attested)]
  BY DEF IInv, Types, Holders, BuildCard
<1>2. UNCHANGED <<file, tokens, sent, rep, records, pool>>
  BY DEF BuildCard
<1>3. Knows(p) /\ proc[p].id \in Ids /\ proc[p].next \in 1 .. 4
  BY <1>1 DEF AtStage, At, Holding, Process, Knows
<1>4. PICK h \in {Nil} \cup Heads :
        proc' = [proc EXCEPT ![p].card =
                   [pub |-> proc[p].id.pub, token |-> proc[p].id.token, head |-> h]]
  <2>1. \A q \in Procs : [of |-> q, n |-> Len(rep[q])] \in Heads
    BY <1>1, LenProperties DEF Heads
  <2> QED
    BY <2>1 DEF BuildCard
<1> DEFINE b == [pub |-> proc[p].id.pub, token |-> proc[p].id.token, head |-> h]
<1>5. b \in Cards /\ b.pub = proc[p].id.pub
  BY <1>3 DEF Cards, Ids
<1>6. proc' = [proc EXCEPT ![p] = [proc[p] EXCEPT !.card = b]]
  BY <1>1, <1>4
<1> HIDE DEF b
<1> DEFINE d == [proc[p] EXCEPT !.card = b]
<1>7. d \in Process
  BY <1>1, <1>5 DEF Process
<1>8. /\ d.id = proc[p].id /\ d.at = proc[p].at /\ d.next = proc[p].next
      /\ d.cmd = proc[p].cmd /\ d.ens = proc[p].ens /\ d.card = b
  BY <1>1 DEF Process
<1>9. PICK c \in Process : proc' = [proc EXCEPT ![p] = c] /\ c = d
  BY <1>6, <1>7
<1> HIDE DEF d
<1>10. Holders' /\ \A x : Known(x) => Known(x)'
  BY <1>1, <1>2, <1>3, <1>5, <1>8, <1>9, KeepStep DEF At
<1> QED
  BY <1>2, <1>10, NothingWritten

(* One record of the card is on its way.                                   *)
LEMMA SendStep ==
  ASSUME IInv, NEW p \in Procs, SendRecord(p)
  PROVE  IInv'
<1>1. /\ proc[p] \in Process /\ proc \in [Procs -> Process] /\ AtStage(p)
      /\ At(p, "publishing") /\ proc[p].card # Nil
      /\ pool \in Seq([key : KeySet, val : Values])
  BY DEF IInv, Types, Holders, SendRecord
<1>2. UNCHANGED <<file, tokens, sent, rep, records>>
  BY DEF SendRecord
<1>3. /\ Knows(p) /\ proc[p].next \in 1 .. 4 /\ proc[p].card \in Cards
      /\ proc[p].card.pub = proc[p].id.pub
  BY <1>1 DEF AtStage, At, Holding, Process
<1> DEFINE key == Keys[proc[p].next]
           val == Bundle(proc[p].card)[key]
<1>4. key \in KeySet
  BY <1>3, KeysAre
<1>5. val \in Values /\ (key = "pubkey" => val = proc[p].id.pub)
  <2>1. /\ key = "card" => val = proc[p].card
        /\ key = "pubkey" => val = proc[p].card.pub
        /\ key = "tokenId" => val = proc[p].card.token
        /\ key = "repHead" => val = proc[p].card.head
    BY <1>4 DEF Bundle
  <2> HIDE DEF key, val
  <2>2. proc[p].card.pub \in Procs /\ proc[p].card.token \in Nat
        /\ proc[p].card.head \in Heads \cup {Nil}
    BY <1>3 DEF Cards
  <2> QED
    BY <1>3, <1>4, <2>1, <2>2, KeysAre DEF Values
<1> DEFINE s == IF proc[p].next = Len(Keys) THEN "done" ELSE proc[p].at
<1>6. s \in {"done", "publishing"} /\ (s = "publishing" => proc[p].next + 1 \in 1 .. 4)
  <2>1. Len(Keys) = 4
    BY DEF Keys
  <2> QED
    BY <1>1, <1>3, <2>1 DEF At
<1>7. proc' = [proc EXCEPT ![p] = [proc[p] EXCEPT !.next = @ + 1, !.at = s]]
  BY <1>1 DEF SendRecord
<1> HIDE DEF s
<1> DEFINE d == [proc[p] EXCEPT !.next = @ + 1, !.at = s]
<1>8. d \in Process
  <2>1. s \in States /\ proc[p].next + 1 \in Nat
    BY <1>3, <1>6 DEF States, Holding
  <2> QED
    BY <1>1, <2>1 DEF Process
<1>9. /\ d.id = proc[p].id /\ d.at = s /\ d.next = proc[p].next + 1
      /\ d.cmd = proc[p].cmd /\ d.ens = proc[p].ens /\ d.card = proc[p].card
  BY <1>1 DEF Process
<1>10. PICK c \in Process : proc' = [proc EXCEPT ![p] = c] /\ c = d
  BY <1>7, <1>8
<1> HIDE DEF d
<1>11. Holders' /\ \A x : Known(x) => Known(x)'
  BY <1>1, <1>2, <1>6, <1>9, <1>10, KeepStep DEF At, Early
<1>12. pool' = pool \/ pool' = Append(pool, [key |-> key, val |-> val])
  BY DEF SendRecord
<1> HIDE DEF key, val
<1>13. /\ pool' \in Seq([key : KeySet, val : Values])
       /\ \A i \in 1 .. Len(pool') :
            \/ i \in 1 .. Len(pool) /\ pool'[i] = pool[i]
            \/ pool'[i] = [key |-> key, val |-> val]
  <2> DEFINE e == [key |-> key, val |-> val]
  <2>1. e \in [key : KeySet, val : Values]
    BY <1>4, <1>5
  <2> HIDE DEF e
  <2>2. CASE pool' = pool
    BY <1>1, <2>2
  <2>3. CASE pool' = Append(pool, e)
    <3>1. /\ pool' \in Seq([key : KeySet, val : Values])
          /\ \A i \in 1 .. Len(pool') :
               \/ i \in 1 .. Len(pool) /\ pool'[i] = pool[i]
               \/ pool'[i] = e
      BY <1>1, <2>1, <2>3, Longer
    <3> QED
      BY <3>1 DEF e
  <2> QED
    BY <1>12, <2>2, <2>3 DEF e
<1>14. Types'
  BY <1>2, <1>11, <1>13 DEF IInv, Types, Holders
<1>15. TokensKnown'
  BY <1>2, <1>11 DEF IInv, TokensKnown
<1>16. RecordsKnown'
  <2>1. Known(proc[p].id.pub)
    BY <1>3 DEF Known
  <2>2. \A i \in 1 .. Len(pool') : pool'[i].key = "pubkey" => Known(pool'[i].val)
    BY <1>5, <1>13, <2>1 DEF IInv, RecordsKnown
  <2>3. \A i \in 1 .. Len(pool') : (pool[i].key)' = "pubkey" => Known(pool[i].val)'
    BY <1>11, <2>2 DEF Known, Knows
  <2>4. (records["pubkey"])' # Nil => Known(records["pubkey"])'
    BY <1>2, <1>11 DEF IInv, RecordsKnown, Known, Knows
  <2> QED
    BY <2>3, <2>4 DEF RecordsKnown
<1> QED
  BY <1>11, <1>14, <1>15, <1>16 DEF IInv

-----------------------------------------------------------------------------
(* The chains: a token is minted, a record is written.                     *)
LEMMA HoldersStay ==
  ASSUME IInv, UNCHANGED <<file, proc>>, sent' \subseteq sent
  PROVE  Holders' /\ \A k : Known(k) => Known(k)'
<1>1. sent' \in SUBSET Procs
  BY DEF IInv, Types
<1>2. \A p \in Procs : AtStage(p)'
  BY DEF IInv, Holders, AtStage, Knows
<1>3. Agree' /\ FileKnown' /\ FirstFile'
  BY DEF IInv, Holders, Agree, FileKnown, FirstFile, Knows, Whole, At
<1>4. \A k : Known(k) => Known(k)'
  BY DEF Known, Knows
<1> QED
  BY <1>1, <1>2, <1>3, <1>4 DEF IInv, Holders

LEMMA MineMintStep ==
  ASSUME IInv, NEW p \in Procs, MineMint(p)
  PROVE  IInv'
<1>1. /\ p \in sent /\ sent' \subseteq sent
      /\ tokens' = Append(tokens, [pub |-> proc[p].id.pub, by |-> p])
      /\ UNCHANGED <<file, rep, records, pool, proc>>
  BY DEF MineMint
<1>2. Knows(p) /\ proc[p].id.pub \in Procs
  <2>1. Knows(p) /\ proc[p] \in Process
    BY <1>1 DEF IInv, Types, Holders, AtStage
  <2> QED
    BY <2>1 DEF Process, Knows, Ids
<1>3. Holders' /\ \A k : Known(k) => Known(k)'
  BY <1>1, HoldersStay
<1> DEFINE e == [pub |-> proc[p].id.pub, by |-> p]
<1>4. /\ tokens' \in Seq([pub : Procs, by : Procs])
      /\ \A t \in 1 .. Len(tokens') :
           \/ t \in 1 .. Len(tokens) /\ tokens'[t] = tokens[t]
           \/ tokens'[t] = e
  <2>1. e \in [pub : Procs, by : Procs] /\ tokens \in Seq([pub : Procs, by : Procs])
    BY <1>2 DEF IInv, Types
  <2>2. tokens' = Append(tokens, e)
    BY <1>1
  <2> HIDE DEF e
  <2> QED
    BY <2>1, <2>2, Longer
<1>5. Types'
  BY <1>1, <1>3, <1>4 DEF IInv, Types, Holders
<1>6. TokensKnown'
  <2>1. Known(proc[p].id.pub)
    BY <1>2 DEF Known
  <2>2. \A t \in 1 .. Len(tokens') : Known(tokens'[t].pub)
    BY <1>4, <2>1 DEF IInv, TokensKnown
  <2> QED
    BY <1>1, <2>2 DEF TokensKnown, Known, Knows
<1>7. RecordsKnown'
  BY <1>1, <1>3 DEF IInv, RecordsKnown
<1> QED
  BY <1>3, <1>5, <1>6, <1>7 DEF IInv

LEMMA MineRecordStep ==
  ASSUME IInv, MineRecord
  PROVE  IInv'
<1>1. /\ pool # <<>> /\ pool' = Tail(pool)
      /\ records' = [records EXCEPT ![Head(pool).key] = Head(pool).val]
      /\ UNCHANGED <<file, tokens, sent, rep, proc>>
  BY DEF MineRecord
<1>2. /\ pool \in Seq([key : KeySet, val : Values]) /\ records \in [KeySet -> Values]
      /\ "pubkey" \in KeySet
  BY KeysAre DEF IInv, Types
<1>3. /\ Head(pool) = pool[1] /\ 1 \in 1 .. Len(pool)
      /\ Head(pool) \in [key : KeySet, val : Values]
      /\ pool' \in Seq([key : KeySet, val : Values])
      /\ \A i \in 1 .. Len(pool') : i + 1 \in 1 .. Len(pool) /\ pool'[i] = pool[i + 1]
  BY <1>1, <1>2, Shorter
<1>4. Holders' /\ \A k : Known(k) => Known(k)'
  BY <1>1, HoldersStay
<1>5. Types'
  BY <1>1, <1>2, <1>3, <1>4 DEF IInv, Types, Holders
<1>6. TokensKnown'
  BY <1>1, <1>4 DEF IInv, TokensKnown
<1>7. RecordsKnown'
  <2>0. /\ \A i \in 1 .. Len(pool') : pool'[i].key = "pubkey" => Known(pool'[i].val)
        /\ \A x : Known(x)' <=> Known(x)
        /\ (records'["pubkey"] # Nil => Known(records'["pubkey"])) => RecordsKnown'
    <3>1. \A i \in 1 .. Len(pool') : pool'[i].key = "pubkey" => Known(pool'[i].val)
      BY <1>3 DEF IInv, RecordsKnown
    <3>2. \A x : Known(x)' <=> Known(x)
      BY <1>1 DEF Known, Knows
    <3> QED
      BY <1>1, <3>1, <3>2 DEF RecordsKnown, Known, Knows
  <2>1. CASE Head(pool).key = "pubkey"
    <3>1. records'["pubkey"] = Head(pool).val
      BY <1>1, <1>2, <2>1
    <3>2. Known(Head(pool).val)
      BY <1>3, <2>1 DEF IInv, RecordsKnown
    <3>3. Known(records'["pubkey"])
      BY <3>1, <3>2
    <3> QED
      BY <2>0, <3>3
  <2>2. CASE Head(pool).key # "pubkey"
    <3>1. records'["pubkey"] = records["pubkey"]
      BY <1>1, <1>2, <2>2
    <3>2. records'["pubkey"] # Nil => Known(records'["pubkey"])
      BY <3>1 DEF IInv, RecordsKnown
    <3> QED
      BY <2>0, <3>2
  <2> QED
    BY <2>1, <2>2
<1> QED
  BY <1>4, <1>5, <1>6, <1>7 DEF IInv

(* An agent's chain grows by a call.                                       *)
LEMMA ServeShape ==
  ASSUME IInv, NEW p \in Procs, Serve(p)
  PROVE  /\ rep' \in [Procs -> Seq(Attested)]
         /\ \A q \in Procs : /\ 1 .. Len(rep[q]) \subseteq 1 .. Len(rep'[q])
                            /\ \A i \in 1 .. Len(rep[q]) : rep'[q][i] = rep[q][i]
                            /\ q # p => rep'[q] = rep[q]
<1>1. rep \in [Procs -> Seq(Attested)]
  BY DEF IInv, Types
<1>2. PICK a \in Attested : rep' = [rep EXCEPT ![p] = Append(@, a)]
  BY DEF Serve
<1>3. /\ Append(rep[p], a) \in Seq(Attested) /\ Len(Append(rep[p], a)) = Len(rep[p]) + 1
      /\ \A i \in 1 .. Len(rep[p]) : Append(rep[p], a)[i] = rep[p][i]
      /\ Len(rep[p]) \in Nat
  BY <1>1, AppendProperties, LenProperties
<1>4. rep'[p] = Append(rep[p], a) /\ \A q \in Procs : q # p => rep'[q] = rep[q]
  BY <1>1, <1>2
<1>5. rep' \in [Procs -> Seq(Attested)]
  BY <1>1, <1>2, <1>3
<1>6. 1 .. Len(rep[p]) \subseteq 1 .. Len(rep'[p])
  BY <1>3, <1>4
<1>7. \A i \in 1 .. Len(rep[p]) : rep'[p][i] = rep[p][i]
  BY <1>3, <1>4
<1> QED
  BY <1>4, <1>5, <1>6, <1>7

LEMMA ServeStep ==
  ASSUME IInv, NEW p \in Procs, Serve(p)
  PROVE  IInv'
<1>1. UNCHANGED <<file, tokens, sent, records, pool, proc>> /\ rep' \in [Procs -> Seq(Attested)]
  BY ServeShape DEF Serve
<1>2. Holders' /\ \A k : Known(k) => Known(k)'
  BY <1>1, HoldersStay
<1>3. Types'
  BY <1>1, <1>2 DEF IInv, Types, Holders
<1>4. TokensKnown' /\ RecordsKnown'
  BY <1>1, <1>2 DEF IInv, TokensKnown, RecordsKnown
<1> QED
  BY <1>2, <1>3, <1>4 DEF IInv

-----------------------------------------------------------------------------
LEMMA InitIInv == Init => IInv
<1> SUFFICES ASSUME Init PROVE IInv
  OBVIOUS
<1> USE DEF Init, LineInit
<1>1. /\ Idle \in Process
      /\ Idle.at = "idle" /\ Idle.id = Nil /\ Idle.next = 1 /\ Idle.card = Nil
  BY DEF Idle, Process, States, Early, Values
<1>2. \A p \in Procs : proc[p] = Idle
  OBVIOUS
<1>3. Types
  <2>1. tokens \in Seq([pub : Procs, by : Procs]) /\ pool \in Seq([key : KeySet, val : Values])
    OBVIOUS
  <2>2. records \in [KeySet -> Values] /\ rep \in [Procs -> Seq(Attested)]
    BY DEF Values
  <2>3. proc \in [Procs -> Process]
    BY <1>1
  <2> QED
    BY <2>1, <2>2, <2>3 DEF Types
<1>4. \A p \in Procs : ~Knows(p) /\ ~At(p, "filling") /\ AtStage(p)
  BY <1>1, <1>2 DEF Knows, At, AtStage, Early, Holding
<1>5. Holders
  <2>1. Agree /\ FileKnown /\ FirstFile
    BY <1>4 DEF Agree, FileKnown, FirstFile, Whole
  <2> QED
    BY <1>3, <1>4, <2>1 DEF Holders, Types
<1>6. TokensKnown
  <2>1. Len(tokens) = 0
    OBVIOUS
  <2> QED
    BY <2>1 DEF TokensKnown
<1>7. RecordsKnown
  <2>1. Len(pool) = 0 /\ records["pubkey"] = Nil
    BY KeysAre
  <2> QED
    BY <2>1 DEF RecordsKnown
<1> QED
  BY <1>3, <1>5, <1>6, <1>7 DEF IInv

LEMMA NextIInv == IInv /\ [Next]_vars => IInv'
<1> SUFFICES ASSUME IInv, [Next]_vars PROVE IInv'
  OBVIOUS
<1>1. CASE UNCHANGED vars
  <2>1. UNCHANGED <<file, tokens, sent, rep, records, pool, proc>>
    BY <1>1 DEF vars, lineVars
  <2>2. Holders' /\ \A k : Known(k) => Known(k)'
    BY <2>1, HoldersStay
  <2> QED
    BY <2>1, <2>2, NothingWritten
<1>2. ASSUME NEW p \in Procs,
             Start(p) \/ Query(p) \/ Load(p) \/ LoadNothing(p) \/ LoadRefused(p)
               \/ CreateFile(p) \/ FillFile(p)
      PROVE  IInv'
  BY <1>2, StartStep, LoadStep, LoadEnds, CreateStep, FillStep
<1>3. ASSUME NEW p \in Procs,
             SendMint(p) \/ MintFails(p) \/ TruncateFile(p) \/ RewriteFile(p)
               \/ PublishFails(p) \/ StopAgent(p) \/ Interrupt(p)
               \/ LeaveOut(p) \/ Answer(p) \/ ReadFails(p) \/ Rank(p) \/ WalkFails(p)
      PROVE  IInv'
  BY <1>3, MoveStep
<1>4. ASSUME NEW p \in Procs,
             GetReceipt(p) \/ MineMint(p) \/ BuildCard(p) \/ SendRecord(p) \/ Serve(p)
      PROVE  IInv'
  BY <1>4, ReceiptStep, MineMintStep, BuildStep, SendStep, ServeStep
<1>5. ASSUME NEW p \in Procs, NEW k \in Used, ReadRecord(p, k) PROVE IInv'
  BY <1>5, ReadStep
<1>6. CASE MineRecord
  BY <1>6, MineRecordStep
<1> QED
  BY <1>1, <1>2, <1>3, <1>4, <1>5, <1>6 DEF Next, LineNext

(* The file is filled once while nobody has an identity, and everything    *)
(* that names one was told by a process that has it: in every reachable    *)
(* state of any number of commands.                                        *)
THEOREM IdentityCoherent == Spec => []IInv
<1>1. Init => IInv
  BY InitIInv
<1>2. IInv /\ [Next]_vars => IInv'
  BY NextIInv
<1> QED
  BY <1>1, <1>2, PTL DEF Spec

LEMMA CoherentIsOne == IInv => OneIdentity
<1> SUFFICES ASSUME IInv PROVE OneIdentity
  OBVIOUS
<1>1. ASSUME NEW i \in Identities PROVE \E q \in Procs : Knows(q) /\ Alike(proc[q].id, i)
  <2>1. CASE Whole /\ i = file
    BY <2>1 DEF IInv, Holders, FileKnown
  <2>2. CASE \E p \in Procs : Knows(p) /\ i = proc[p].id
    BY <2>2 DEF Alike
  <2> QED
    BY <1>1, <2>1, <2>2 DEF Identities, Knows
<1>2. \A p, q \in Procs : Knows(p) /\ Knows(q) => Alike(proc[p].id, proc[q].id)
  BY DEF IInv, Holders, Agree
<1>3. \A i, j \in Identities : i.pub = j.pub /\ i.ens = j.ens
  BY <1>1, <1>2 DEF Alike
<1>4. ASSUME NEW i \in Identities, NEW k, Known(k) PROVE k = i.pub
  BY <1>1, <1>2, <1>4 DEF Known, Alike
<1>5. DOMAIN tokens = 1 .. Len(tokens)
  BY LenProperties DEF IInv, Types
<1>6. ASSUME NEW i \in Identities
      PROVE  /\ \A t \in DOMAIN tokens : tokens[t].pub = i.pub
             /\ records["pubkey"] \in {Nil, i.pub}
  BY <1>4, <1>5 DEF IInv, TokensKnown, RecordsKnown
<1> QED
  BY <1>3, <1>6 DEF OneIdentity

(* A handle has one key pair and one name for good, whatever commands race *)
(* to create, rewrite or read its file ("wx" in identity.ts).              *)
THEOREM HandleHasOneIdentity == Spec => []OneIdentity
  BY IdentityCoherent, CoherentIsOne, PTL

-----------------------------------------------------------------------------
(* What the token of the file and the entries of the directory rest on: who *)
(* does what, where the one token is while it is minted, and what the      *)
(* records will be once every transaction is mined.                        *)

Minting == {"minting", "waiting", "saving", "rewriting"}
Calm == mishaps \cap {"twoMints", "again", "halfway"} = {}
Quiet == mishaps \cap {"mixed", "twoPublishes", "halfway"} = {}

(* Each stage belongs to a command, and leaves what the next ones need.    *)
Role(p) ==
  /\ At(p, "idle") => proc[p].seen = {}
  /\ proc[p].at \in {"creating", "filling"} => Creates(proc[p].cmd)
  /\ proc[p].at \in Minting => proc[p].cmd = "mint"
  /\ At(p, "publishing") => proc[p].cmd = "publish"
  /\ At(p, "serving") => proc[p].cmd = "agent"
  /\ proc[p].at \in {"reading", "ranking"} => proc[p].cmd = "directory"
  /\ proc[p].cmd = "publish" /\ Knows(p) => proc[p].id.token # 0
  /\ proc[p].cmd = "agent" /\ Knows(p) /\ "early" \notin mishaps => proc[p].id.token # 0
  /\ proc[p].next > 1 => proc[p].card # Nil
  /\ rep[p] # <<>> => proc[p].cmd = "agent" /\ Knows(p)

Busy(p, cmd) == proc[p].cmd = cmd /\ proc[p].at \notin {"idle", "done", "failed"}
One(cmd) == \A p, q \in Procs : Busy(p, cmd) /\ Busy(q, cmd) => p = q

(* The only token of a calm history has the number 1: where it is, by the  *)
(* stage of the one command that mints it.                                 *)
TokenStage(p) ==
  /\ p \in sent => At(p, "waiting")
  /\ At(p, "minting") /\ proc[p].id.token = 0 => Len(tokens) = 0
  /\ At(p, "waiting") => Len(tokens) = IF p \in sent THEN 0 ELSE 1
  /\ proc[p].at \in {"saving", "rewriting"} => Len(tokens) = 1 /\ proc[p].id.token = 1
  /\ At(p, "rewriting") => file = Torn
  /\ Knows(p) => proc[p].id.token \in {0, 1}

Kept ==
  \/ Len(tokens) = 0
  \/ \E p \in Procs : proc[p].at \in Minting
  \/ Whole /\ file.token = 1
  \/ file = Torn /\ "torn" \in mishaps

FileStage ==
  /\ Len(tokens) \in {0, 1}
  /\ Whole => file.token \in {0, 1}
  /\ Kept

TokenInv == Calm => One("mint") /\ FileStage /\ \A p \in Procs : TokenStage(p)

(* What cards and heads name, wherever they are.                           *)
GoodHead(h) == h # Nil => h \in Heads /\ h.n \in 1 .. Len(rep[h.of])
GoodToken(t) == t # Nil /\ Calm => t = 1
GoodCard(c) == c # Nil => c \in Cards /\ GoodHead(c.head) /\ (Calm => c.token = 1)

HoldsGood(p) ==
  /\ GoodCard(proc[p].card) /\ GoodCard(proc[p].got["card"])
  /\ GoodHead(proc[p].got["repHead"]) /\ GoodToken(proc[p].got["tokenId"])
GoodRecord(e) ==
  /\ e.key = "card" => GoodCard(e.val)
  /\ e.key = "repHead" => GoodHead(e.val)
  /\ e.key = "tokenId" => GoodToken(e.val)

PlacesGood ==
  /\ GoodCard(records["card"]) /\ GoodHead(records["repHead"]) /\ GoodToken(records["tokenId"])
  /\ \A i \in 1 .. Len(pool) : GoodRecord(pool[i])

(* What record k will be when the pool is mined: the value sent last.      *)
Latest(k, v) ==
  \/ /\ \A i \in 1 .. Len(pool) : pool[i].key # k
     /\ v = records[k]
  \/ \E i \in 1 .. Len(pool) :
       /\ pool[i].key = k /\ pool[i].val = v
       /\ \A j \in 1 .. Len(pool) : j > i => pool[j].key # k

Coherent(r) ==
  r["card"] # Nil => /\ r["tokenId"] = r["card"].token
                     /\ r["card"].head # Nil => r["repHead"] = r["card"].head

(* They will be one publication, or are on the way from one to the next.   *)
Progress(r) ==
  /\ (\A p \in Procs : At(p, "publishing") => proc[p].next = 1) => Coherent(r)
  /\ \A p \in Procs : At(p, "publishing") /\ proc[p].next > 1 =>
       /\ r["card"] = proc[p].card
       /\ proc[p].next > 3 => r["tokenId"] = proc[p].card.token

Settling ==
  \E r \in [KeySet -> Values] : (\A k \in KeySet : Latest(k, r[k])) /\ Progress(r)

(* A reader has records of one publication, as they all still are.         *)
Reader(p) ==
  /\ At(p, "reading") =>
       Coherent(records) /\ \A k \in proc[p].seen : proc[p].got[k] = records[k]
  /\ proc[p].cmd = "directory" /\ proc[p].at \in {"ranking", "done"} =>
       Coherent(proc[p].got) /\ proc[p].got["card"] # Nil

RecordsInv == Quiet => One("publish") /\ Settling /\ \A p \in Procs : Reader(p)

(* A query that has walked a chain has the score that the same walk would  *)
(* still give.                                                             *)
Asked == [skill : Skills \cup {Nil}, score : Nat, walked : BOOLEAN]
HasChain(p) ==
  /\ proc[p].cmd = "directory"
  /\ proc[p].got["repHead"] # Nil /\ proc[p].got["tokenId"] # Nil
Ranked(p) ==
  /\ At(p, "ranking") => HasChain(p)
  /\ query[p].walked => At(p, "done") /\ HasChain(p) /\ query[p].score = Score(p)

RankInv == query \in [Procs -> Asked] /\ \A p \in Procs : Ranked(p)

WorkInv ==
  /\ \A p \in Procs : Role(p) /\ HoldsGood(p)
  /\ PlacesGood

EInv == IInv /\ WorkInv /\ TokenInv /\ RecordsInv /\ RankInv

-----------------------------------------------------------------------------
Others(p) == \A q \in Procs : q # p => proc'[q] = proc[q]
KeepsWho(p) == proc'[p].cmd = proc[p].cmd /\ proc'[p].id = proc[p].id
KeepsHands(p) ==
  /\ proc'[p].card = proc[p].card /\ proc'[p].next = proc[p].next
  /\ proc'[p].got = proc[p].got /\ proc'[p].seen = proc[p].seen

LEMMA GotoShape ==
  ASSUME IInv, NEW p \in Procs, NEW s, Goto(p, s)
  PROVE  Others(p) /\ proc'[p].at = s /\ KeepsWho(p) /\ KeepsHands(p)
<1>1. proc[p] \in Process /\ proc \in [Procs -> Process]
  BY DEF IInv, Types
<1> DEFINE d == [proc[p] EXCEPT !.at = s]
<1>2. /\ d.at = s /\ d.cmd = proc[p].cmd /\ d.id = proc[p].id /\ d.card = proc[p].card
      /\ d.next = proc[p].next /\ d.got = proc[p].got /\ d.seen = proc[p].seen
  BY <1>1 DEF Process
<1>3. proc' = [proc EXCEPT ![p] = d]
  BY DEF Goto
<1> HIDE DEF d
<1>4. proc'[p] = d /\ Others(p)
  BY <1>1, <1>3 DEF Others
<1> QED
  BY <1>2, <1>4 DEF KeepsWho, KeepsHands

LEMMA StartShape ==
  ASSUME IInv, NEW p \in Procs, Start(p)
  PROVE  /\ Others(p) /\ proc'[p].at = "loading" /\ proc'[p].cmd \in DOMAIN Work
         /\ proc'[p].id = proc[p].id /\ KeepsHands(p)
         /\ proc'[p].cmd \in DOMAIN Overlap /\ Running(proc'[p].cmd)
              => mishaps' = mishaps \cup {Overlap[proc'[p].cmd]}
<1>1. proc[p] \in Process /\ proc \in [Procs -> Process]
  BY DEF IInv, Types
<1>2. PICK cmd \in Commands \ {"directory"}, n \in Names \cup {Nil} :
        /\ proc' = [proc EXCEPT ![p].cmd = cmd, ![p].ens = n, ![p].at = "loading"]
        /\ IF cmd \in DOMAIN Overlap /\ Running(cmd) THEN Note(Overlap[cmd])
                                                     ELSE UNCHANGED mishaps
  BY DEF Start, EnsName
<1> DEFINE d == [proc[p] EXCEPT !.cmd = cmd, !.ens = n, !.at = "loading"]
<1>3. /\ d.at = "loading" /\ d.cmd = cmd /\ d.id = proc[p].id /\ d.card = proc[p].card
      /\ d.next = proc[p].next /\ d.got = proc[p].got /\ d.seen = proc[p].seen
  BY <1>1 DEF Process
<1>4. proc' = [proc EXCEPT ![p] = d]
  BY <1>1, <1>2
<1> HIDE DEF d
<1>5. proc'[p] = d /\ Others(p)
  BY <1>1, <1>4 DEF Others
<1>6. cmd \in DOMAIN Work
  BY WorkIs DEF Commands
<1> QED
  BY <1>2, <1>3, <1>5, <1>6 DEF KeepsHands, Note

LEMMA QueryShape ==
  ASSUME IInv, NEW p \in Procs, Query(p)
  PROVE  /\ Others(p) /\ proc'[p].at = "reading" /\ proc'[p].cmd = "directory"
         /\ proc'[p].id = proc[p].id /\ KeepsHands(p)
<1>1. proc[p] \in Process /\ proc \in [Procs -> Process]
  BY DEF IInv, Types
<1> DEFINE d == [proc[p] EXCEPT !.cmd = "directory", !.at = "reading"]
<1>2. /\ d.at = "reading" /\ d.cmd = "directory" /\ d.id = proc[p].id /\ d.card = proc[p].card
      /\ d.next = proc[p].next /\ d.got = proc[p].got /\ d.seen = proc[p].seen
  BY <1>1 DEF Process
<1>3. proc' = [proc EXCEPT ![p] = d]
  BY <1>1 DEF Query
<1> HIDE DEF d
<1>4. proc'[p] = d /\ Others(p)
  BY <1>1, <1>3 DEF Others
<1> QED
  BY <1>2, <1>4 DEF KeepsHands

LEMMA HoldsShape ==
  ASSUME IInv, NEW p \in Procs, NEW i, Holds(p, i), proc[p].cmd \in DOMAIN Work
  PROVE  /\ Others(p) /\ proc'[p].cmd = proc[p].cmd /\ proc'[p].id = i /\ KeepsHands(p)
         /\ proc[p].cmd = "mint" => proc'[p].at = "minting"
         /\ proc[p].cmd = "publish" => proc'[p].at = "publishing"
         /\ proc[p].cmd = "agent" => proc'[p].at = "serving"
         /\ proc[p].cmd = "show" => proc'[p].at = "done"
         /\ proc[p].cmd \in {"mint", "publish", "agent", "show"}
<1>1. proc[p] \in Process /\ proc \in [Procs -> Process]
  BY DEF IInv, Types
<1> DEFINE w == Work[proc[p].cmd]
<1>2. /\ proc[p].cmd = "mint" => w = "minting"
      /\ proc[p].cmd = "publish" => w = "publishing"
      /\ proc[p].cmd = "agent" => w = "serving"
      /\ proc[p].cmd = "show" => w = "done"
      /\ proc[p].cmd \in {"mint", "publish", "agent", "show"}
  BY DEF Work
<1>3. proc' = [proc EXCEPT ![p].id = i, ![p].at = w]
  BY DEF Holds
<1> HIDE DEF w
<1> DEFINE d == [proc[p] EXCEPT !.id = i, !.at = w]
<1>4. /\ d.at = w /\ d.cmd = proc[p].cmd /\ d.id = i /\ d.card = proc[p].card
      /\ d.next = proc[p].next /\ d.got = proc[p].got /\ d.seen = proc[p].seen
  BY <1>1 DEF Process
<1>5. proc' = [proc EXCEPT ![p] = d]
  BY <1>1, <1>3
<1> HIDE DEF d
<1>6. proc'[p] = d /\ Others(p)
  BY <1>1, <1>5 DEF Others
<1> QED
  BY <1>2, <1>4, <1>6 DEF KeepsHands

LEMMA ReceiptShape ==
  ASSUME IInv, NEW p \in Procs, GetReceipt(p)
  PROVE  /\ Others(p) /\ proc'[p].at = "saving" /\ proc'[p].cmd = proc[p].cmd
         /\ KeepsHands(p) /\ Knows(p) /\ Knows(p)' /\ proc'[p].id.token \in 1 .. Len(tokens)
<1>1. proc[p] \in Process /\ proc \in [Procs -> Process] /\ AtStage(p)
      /\ tokens \in Seq([pub : Procs, by : Procs])
  BY DEF IInv, Types, Holders
<1>2. Knows(p) /\ proc[p].id \in Ids
  BY <1>1 DEF AtStage, At, Holding, Process, Knows, GetReceipt
<1>3. PICK i \in 1 .. Len(tokens) : proc' = [proc EXCEPT ![p].id.token = i, ![p].at = "saving"]
  <2>1. DOMAIN tokens = 1 .. Len(tokens)
    BY <1>1, LenProperties
  <2> QED
    BY <2>1 DEF GetReceipt
<1> DEFINE j == [proc[p].id EXCEPT !.token = i]
<1>4. j # Nil /\ j.token = i
  <2>1. i \in Nat
    <3>1. Len(tokens) \in Nat
      BY <1>1, LenProperties
    <3> QED
      BY <3>1
  <2>2. j \in Ids /\ j.token = i
    BY <1>2, <2>1 DEF Ids
  <2> QED
    BY <2>2, CommandLineAssumption DEF Ids
<1>5. proc' = [proc EXCEPT ![p] = [proc[p] EXCEPT !.id = j, !.at = "saving"]]
  BY <1>1, <1>3 DEF Process
<1> HIDE DEF j
<1> DEFINE d == [proc[p] EXCEPT !.id = j, !.at = "saving"]
<1>6. /\ d.at = "saving" /\ d.cmd = proc[p].cmd /\ d.id = j /\ d.card = proc[p].card
      /\ d.next = proc[p].next /\ d.got = proc[p].got /\ d.seen = proc[p].seen
  BY <1>1 DEF Process
<1>7. proc' = [proc EXCEPT ![p] = d]
  BY <1>5
<1> HIDE DEF d
<1>8. proc'[p] = d /\ Others(p)
  BY <1>1, <1>7 DEF Others
<1> QED
  BY <1>2, <1>4, <1>6, <1>8 DEF KeepsHands, Knows

LEMMA BuildShape ==
  ASSUME IInv, NEW p \in Procs, BuildCard(p)
  PROVE  /\ Others(p) /\ proc'[p].at = proc[p].at /\ KeepsWho(p)
         /\ proc'[p].next = proc[p].next /\ proc'[p].got = proc[p].got
         /\ proc'[p].seen = proc[p].seen
         /\ Knows(p) /\ proc'[p].card \in Cards /\ proc'[p].card.token = proc[p].id.token
         /\ proc'[p].card.head # Nil =>
              /\ proc'[p].card.head \in Heads
              /\ proc'[p].card.head.n \in 1 .. Len(rep[proc'[p].card.head.of])
<1>1. /\ proc[p] \in Process /\ proc \in [Procs -> Process] /\ AtStage(p)
      /\ rep \in [Procs -> Seq(Attested)]
  BY DEF IInv, Types, Holders
<1>2. Knows(p) /\ proc[p].id \in Ids
  BY <1>1 DEF AtStage, At, Holding, Process, Knows, BuildCard
<1>3. PICK h \in {Nil} \cup {[of |-> q, n |-> Len(rep[q])] : q \in {q \in Procs : rep[q] # <<>>}} :
        proc' = [proc EXCEPT ![p].card =
                   [pub |-> proc[p].id.pub, token |-> proc[p].id.token, head |-> h]]
  BY DEF BuildCard
<1>4. h # Nil => h \in Heads /\ h.n \in 1 .. Len(rep[h.of])
  <2>1. ASSUME NEW q \in Procs, rep[q] # <<>> PROVE Len(rep[q]) \in Nat \ {0}
    BY <1>1, <2>1, LenProperties, EmptySeq
  <2> QED
    BY <1>3, <2>1 DEF Heads
<1> DEFINE b == [pub |-> proc[p].id.pub, token |-> proc[p].id.token, head |-> h]
<1>5. b \in Cards /\ b.token = proc[p].id.token /\ b.head = h
  BY <1>2, <1>4 DEF Cards, Ids
<1>6. proc' = [proc EXCEPT ![p].card = b]
  BY <1>3
<1> HIDE DEF b
<1> DEFINE d == [proc[p] EXCEPT !.card = b]
<1>7. /\ d.at = proc[p].at /\ d.cmd = proc[p].cmd /\ d.id = proc[p].id /\ d.card = b
      /\ d.next = proc[p].next /\ d.got = proc[p].got /\ d.seen = proc[p].seen
  BY <1>1 DEF Process
<1>8. proc' = [proc EXCEPT ![p] = d]
  BY <1>1, <1>6
<1> HIDE DEF d
<1>9. proc'[p] = d /\ Others(p)
  BY <1>1, <1>8 DEF Others
<1> QED
  BY <1>2, <1>4, <1>5, <1>7, <1>9 DEF KeepsWho

LEMMA SendShape ==
  ASSUME IInv, NEW p \in Procs, SendRecord(p)
  PROVE  /\ Others(p) /\ KeepsWho(p) /\ proc'[p].card = proc[p].card
         /\ proc'[p].got = proc[p].got /\ proc'[p].seen = proc[p].seen
         /\ proc'[p].next = proc[p].next + 1 /\ proc[p].next \in 1 .. 4
         /\ proc'[p].at = IF proc[p].next = 4 THEN "done" ELSE "publishing"
<1>1. proc[p] \in Process /\ proc \in [Procs -> Process] /\ AtStage(p) /\ At(p, "publishing")
  BY DEF IInv, Types, Holders, SendRecord
<1> DEFINE s == IF proc[p].next = Len(Keys) THEN "done" ELSE proc[p].at
           d == [proc[p] EXCEPT !.next = @ + 1, !.at = s]
<1>2. s = IF proc[p].next = 4 THEN "done" ELSE "publishing"
  <2>1. Len(Keys) = 4
    BY DEF Keys
  <2> QED
    BY <1>1, <2>1 DEF At
<1>3. proc' = [proc EXCEPT ![p] = d]
  BY <1>1 DEF SendRecord
<1> HIDE DEF s
<1>4. /\ d.at = s /\ d.cmd = proc[p].cmd /\ d.id = proc[p].id /\ d.card = proc[p].card
      /\ d.next = proc[p].next + 1 /\ d.got = proc[p].got /\ d.seen = proc[p].seen
  BY <1>1 DEF Process
<1> HIDE DEF d
<1>5. proc'[p] = d /\ Others(p)
  BY <1>1, <1>3 DEF Others
<1> QED
  BY <1>1, <1>2, <1>4, <1>5 DEF KeepsWho, AtStage, At

LEMMA ReadShape ==
  ASSUME IInv, NEW p \in Procs, NEW k \in Used, ReadRecord(p, k)
  PROVE  /\ Others(p) /\ proc'[p].at = proc[p].at /\ KeepsWho(p)
         /\ proc'[p].card = proc[p].card /\ proc'[p].next = proc[p].next
         /\ proc'[p].seen = proc[p].seen \cup {k}
         /\ proc'[p].got = [proc[p].got EXCEPT ![k] = records[k]]
         /\ proc[p].got \in [Used -> Values]
<1>1. proc[p] \in Process /\ proc \in [Procs -> Process]
  BY DEF IInv, Types
<1> DEFINE g == [proc[p].got EXCEPT ![k] = records[k]]
           n == proc[p].seen \cup {k}
<1>2. proc' = [proc EXCEPT ![p] = [proc[p] EXCEPT !.got = g, !.seen = n]]
  BY <1>1 DEF ReadRecord, Process
<1> HIDE DEF g, n
<1> DEFINE d == [proc[p] EXCEPT !.got = g, !.seen = n]
<1>3. /\ d.at = proc[p].at /\ d.cmd = proc[p].cmd /\ d.id = proc[p].id /\ d.card = proc[p].card
      /\ d.next = proc[p].next /\ d.got = g /\ d.seen = n
  BY <1>1 DEF Process
<1> HIDE DEF d
<1>4. proc'[p] = d /\ Others(p)
  BY <1>1, <1>2 DEF Others, d
<1>5. proc[p].got \in [Used -> Values]
  BY <1>1 DEF Process
<1> QED
  BY <1>3, <1>4, <1>5 DEF KeepsWho, g, n

-----------------------------------------------------------------------------
(* Who does what, and what cards and heads name.                           *)
LEMMA GoodStays ==
  ASSUME mishaps \subseteq mishaps',
         \A q \in Procs : 1 .. Len(rep[q]) \subseteq 1 .. Len(rep'[q])
  PROVE  /\ \A h : GoodHead(h) => GoodHead(h)'
         /\ \A t : GoodToken(t) => GoodToken(t)'
         /\ \A c : GoodCard(c) => GoodCard(c)'
         /\ \A e : GoodRecord(e) => GoodRecord(e)'
<1>1. Calm' => Calm
  BY DEF Calm
<1>2. ASSUME NEW h, GoodHead(h) PROVE GoodHead(h)'
  BY <1>2 DEF GoodHead, Heads
<1>3. ASSUME NEW c, GoodCard(c) PROVE GoodCard(c)'
  BY <1>1, <1>2, <1>3 DEF GoodCard
<1>4. ASSUME NEW t, GoodToken(t) PROVE GoodToken(t)'
  BY <1>1, <1>4 DEF GoodToken
<1>5. ASSUME NEW e, GoodRecord(e) PROVE GoodRecord(e)'
  BY <1>2, <1>3, <1>4, <1>5 DEF GoodRecord
<1> QED
  BY <1>2, <1>3, <1>4, <1>5

LEMMA PlacesStay ==
  ASSUME WorkInv, mishaps \subseteq mishaps', UNCHANGED <<records, pool>>,
         \A q \in Procs : 1 .. Len(rep[q]) \subseteq 1 .. Len(rep'[q])
  PROVE  PlacesGood'
<1>1. /\ \A h : GoodHead(h) => GoodHead(h)'
      /\ \A t : GoodToken(t) => GoodToken(t)'
      /\ \A c : GoodCard(c) => GoodCard(c)'
      /\ \A e : GoodRecord(e) => GoodRecord(e)'
  BY GoodStays
<1>2. /\ GoodCard(records["card"]) /\ GoodHead(records["repHead"]) /\ GoodToken(records["tokenId"])
      /\ \A i \in 1 .. Len(pool) : GoodRecord(pool[i])
  BY DEF WorkInv, PlacesGood
<1>3. GoodCard(records["card"])'
  BY <1>1, <1>2 DEF GoodCard
<1>4. GoodHead(records["repHead"])' /\ GoodToken(records["tokenId"])'
  BY <1>1, <1>2 DEF GoodHead, GoodToken
<1>5. \A i \in 1 .. Len(pool') : GoodRecord(pool[i])'
  BY <1>1, <1>2 DEF GoodRecord
<1> QED
  BY <1>3, <1>4, <1>5 DEF PlacesGood

LEMMA WorkStep ==
  ASSUME IInv, WorkInv, NEW p \in Procs, Others(p), mishaps \subseteq mishaps', rep' = rep,
         Role(p)', HoldsGood(p)', PlacesGood'
  PROVE  WorkInv'
<1>1. ASSUME NEW q \in Procs, q # p PROVE Role(q)'
  <2>1. Role(q) /\ proc'[q] = proc[q]
    BY <1>1 DEF WorkInv, Others
  <2> QED
    BY <2>1 DEF Role, At, Knows
<1>2. ASSUME NEW q \in Procs, q # p PROVE HoldsGood(q)'
  <2>1. HoldsGood(q) /\ proc'[q] = proc[q]
    BY <1>2 DEF WorkInv, Others
  <2>2. /\ \A h : GoodHead(h) => GoodHead(h)'
        /\ \A t : GoodToken(t) => GoodToken(t)'
        /\ \A c : GoodCard(c) => GoodCard(c)'
    BY GoodStays
  <2> QED
    BY <2>1, <2>2 DEF HoldsGood
<1> QED
  BY <1>1, <1>2 DEF WorkInv

(* What a process holds does not change with its stage.                    *)
LEMMA HandsStay ==
  ASSUME WorkInv, NEW p \in Procs, KeepsHands(p), mishaps \subseteq mishaps', rep' = rep
  PROVE  HoldsGood(p)'
<1>1. HoldsGood(p)
  BY DEF WorkInv
<1>2. /\ \A h : GoodHead(h) => GoodHead(h)'
      /\ \A t : GoodToken(t) => GoodToken(t)'
      /\ \A c : GoodCard(c) => GoodCard(c)'
  BY GoodStays
<1> QED
  BY <1>1, <1>2 DEF HoldsGood, KeepsHands

LEMMA GotoWork ==
  ASSUME IInv, WorkInv, NEW p \in Procs, NEW s, Goto(p, s),
         UNCHANGED <<rep, records, pool>>, mishaps \subseteq mishaps',
         s \in Minting => proc[p].at \in Minting,
         s \in {"creating", "filling"} => Creates(proc[p].cmd),
         s = "ranking" => At(p, "reading"),
         s \notin {"idle", "publishing", "serving", "reading"}
  PROVE  WorkInv'
<1>1. Others(p) /\ proc'[p].at = s /\ KeepsWho(p) /\ KeepsHands(p)
  BY GotoShape
<1>2. Role(p)
  BY DEF WorkInv
<1>3. Role(p)'
  BY <1>1, <1>2 DEF Role, KeepsWho, KeepsHands, At, Knows
<1>4. HoldsGood(p)'
  BY <1>1, HandsStay
<1>5. PlacesGood'
  BY PlacesStay
<1> QED
  BY <1>1, <1>3, <1>4, <1>5, WorkStep

LEMMA MovesWork ==
  ASSUME IInv, WorkInv, NEW p \in Procs,
         \/ LoadNothing(p) \/ LoadRefused(p) \/ CreateFile(p) \/ SendMint(p) \/ MintFails(p)
         \/ TruncateFile(p) \/ RewriteFile(p) \/ PublishFails(p) \/ StopAgent(p)
         \/ Interrupt(p) \/ LeaveOut(p) \/ Answer(p) \/ ReadFails(p) \/ Rank(p) \/ WalkFails(p)
  PROVE  WorkInv'
<1>1. UNCHANGED <<rep, records, pool>> /\ mishaps \subseteq mishaps'
  BY DEF LoadNothing, LoadRefused, CreateFile, SendMint, MintFails, TruncateFile, RewriteFile,
         PublishFails, StopAgent, Interrupt, LeaveOut, Answer, ReadFails, Rank, WalkFails, Note
<1>2. PICK s \in {"failed", "creating", "filling", "waiting", "rewriting", "ranking", "done"} :
        /\ Goto(p, s)
        /\ s = "ranking" => At(p, "reading")
        /\ s \in Minting => proc[p].at \in Minting
        /\ s \in {"creating", "filling"} => Creates(proc[p].cmd)
  <2>1. CASE LoadNothing(p)
    <3>1. (Goto(p, "creating") /\ Creates(proc[p].cmd)) \/ Goto(p, "failed")
      BY <2>1 DEF LoadNothing
    <3> QED
      BY <3>1 DEF Minting
  <2>2. CASE CreateFile(p)
    <3>1. Goto(p, "filling") \/ Goto(p, "failed")
      BY <2>2 DEF CreateFile
    <3>2. Creates(proc[p].cmd)
      BY <2>2 DEF CreateFile, At, WorkInv, Role
    <3> QED
      BY <3>1, <3>2 DEF Minting
  <2>3. CASE SendMint(p)
    BY <2>3 DEF SendMint, Minting, At
  <2>4. CASE TruncateFile(p)
    BY <2>4 DEF TruncateFile, Minting, At
  <2>5. CASE LoadRefused(p) \/ MintFails(p) \/ RewriteFile(p) \/ PublishFails(p)
              \/ StopAgent(p) \/ Interrupt(p) \/ LeaveOut(p) \/ ReadFails(p) \/ Rank(p) \/ WalkFails(p)
    <3>1. Goto(p, "failed") \/ Goto(p, "done")
      BY <2>5 DEF LoadRefused, MintFails, RewriteFile, PublishFails, StopAgent, Interrupt,
                  LeaveOut, ReadFails, Rank, WalkFails
    <3> QED
      BY <3>1 DEF Minting
  <2>6. CASE Answer(p)
    <3>1. Goto(p, "failed") \/ Goto(p, "done") \/ Goto(p, "ranking")
      BY <2>6 DEF Answer
    <3>2. At(p, "reading")
      BY <2>6 DEF Answer
    <3> QED
      BY <3>1, <3>2 DEF Minting
  <2> QED
    BY <2>1, <2>2, <2>3, <2>4, <2>5, <2>6
<1> QED
  BY <1>1, <1>2, GotoWork

LEMMA StartWork ==
  ASSUME IInv, WorkInv, NEW p \in Procs, Start(p) \/ Query(p)
  PROVE  WorkInv'
<1>1. UNCHANGED <<rep, records, pool>> /\ mishaps \subseteq mishaps' /\ At(p, "idle")
  BY DEF Start, Query, Note
<1>2. /\ Others(p) /\ proc'[p].id = proc[p].id /\ KeepsHands(p)
      /\ \/ proc'[p].at = "loading"
         \/ proc'[p].at = "reading" /\ proc'[p].cmd = "directory"
  BY StartShape, QueryShape
<1>3. Role(p) /\ ~Knows(p)
  BY <1>1 DEF WorkInv, IInv, Holders, AtStage, At, Early
<1>4. Role(p)'
  BY <1>1, <1>2, <1>3 DEF Role, KeepsHands, At, Knows, Minting
<1>5. HoldsGood(p)'
  BY <1>1, <1>2, HandsStay
<1>6. PlacesGood'
  BY <1>1, PlacesStay
<1> QED
  BY <1>1, <1>2, <1>4, <1>5, <1>6, WorkStep

LEMMA HoldsWork ==
  ASSUME IInv, WorkInv, NEW p \in Procs, NEW i \in Ids, Holds(p, i),
         proc[p].at \in {"loading", "filling"},
         proc[p].cmd = "publish" => i.token # 0,
         proc[p].cmd = "agent" /\ i.token = 0 => "early" \in mishaps',
         UNCHANGED <<rep, records, pool>>, mishaps \subseteq mishaps'
  PROVE  WorkInv'
<1>1. Role(p) /\ ~Knows(p) /\ proc[p].next = 1 /\ proc[p].cmd \in DOMAIN Work
  BY DEF WorkInv, IInv, Holders, AtStage, Early
<1>2. /\ Others(p) /\ proc'[p].cmd = proc[p].cmd /\ proc'[p].id = i /\ KeepsHands(p)
      /\ proc[p].cmd = "mint" => proc'[p].at = "minting"
      /\ proc[p].cmd = "publish" => proc'[p].at = "publishing"
      /\ proc[p].cmd = "agent" => proc'[p].at = "serving"
      /\ proc[p].cmd = "show" => proc'[p].at = "done"
      /\ proc[p].cmd \in {"mint", "publish", "agent", "show"}
  BY <1>1, HoldsShape
<1>3. Role(p)'
  BY <1>1, <1>2 DEF Role, KeepsHands, At, Knows, Minting
<1>4. HoldsGood(p)'
  BY <1>2, HandsStay
<1>5. PlacesGood'
  BY PlacesStay
<1> QED
  BY <1>2, <1>3, <1>4, <1>5, WorkStep

LEMMA LoadWork ==
  ASSUME IInv, WorkInv, NEW p \in Procs, Load(p) \/ FillFile(p)
  PROVE  WorkInv'
<1>1. UNCHANGED <<rep, records, pool>> /\ mishaps \subseteq mishaps'
  BY DEF Load, FillFile, Note
<1>2. CASE Load(p) /\ Goto(p, "failed")
  BY <1>1, <1>2, GotoWork DEF Minting
<1>3. CASE Load(p) /\ Holds(p, file)
  <2>1. file \in Ids /\ proc[p].at = "loading"
    BY <1>3 DEF Load, Whole, At, IInv, Types
  <2>2. proc[p].cmd = "agent" /\ file.token = 0 => "early" \in mishaps'
    BY <1>3 DEF Load, Note
  <2>3. ~(proc[p].cmd = "publish" /\ file.token = 0)
    <3>1. ASSUME proc[p].cmd = "publish" /\ file.token = 0 PROVE FALSE
      <4>1. Goto(p, "failed")
        BY <1>3, <3>1 DEF Load
      <4>2. proc'[p].at = "failed"
        BY <4>1, GotoShape
      <4>3. proc[p].cmd \in DOMAIN Work
        BY <2>1 DEF IInv, Holders, AtStage, Early
      <4>4. proc'[p].at = "publishing"
        BY <1>3, <2>1, <3>1, <4>3, HoldsShape
      <4> QED
        BY <4>2, <4>4
    <3> QED
      BY <3>1
  <2> QED
    BY <1>1, <1>3, <2>1, <2>2, <2>3, HoldsWork
<1>4. CASE FillFile(p)
  <2>1. proc[p].at = "filling" /\ proc[p].ens \in Names
    BY <1>4 DEF FillFile, At, IInv, Holders, AtStage, Early
  <2> DEFINE fresh == [pub |-> p, ens |-> proc[p].ens, token |-> 0]
  <2>2. fresh \in Ids /\ fresh.token = 0
    BY <2>1 DEF Ids
  <2>3. Holds(p, fresh) /\ (proc[p].cmd = "agent" => "early" \in mishaps')
    BY <1>4 DEF FillFile, Note
  <2> HIDE DEF fresh
  <2>4. proc[p].cmd # "publish"
    BY <2>1 DEF WorkInv, Role, Creates
  <2> QED
    BY <1>1, <2>1, <2>2, <2>3, <2>4, HoldsWork
<1> QED
  BY <1>2, <1>3, <1>4 DEF Load

LEMMA ReceiptWork ==
  ASSUME IInv, WorkInv, NEW p \in Procs, GetReceipt(p)
  PROVE  WorkInv'
<1>1. UNCHANGED <<rep, records, pool, mishaps>> /\ At(p, "waiting")
  BY DEF GetReceipt
<1>2. /\ Others(p) /\ proc'[p].at = "saving" /\ proc'[p].cmd = proc[p].cmd
      /\ KeepsHands(p) /\ Knows(p) /\ Knows(p)'
  BY ReceiptShape
<1>3. proc[p].cmd = "mint" /\ Role(p)
  BY <1>1 DEF WorkInv, Role, At, Minting
<1>4. Role(p)'
  BY <1>1, <1>2, <1>3 DEF Role, KeepsHands, At, Minting, Creates
<1>5. HoldsGood(p)'
  BY <1>1, <1>2, HandsStay
<1>6. PlacesGood'
  BY <1>1, PlacesStay
<1> QED
  BY <1>1, <1>2, <1>4, <1>5, <1>6, WorkStep

(* Attested calls, and mined mints, change nothing of it but the chains.   *)
LEMMA ChainsWork ==
  ASSUME IInv, WorkInv, NEW p \in Procs, MineMint(p) \/ Serve(p)
  PROVE  WorkInv'
<1>1. /\ UNCHANGED <<records, pool, proc, mishaps>>
      /\ \A q \in Procs : 1 .. Len(rep[q]) \subseteq 1 .. Len(rep'[q])
      /\ \A q \in Procs : rep'[q] # <<>> => rep[q] # <<>> \/ At(q, "serving")
  <2>1. CASE MineMint(p)
    BY <2>1 DEF MineMint
  <2>2. CASE Serve(p)
    BY <2>2, ServeShape DEF Serve
  <2> QED
    BY <2>1, <2>2
<1>2. PlacesGood'
  BY <1>1, PlacesStay
<1>3. ASSUME NEW q \in Procs PROVE Role(q)'
  <2>1. Role(q) /\ AtStage(q)
    BY DEF WorkInv, IInv, Holders
  <2> QED
    BY <1>1, <2>1 DEF Role, AtStage, Holding, At, Knows
<1>4. ASSUME NEW q \in Procs PROVE HoldsGood(q)'
  <2>1. /\ \A h : GoodHead(h) => GoodHead(h)'
        /\ \A t : GoodToken(t) => GoodToken(t)'
        /\ \A c : GoodCard(c) => GoodCard(c)'
    BY <1>1, GoodStays
  <2> QED
    BY <1>1, <2>1 DEF HoldsGood, WorkInv
<1> QED
  BY <1>2, <1>3, <1>4 DEF WorkInv

(* The token of a card is that of the file it was built from, and its head *)
(* that of an agent.                                                       *)
LEMMA BuildWork ==
  ASSUME IInv, WorkInv, TokenInv, NEW p \in Procs, BuildCard(p)
  PROVE  WorkInv'
<1>1. UNCHANGED <<tokens, sent, file, rep, records, pool, mishaps>> /\ At(p, "publishing")
  BY DEF BuildCard
<1>2. /\ Others(p) /\ proc'[p].at = proc[p].at /\ KeepsWho(p)
      /\ proc'[p].next = proc[p].next /\ proc'[p].got = proc[p].got
      /\ Knows(p) /\ proc'[p].card \in Cards /\ proc'[p].card.token = proc[p].id.token
      /\ proc'[p].card.head # Nil =>
           /\ proc'[p].card.head \in Heads
           /\ proc'[p].card.head.n \in 1 .. Len(rep[proc'[p].card.head.of])
  BY BuildShape
<1>3. Role(p) /\ HoldsGood(p) /\ proc[p].cmd = "publish" /\ proc[p].id.token # 0
  BY <1>1, <1>2 DEF WorkInv, Role, At
<1>4. Calm => proc[p].id.token = 1
  <2>1. Calm => proc[p].id.token \in {0, 1}
    BY <1>2 DEF TokenInv, TokenStage
  <2> QED
    BY <1>3, <2>1
<1>5. proc'[p].card # Nil
  BY <1>2, CommandLineAssumption
<1>6. Role(p)'
  BY <1>1, <1>2, <1>3, <1>5 DEF Role, KeepsWho, At, Knows
<1>7. HoldsGood(p)'
  <2>1. /\ \A h : GoodHead(h) => GoodHead(h)'
        /\ \A t : GoodToken(t) => GoodToken(t)'
        /\ \A c : GoodCard(c) => GoodCard(c)'
    BY <1>1, GoodStays
  <2>2. /\ GoodCard(proc[p].got["card"])' /\ GoodHead(proc[p].got["repHead"])'
        /\ GoodToken(proc[p].got["tokenId"])'
    BY <1>2, <1>3, <2>1 DEF HoldsGood
  <2>3. GoodCard(proc[p].card)'
    BY <1>1, <1>2, <1>4 DEF GoodCard, GoodHead, Calm
  <2> QED
    BY <2>2, <2>3 DEF HoldsGood
<1>8. PlacesGood'
  BY <1>1, PlacesStay
<1> QED
  BY <1>1, <1>2, <1>6, <1>7, <1>8, WorkStep

(* What is sent is the record of a good card.                              *)
LEMMA Sending ==
  ASSUME IInv, NEW p \in Procs, SendRecord(p)
  PROVE  /\ proc[p].card # Nil /\ proc[p].card \in Cards /\ proc[p].next \in 1 .. 4
         /\ \E val :
              /\ proc[p].next = 1 => val = proc[p].card
              /\ proc[p].next = 3 => val = proc[p].card.token
              /\ proc[p].next = 4 => val = proc[p].card.head
              /\ pool' = IF val = Nil THEN pool
                         ELSE Append(pool, [key |-> Keys[proc[p].next], val |-> val])
              /\ val \in Values
<1>1. /\ proc[p] \in Process /\ AtStage(p) /\ proc[p].card # Nil /\ proc[p].next \in 1 .. 4
  BY DEF IInv, Types, Holders, SendRecord, AtStage, At
<1>2. proc[p].card \in Cards
  BY <1>1 DEF Process
<1> DEFINE val == Bundle(proc[p].card)[Keys[proc[p].next]]
<1>3. /\ Keys[1] = "card" /\ Keys[2] = "pubkey" /\ Keys[3] = "tokenId" /\ Keys[4] = "repHead"
  BY DEF Keys
<1>4. /\ proc[p].next = 1 => val = proc[p].card
      /\ proc[p].next = 2 => val = proc[p].card.pub
      /\ proc[p].next = 3 => val = proc[p].card.token
      /\ proc[p].next = 4 => val = proc[p].card.head
  BY <1>3, KeysAre DEF Bundle
<1>5. pool' = IF val = Nil THEN pool
              ELSE Append(pool, [key |-> Keys[proc[p].next], val |-> val])
  BY DEF SendRecord
<1> HIDE DEF val
<1>6. val \in Values
  BY <1>1, <1>2, <1>4 DEF Cards, Values
<1> QED
  BY <1>1, <1>2, <1>4, <1>5, <1>6

LEMMA KeyNumbers ==
  ASSUME NEW n \in 1 .. 4
  PROVE  /\ Keys[n] = "card" => n = 1
         /\ Keys[n] = "tokenId" => n = 3
         /\ Keys[n] = "repHead" => n = 4
<1>1. n = 1 \/ n = 2 \/ n = 3 \/ n = 4
  OBVIOUS
<1>2. Keys[1] = "card" /\ Keys[2] = "pubkey" /\ Keys[3] = "tokenId" /\ Keys[4] = "repHead"
  BY DEF Keys
<1> QED
  BY <1>1, <1>2

LEMMA SendWork ==
  ASSUME IInv, WorkInv, NEW p \in Procs, SendRecord(p)
  PROVE  WorkInv'
<1>1. UNCHANGED <<rep, records, mishaps>> /\ At(p, "publishing") /\ proc[p].card # Nil
      /\ pool \in Seq([key : KeySet, val : Values])
  BY DEF SendRecord, IInv, Types
<1>2. /\ Others(p) /\ KeepsWho(p) /\ proc'[p].card = proc[p].card
      /\ proc'[p].got = proc[p].got /\ proc'[p].next = proc[p].next + 1
      /\ proc'[p].at = IF proc[p].next = 4 THEN "done" ELSE "publishing"
  BY SendShape
<1>3. PICK val \in Values :
        /\ proc[p].next = 1 => val = proc[p].card
        /\ proc[p].next = 3 => val = proc[p].card.token
        /\ proc[p].next = 4 => val = proc[p].card.head
        /\ pool' = IF val = Nil THEN pool
                   ELSE Append(pool, [key |-> Keys[proc[p].next], val |-> val])
  BY Sending
<1>4. proc[p].next \in 1 .. 4
  BY Sending
<1>5. Role(p) /\ HoldsGood(p)
  BY DEF WorkInv
<1>6. Role(p)'
  BY <1>1, <1>2, <1>5 DEF Role, KeepsWho, At, Knows, Minting
<1>7. /\ \A h : GoodHead(h) => GoodHead(h)'
      /\ \A t : GoodToken(t) => GoodToken(t)'
      /\ \A c : GoodCard(c) => GoodCard(c)'
      /\ \A e : GoodRecord(e) => GoodRecord(e)'
  BY <1>1, GoodStays
<1>8. HoldsGood(p)'
  BY <1>2, <1>5, <1>7 DEF HoldsGood
<1> DEFINE e == [key |-> Keys[proc[p].next], val |-> val]
<1>9. e \in [key : KeySet, val : Values] /\ e.key = Keys[proc[p].next] /\ e.val = val
  BY <1>4, KeysAre
<1> HIDE DEF e
<1>10. GoodRecord(e)
  <2>1. GoodCard(proc[p].card) /\ GoodHead(proc[p].card.head) /\ GoodToken(proc[p].card.token)
    BY <1>1, <1>5 DEF HoldsGood, GoodCard, GoodToken
  <2>2. /\ e.key = "card" => proc[p].next = 1
        /\ e.key = "tokenId" => proc[p].next = 3
        /\ e.key = "repHead" => proc[p].next = 4
    BY <1>4, <1>9, KeyNumbers
  <2> QED
    BY <1>3, <1>9, <2>1, <2>2 DEF GoodRecord
<1>11. \A i \in 1 .. Len(pool') : GoodRecord(pool'[i])
  <2>1. \A i \in 1 .. Len(pool) : GoodRecord(pool[i])
    BY DEF WorkInv, PlacesGood
  <2>2. pool' = pool \/ pool' = Append(pool, e)
    BY <1>3 DEF e
  <2>3. CASE pool' = Append(pool, e)
    <3>1. \A i \in 1 .. Len(pool') : \/ i \in 1 .. Len(pool) /\ pool'[i] = pool[i]
                                  \/ pool'[i] = e
      BY <1>1, <1>9, <2>3, Longer
    <3> QED
      BY <1>10, <2>1, <3>1
  <2> QED
    BY <2>1, <2>2, <2>3
<1>12. PlacesGood'
  <2>1. /\ GoodCard(records["card"])' /\ GoodHead(records["repHead"])'
        /\ GoodToken(records["tokenId"])'
    BY <1>1, <1>7 DEF WorkInv, PlacesGood
  <2>2. \A i \in 1 .. Len(pool') : GoodRecord(pool[i])'
    BY <1>7, <1>11
  <2> QED
    BY <2>1, <2>2 DEF PlacesGood
<1> QED
  BY <1>1, <1>2, <1>6, <1>8, <1>12, WorkStep

LEMMA MineRecordWork ==
  ASSUME IInv, WorkInv, MineRecord
  PROVE  WorkInv'
<1>1. /\ UNCHANGED <<rep, proc>> /\ mishaps \subseteq mishaps' /\ pool # <<>>
      /\ pool' = Tail(pool)
      /\ records' = [records EXCEPT ![Head(pool).key] = Head(pool).val]
  BY DEF MineRecord, Note
<1>2. /\ pool \in Seq([key : KeySet, val : Values]) /\ records \in [KeySet -> Values]
      /\ "card" \in KeySet /\ "repHead" \in KeySet /\ "tokenId" \in KeySet
  BY KeysAre DEF IInv, Types
<1>3. /\ Head(pool) = pool[1] /\ 1 \in 1 .. Len(pool)
      /\ \A i \in 1 .. Len(pool') : i + 1 \in 1 .. Len(pool) /\ pool'[i] = pool[i + 1]
  BY <1>1, <1>2, Shorter
<1>4. /\ \A h : GoodHead(h) => GoodHead(h)'
      /\ \A t : GoodToken(t) => GoodToken(t)'
      /\ \A c : GoodCard(c) => GoodCard(c)'
      /\ \A e : GoodRecord(e) => GoodRecord(e)'
  BY <1>1, GoodStays
<1>5. GoodRecord(Head(pool)) /\ \A i \in 1 .. Len(pool') : GoodRecord(pool'[i])
  BY <1>3 DEF WorkInv, PlacesGood
<1>6. GoodCard(records'["card"]) /\ GoodHead(records'["repHead"]) /\ GoodToken(records'["tokenId"])
  BY <1>1, <1>2, <1>5 DEF WorkInv, PlacesGood, GoodRecord
<1>7. PlacesGood'
  <2>1. /\ GoodCard(records["card"])' /\ GoodHead(records["repHead"])'
        /\ GoodToken(records["tokenId"])'
    BY <1>4, <1>6
  <2>2. \A i \in 1 .. Len(pool') : GoodRecord(pool[i])'
    BY <1>4, <1>5
  <2> QED
    BY <2>1, <2>2 DEF PlacesGood
<1>8. ASSUME NEW q \in Procs PROVE Role(q)' /\ HoldsGood(q)'
  <2>1. Role(q) /\ HoldsGood(q)
    BY DEF WorkInv
  <2>2. Role(q)'
    BY <1>1, <2>1 DEF Role, At, Knows
  <2>3. HoldsGood(q)'
    BY <1>1, <1>4, <2>1 DEF HoldsGood
  <2> QED
    BY <2>2, <2>3
<1> QED
  BY <1>7, <1>8 DEF WorkInv

LEMMA ReadWork ==
  ASSUME IInv, WorkInv, NEW p \in Procs, NEW k \in Used, ReadRecord(p, k)
  PROVE  WorkInv'
<1>1. UNCHANGED <<rep, records, pool, mishaps>> /\ proc[p].at = "reading"
  BY DEF ReadRecord, At
<1>2. /\ Others(p) /\ proc'[p].at = proc[p].at /\ KeepsWho(p)
      /\ proc'[p].card = proc[p].card /\ proc'[p].next = proc[p].next
      /\ proc'[p].got = [proc[p].got EXCEPT ![k] = records[k]]
      /\ proc[p].got \in [Used -> Values]
  BY ReadShape
<1>3. /\ Role(p) /\ HoldsGood(p) /\ GoodCard(records["card"]) /\ GoodHead(records["repHead"])
      /\ GoodToken(records["tokenId"])
  BY DEF WorkInv, PlacesGood
<1>4. Role(p)'
  BY <1>1, <1>2, <1>3 DEF Role, KeepsWho, At, Knows
<1>5. /\ GoodCard(proc'[p].got["card"]) /\ GoodHead(proc'[p].got["repHead"])
      /\ GoodToken(proc'[p].got["tokenId"])
  <2>1. "card" \in Used /\ "repHead" \in Used /\ "tokenId" \in Used
    BY KeysAre
  <2> QED
    BY <1>2, <1>3, <2>1 DEF HoldsGood
<1>6. HoldsGood(p)'
  <2>1. /\ \A h : GoodHead(h) => GoodHead(h)'
        /\ \A t : GoodToken(t) => GoodToken(t)'
        /\ \A c : GoodCard(c) => GoodCard(c)'
    BY <1>1, GoodStays
  <2> QED
    BY <1>2, <1>3, <1>5, <2>1 DEF HoldsGood
<1>7. PlacesGood'
  BY <1>1, PlacesStay
<1> QED
  BY <1>1, <1>2, <1>4, <1>6, <1>7, WorkStep

LEMMA InitWork == Init => WorkInv
<1> SUFFICES ASSUME Init PROVE WorkInv
  OBVIOUS
<1>1. /\ Idle.at = "idle" /\ Idle.id = Nil /\ Idle.next = 1 /\ Idle.card = Nil
      /\ Idle.got["card"] = Nil /\ Idle.got["repHead"] = Nil /\ Idle.got["tokenId"] = Nil
      /\ Idle.seen = {}
  BY KeysAre DEF Idle
<1>2. \A p \in Procs : proc[p] = Idle /\ rep[p] = <<>>
  BY DEF Init, LineInit
<1>3. ASSUME NEW p \in Procs PROVE Role(p)
  <2>1. /\ proc[p].at = "idle" /\ proc[p].id = Nil /\ proc[p].next = 1 /\ rep[p] = <<>>
        /\ proc[p].seen = {}
    BY <1>1, <1>2
  <2> QED
    BY <2>1 DEF Role, At, Knows, Minting
<1>4. \A p \in Procs : HoldsGood(p)
  BY <1>1, <1>2 DEF HoldsGood, GoodCard, GoodHead, GoodToken
<1>5. /\ records["card"] = Nil /\ records["repHead"] = Nil /\ records["tokenId"] = Nil
      /\ Len(pool) = 0
  BY KeysAre DEF Init, LineInit
<1>6. PlacesGood
  BY <1>5 DEF PlacesGood, GoodCard, GoodHead, GoodToken
<1> QED
  BY <1>3, <1>4, <1>6 DEF WorkInv

LEMMA NextWork ==
  ASSUME IInv, WorkInv, TokenInv, [Next]_vars
  PROVE  WorkInv'
<1>1. CASE UNCHANGED vars
  <2>1. UNCHANGED <<file, tokens, sent, rep, records, pool, proc, mishaps>>
    BY <1>1 DEF vars, lineVars
  <2>2. \A p \in Procs : Role(p)' /\ HoldsGood(p)'
    BY <2>1 DEF WorkInv, Role, HoldsGood, GoodCard, GoodHead, GoodToken, Calm, At, Knows
  <2>3. PlacesGood'
    BY <2>1, PlacesStay
  <2> QED
    BY <2>2, <2>3 DEF WorkInv
<1>2. ASSUME NEW p \in Procs,
             \/ LoadNothing(p) \/ LoadRefused(p) \/ CreateFile(p) \/ SendMint(p)
             \/ MintFails(p) \/ TruncateFile(p) \/ RewriteFile(p) \/ PublishFails(p)
             \/ StopAgent(p) \/ Interrupt(p)
             \/ LeaveOut(p) \/ Answer(p) \/ ReadFails(p) \/ Rank(p) \/ WalkFails(p)
      PROVE  WorkInv'
  BY <1>2, MovesWork
<1>3. ASSUME NEW p \in Procs,
             Start(p) \/ Query(p) \/ Load(p) \/ FillFile(p) \/ GetReceipt(p)
      PROVE  WorkInv'
  BY <1>3, StartWork, LoadWork, ReceiptWork
<1>4. ASSUME NEW p \in Procs, MineMint(p) \/ Serve(p) \/ BuildCard(p) \/ SendRecord(p)
      PROVE  WorkInv'
  BY <1>4, ChainsWork, BuildWork, SendWork
<1>5. ASSUME NEW p \in Procs, NEW k \in Used, ReadRecord(p, k) PROVE WorkInv'
  BY <1>5, ReadWork
<1>6. CASE MineRecord
  BY <1>6, MineRecordWork
<1> QED
  BY <1>1, <1>2, <1>3, <1>4, <1>5, <1>6 DEF Next, LineNext

-----------------------------------------------------------------------------
(* Where the token is.                                                     *)
LEMMA TokenParts ==
  ASSUME TokenInv, mishaps \subseteq mishaps', Calm'
  PROVE  Calm /\ One("mint") /\ FileStage /\ \A p \in Procs : TokenStage(p)
<1>1. Calm
  BY DEF Calm
<1> QED
  BY <1>1 DEF TokenInv

LEMMA TokenStep ==
  ASSUME IInv, TokenInv, NEW p \in Procs, Others(p), mishaps \subseteq mishaps',
         tokens' = tokens,
         \A q \in Procs : q # p => (q \in sent' <=> q \in sent),
         Calm' => /\ TokenStage(p)' /\ FileStage'
                  /\ Busy(p, "mint")' => Busy(p, "mint") \/ \A q \in Procs : ~Busy(q, "mint")
                  /\ \A q \in Procs : q # p /\ At(q, "rewriting") => file' = Torn
  PROVE  TokenInv'
<1> SUFFICES ASSUME Calm'
             PROVE  One("mint")' /\ \A q \in Procs : q # p => TokenStage(q)'
  BY DEF TokenInv
<1>1. One("mint") /\ \A q \in Procs : TokenStage(q)
  BY TokenParts
<1>2. \A q \in Procs : q # p => proc'[q] = proc[q]
  BY DEF Others
<1>3. \A q \in Procs : q # p => (Busy(q, "mint")' <=> Busy(q, "mint"))
  BY <1>2 DEF Busy
<1>4. One("mint")'
  BY <1>1, <1>3 DEF One
<1>5. ASSUME NEW q \in Procs, q # p PROVE TokenStage(q)'
  <2>1. TokenStage(q) /\ proc'[q] = proc[q] /\ (q \in sent' <=> q \in sent)
        /\ (At(q, "rewriting") => file' = Torn)
    BY <1>1, <1>2, <1>5
  <2> QED
    BY <2>1 DEF TokenStage, At, Knows
<1> QED
  BY <1>4, <1>5

(* A process that mints nothing leaves the token where it is.              *)
LEMMA Bystander ==
  ASSUME IInv, TokenInv, NEW p \in Procs, Others(p), mishaps \subseteq mishaps',
         UNCHANGED <<file, tokens, sent>>, proc'[p].id = proc[p].id,
         proc[p].at \notin Minting, proc'[p].at \notin Minting,
         Calm' /\ Busy(p, "mint")' => Busy(p, "mint") \/ \A q \in Procs : ~Busy(q, "mint")
  PROVE  TokenInv'
<1>1. ASSUME Calm' PROVE TokenStage(p)'
  <2>1. TokenStage(p)
    BY <1>1, TokenParts
  <2> QED
    BY <2>1 DEF TokenStage, At, Knows, Minting
<1>2. ASSUME Calm' PROVE FileStage'
  <2>1. FileStage
    BY <1>2, TokenParts
  <2>2. \A q \in Procs : proc[q].at \in Minting => proc'[q].at \in Minting
    BY DEF Others
  <2>3. Kept'
    BY <2>1, <2>2 DEF FileStage, Kept, Whole
  <2> QED
    BY <2>1, <2>3 DEF FileStage, Whole
<1>3. ASSUME Calm', NEW q \in Procs, At(q, "rewriting") PROVE file' = Torn
  <2>1. TokenStage(q)
    BY <1>3, TokenParts
  <2> QED
    BY <1>3, <2>1 DEF TokenStage
<1> QED
  BY <1>1, <1>2, <1>3, TokenStep

LEMMA StartToken ==
  ASSUME IInv, WorkInv, TokenInv, NEW p \in Procs, Start(p)
  PROVE  TokenInv'
<1>1. /\ UNCHANGED <<file, tokens, sent>> /\ mishaps \subseteq mishaps' /\ proc[p].at = "idle"
  BY DEF Start, Note, At
<1>2. /\ Others(p) /\ proc'[p].at = "loading" /\ proc'[p].id = proc[p].id
      /\ proc'[p].cmd \in DOMAIN Overlap /\ Running(proc'[p].cmd)
           => mishaps' = mishaps \cup {Overlap[proc'[p].cmd]}
  BY StartShape
<1>3. ASSUME Calm', Busy(p, "mint")' PROVE \A q \in Procs : ~Busy(q, "mint")
  <2>1. "mint" \in DOMAIN Overlap /\ Overlap["mint"] = "twoMints"
    BY DEF Overlap
  <2>2. proc'[p].cmd = "mint"
    BY <1>3 DEF Busy
  <2>3. ~Running("mint")
    BY <1>2, <1>3, <2>1, <2>2 DEF Calm
  <2> QED
    BY <2>3 DEF Running, Busy
<1> QED
  BY <1>1, <1>2, <1>3, Bystander DEF Minting

(* p goes on, at other things than a mint.                                 *)
Passes(p) ==
  /\ Others(p) /\ proc'[p].id = proc[p].id
  /\ proc'[p].at \in {"reading", "creating", "failed", "publishing", "ranking", "done"}
  /\ proc'[p].cmd = "mint" => proc[p].cmd = "mint" /\ ~At(p, "idle")

LEMMA BystandersToken ==
  ASSUME IInv, WorkInv, TokenInv, NEW p \in Procs,
         \/ Query(p) \/ LoadNothing(p) \/ LoadRefused(p) \/ BuildCard(p) \/ SendRecord(p)
         \/ PublishFails(p) \/ StopAgent(p)
         \/ LeaveOut(p) \/ Answer(p) \/ ReadFails(p) \/ Rank(p) \/ WalkFails(p)
         \/ \E k \in Used : ReadRecord(p, k)
         \/ Load(p) /\ Goto(p, "failed")
  PROVE  TokenInv'
<1>1. /\ UNCHANGED <<file, tokens, sent>> /\ mishaps \subseteq mishaps'
      /\ proc[p].at \in {"idle", "loading", "publishing", "serving", "reading", "ranking"}
  BY DEF Query, LoadNothing, LoadRefused, BuildCard, SendRecord, PublishFails, StopAgent,
         LeaveOut, Answer, ReadFails, Rank, WalkFails, ReadRecord, Load, Note, At
<1>2. Passes(p)
  <2>1. CASE Query(p)
    BY <2>1, QueryShape DEF Passes
  <2>2. CASE BuildCard(p)
    BY <2>2, BuildShape DEF BuildCard, At, KeepsWho, Passes
  <2>3. CASE SendRecord(p)
    BY <2>3, SendShape DEF SendRecord, At, KeepsWho, Passes
  <2>4. CASE \E k \in Used : ReadRecord(p, k)
    BY <2>4, ReadShape DEF KeepsWho, ReadRecord, At, Passes
  <2>5. CASE \/ LoadNothing(p) \/ LoadRefused(p) \/ PublishFails(p) \/ StopAgent(p)
             \/ LeaveOut(p) \/ Answer(p) \/ ReadFails(p) \/ Rank(p) \/ WalkFails(p)
             \/ (Load(p) /\ Goto(p, "failed"))
    <3>1. Goto(p, "failed") \/ Goto(p, "creating") \/ Goto(p, "done") \/ Goto(p, "ranking")
      <4>1. CASE Answer(p)
        BY <4>1 DEF Answer
      <4>2. CASE ~Answer(p)
        BY <2>5, <4>2 DEF LoadNothing, LoadRefused, PublishFails, StopAgent, LeaveOut, ReadFails,
                          Rank, WalkFails
      <4> QED
        BY <4>1, <4>2
    <3>2. ~At(p, "idle")
      BY <2>5 DEF LoadNothing, LoadRefused, PublishFails, StopAgent, LeaveOut, Answer,
                  ReadFails, Rank, WalkFails, Load, At
    <3> QED
      BY <3>1, <3>2, GotoShape DEF KeepsWho, Passes
  <2> QED
    BY <2>1, <2>2, <2>3, <2>4, <2>5
<1>3. Busy(p, "mint")' => Busy(p, "mint")
  BY <1>1, <1>2 DEF Busy, Passes, At
<1> QED
  BY <1>1, <1>2, <1>3, Bystander DEF Minting, Passes

LEMMA LoadToken ==
  ASSUME IInv, WorkInv, TokenInv, NEW p \in Procs, Load(p), Holds(p, file)
  PROVE  TokenInv'
<1>1. /\ UNCHANGED <<file, tokens, sent>> /\ mishaps \subseteq mishaps' /\ Whole
      /\ proc[p].at = "loading" /\ proc[p].cmd \in DOMAIN Work
  BY DEF Load, Note, At, IInv, Holders, AtStage, Early
<1>2. /\ Others(p) /\ proc'[p].cmd = proc[p].cmd /\ proc'[p].id = file
      /\ proc[p].cmd = "mint" => proc'[p].at = "minting"
      /\ proc'[p].at \in {"minting", "publishing", "serving", "done"}
      /\ proc'[p].at = "minting" => proc[p].cmd = "mint"
  BY <1>1, HoldsShape
<1>3. ASSUME Calm'
      PROVE  TokenStage(p)' /\ FileStage'
             /\ \A q \in Procs : At(q, "rewriting") => file' = Torn
  <2>1. One("mint") /\ FileStage /\ \A q \in Procs : TokenStage(q)
    BY <1>1, <1>3, TokenParts
  <2>2. ASSUME proc[p].cmd = "mint" PROVE \A q \in Procs : proc[q].at \notin Minting
    <3>1. Busy(p, "mint")
      BY <1>1, <2>2 DEF Busy
    <3>2. ASSUME NEW q \in Procs, proc[q].at \in Minting PROVE FALSE
      <4>1. Busy(q, "mint")
        BY <3>2 DEF WorkInv, Role, Busy, Minting
      <4> QED
        BY <1>1, <2>1, <3>1, <3>2, <4>1 DEF One, Minting
    <3> QED
      BY <3>2
  <2>3. proc[p].cmd = "mint" /\ file.token = 0 => Len(tokens) = 0
    BY <1>1, <2>1, <2>2 DEF FileStage, Kept, Whole
  <2>4. TokenStage(p)'
    <3>1. p \notin sent
      BY <1>1, <2>1 DEF TokenStage, At
    <3> QED
      BY <1>1, <1>2, <2>1, <2>3, <3>1 DEF TokenStage, FileStage, At, Knows
  <2>5. FileStage'
    <3>1. \A q \in Procs : proc[q].at \in Minting => proc'[q].at \in Minting
      BY <1>1, <1>2 DEF Others, Minting
    <3>2. Kept'
      BY <1>1, <2>1, <3>1 DEF FileStage, Kept, Whole
    <3> QED
      BY <1>1, <2>1, <3>2 DEF FileStage, Whole
  <2> QED
    BY <1>1, <2>1, <2>4, <2>5 DEF TokenStage
<1>4. Busy(p, "mint")' => Busy(p, "mint")
  BY <1>1, <1>2 DEF Busy
<1> QED
  BY <1>1, <1>2, <1>3, <1>4, TokenStep

(* Before the file is filled nothing can have been minted.                 *)
LEMMA NoTokenYet ==
  ASSUME IInv, \A q \in Procs : ~Knows(q)
  PROVE  Len(tokens) = 0
<1>1. Len(tokens) \in Nat
  BY LenProperties DEF IInv, Types
<1>2. \A t \in 1 .. Len(tokens) : FALSE
  BY DEF IInv, TokensKnown, Known
<1> QED
  BY <1>1, <1>2

LEMMA FillToken ==
  ASSUME IInv, WorkInv, TokenInv, NEW p \in Procs, FillFile(p)
  PROVE  TokenInv'
<1>1. /\ UNCHANGED <<tokens, sent>> /\ mishaps \subseteq mishaps'
      /\ proc[p].at = "filling" /\ proc[p].cmd \in DOMAIN Work /\ proc[p].ens \in Names
  BY DEF FillFile, Note, At, IInv, Holders, AtStage, Early
<1>2. \A q \in Procs : ~Knows(q) /\ proc[q].at \notin Minting
  <2>1. \A q \in Procs : ~Knows(q)
    BY <1>1 DEF IInv, Holders, FirstFile, At
  <2> QED
    BY <2>1 DEF IInv, Holders, AtStage, Holding, Minting
<1>3. PICK i \in Ids : i.token = 0 /\ file' = i /\ Holds(p, i)
  <2> DEFINE fresh == [pub |-> p, ens |-> proc[p].ens, token |-> 0]
  <2>1. fresh \in Ids /\ fresh.token = 0
    BY <1>1 DEF Ids
  <2>2. file' = fresh /\ Holds(p, fresh)
    BY DEF FillFile
  <2> HIDE DEF fresh
  <2> QED
    BY <2>1, <2>2
<1>4. /\ Others(p) /\ proc'[p].cmd = proc[p].cmd /\ proc'[p].id = i
      /\ proc'[p].at \in {"minting", "publishing", "serving", "done"}
  BY <1>1, <1>3, HoldsShape
<1>5. Len(tokens) = 0
  BY <1>2, NoTokenYet
<1>6. Busy(p, "mint")' => Busy(p, "mint")
  BY <1>1, <1>4 DEF Busy
<1>7. ASSUME Calm' PROVE TokenStage(p)' /\ FileStage'
  <2>1. p \notin sent
    BY <1>1, <1>7, TokenParts DEF TokenStage, At
  <2>2. TokenStage(p)'
    BY <1>1, <1>3, <1>4, <1>5, <2>1 DEF TokenStage, At
  <2>3. FileStage'
    BY <1>1, <1>3, <1>5 DEF FileStage, Kept
  <2> QED
    BY <2>2, <2>3
<1>8. \A q \in Procs : ~At(q, "rewriting")
  BY <1>2 DEF At, Minting
<1> QED
  BY <1>1, <1>4, <1>6, <1>7, <1>8, TokenStep

LEMMA CreateToken ==
  ASSUME IInv, WorkInv, TokenInv, NEW p \in Procs, CreateFile(p)
  PROVE  TokenInv'
<1>1. /\ UNCHANGED <<tokens, sent, mishaps>> /\ proc[p].at = "creating"
  BY DEF CreateFile, At
<1>2. CASE file # Absent
  <2>1. Goto(p, "failed") /\ UNCHANGED file
    BY <1>2 DEF CreateFile
  <2>2. Others(p) /\ proc'[p].at = "failed" /\ KeepsWho(p)
    BY <2>1, GotoShape
  <2>3. ~Busy(p, "mint")'
    BY <2>2 DEF Busy
  <2> QED
    BY <1>1, <2>1, <2>2, <2>3, Bystander DEF Minting, KeepsWho
<1>3. CASE file = Absent
  <2>1. Goto(p, "filling") /\ file' = Torn
    BY <1>3 DEF CreateFile
  <2>2. Others(p) /\ proc'[p].at = "filling" /\ KeepsWho(p)
    BY <2>1, GotoShape
  <2>3. Len(tokens) = 0
    BY <1>3, NoTokenYet DEF IInv, Holders, FirstFile
  <2>4. Busy(p, "mint")' => Busy(p, "mint")
    BY <1>1, <2>2 DEF Busy, KeepsWho
  <2>5. ASSUME Calm' PROVE TokenStage(p)' /\ FileStage'
    <3>1. TokenStage(p)
      BY <1>1, <2>5, TokenParts
    <3>2. TokenStage(p)'
      BY <1>1, <2>2, <3>1 DEF TokenStage, At, KeepsWho, Knows
    <3>3. FileStage'
      BY <1>1, <2>1, <2>3 DEF FileStage, Kept, Whole
    <3> QED
      BY <3>2, <3>3
  <2> QED
    BY <1>1, <2>1, <2>2, <2>4, <2>5, TokenStep
<1> QED
  BY <1>2, <1>3

LEMMA SendMintToken ==
  ASSUME IInv, WorkInv, TokenInv, NEW p \in Procs, SendMint(p)
  PROVE  TokenInv'
<1>1. /\ UNCHANGED <<file, tokens>> /\ mishaps \subseteq mishaps' /\ sent' = sent \cup {p}
      /\ proc[p].at = "minting" /\ Goto(p, "waiting")
      /\ proc[p].id.token # 0 => "again" \in mishaps'
  BY DEF SendMint, Note, At
<1>2. Others(p) /\ proc'[p].at = "waiting" /\ KeepsWho(p)
  BY <1>1, GotoShape
<1>3. Busy(p, "mint")' => Busy(p, "mint")
  BY <1>1, <1>2 DEF Busy, KeepsWho
<1>4. ASSUME Calm'
      PROVE  TokenStage(p)' /\ FileStage'
             /\ \A q \in Procs : At(q, "rewriting") => file' = Torn
  <2>1. FileStage /\ \A q \in Procs : TokenStage(q)
    BY <1>1, <1>4, TokenParts
  <2>2. Len(tokens) = 0
    BY <1>1, <1>4, <2>1 DEF TokenStage, Calm, At
  <2>3. TokenStage(p)'
    BY <1>1, <1>2, <2>1, <2>2 DEF TokenStage, At, KeepsWho, Knows
  <2>4. FileStage'
    BY <1>1, <2>1, <2>2 DEF FileStage, Kept, Whole
  <2> QED
    BY <1>1, <2>1, <2>3, <2>4 DEF TokenStage
<1> QED
  BY <1>1, <1>2, <1>3, <1>4, TokenStep

(* A command that ends early is a mishap, or leaves the file torn.         *)
LEMMA BreakToken ==
  ASSUME IInv, WorkInv, TokenInv, NEW p \in Procs, MintFails(p) \/ Interrupt(p)
  PROVE  TokenInv'
<1>1. /\ UNCHANGED <<file, tokens, sent>> /\ mishaps \subseteq mishaps' /\ Goto(p, "failed")
      /\ \/ "halfway" \in mishaps'
         \/ proc[p].at \in {"filling", "rewriting"} /\ "torn" \in mishaps'
  BY DEF MintFails, Interrupt, Note
<1>2. Others(p) /\ proc'[p].at = "failed" /\ KeepsWho(p)
  BY <1>1, GotoShape
<1>3. ~Busy(p, "mint")'
  BY <1>2 DEF Busy
<1>4. ASSUME Calm'
      PROVE  TokenStage(p)' /\ FileStage'
             /\ \A q \in Procs : At(q, "rewriting") => file' = Torn
  <2>1. FileStage /\ \A q \in Procs : TokenStage(q)
    BY <1>1, <1>4, TokenParts
  <2>2. proc[p].at \in {"filling", "rewriting"} /\ "torn" \in mishaps'
    BY <1>1, <1>4 DEF Calm
  <2>3. file = Torn
    BY <2>1, <2>2 DEF TokenStage, At, IInv, Holders, FirstFile
  <2>4. TokenStage(p)'
    BY <1>1, <1>2, <2>1, <2>2 DEF TokenStage, At, KeepsWho, Knows
  <2>5. FileStage'
    BY <1>1, <2>1, <2>2, <2>3 DEF FileStage, Kept, Whole
  <2> QED
    BY <1>1, <2>1, <2>4, <2>5 DEF TokenStage
<1> QED
  BY <1>1, <1>2, <1>3, <1>4, TokenStep

LEMMA ReceiptToken ==
  ASSUME IInv, WorkInv, TokenInv, NEW p \in Procs, GetReceipt(p)
  PROVE  TokenInv'
<1>1. /\ UNCHANGED <<file, tokens, sent, mishaps>> /\ proc[p].at = "waiting" /\ p \notin sent
  BY DEF GetReceipt, At
<1>2. /\ Others(p) /\ proc'[p].at = "saving" /\ proc'[p].cmd = proc[p].cmd
      /\ proc'[p].id.token \in 1 .. Len(tokens)
  BY ReceiptShape
<1>3. Busy(p, "mint")' => Busy(p, "mint")
  BY <1>1, <1>2 DEF Busy
<1>4. ASSUME Calm'
      PROVE  TokenStage(p)' /\ FileStage'
             /\ \A q \in Procs : At(q, "rewriting") => file' = Torn
  <2>1. FileStage /\ \A q \in Procs : TokenStage(q)
    BY <1>1, <1>4, TokenParts
  <2>2. Len(tokens) = 1
    BY <1>1, <2>1 DEF TokenStage, At
  <2>3. proc'[p].id.token = 1
    BY <1>2, <2>2
  <2>4. TokenStage(p)'
    BY <1>1, <1>2, <2>2, <2>3 DEF TokenStage, At
  <2>5. Kept'
    BY <1>2 DEF Kept, Minting
  <2>6. FileStage'
    BY <1>1, <2>1, <2>5 DEF FileStage, Whole
  <2> QED
    BY <1>1, <2>1, <2>4, <2>6 DEF TokenStage
<1> QED
  BY <1>1, <1>2, <1>3, <1>4, TokenStep

(* The file is torn while it is rewritten, and then has the token.         *)
LEMMA WriteToken ==
  ASSUME IInv, WorkInv, TokenInv, NEW p \in Procs, TruncateFile(p) \/ RewriteFile(p)
  PROVE  TokenInv'
<1>1. UNCHANGED <<tokens, sent, mishaps>> /\ proc[p].at \in {"saving", "rewriting"}
  BY DEF TruncateFile, RewriteFile, At
<1>2. \/ TruncateFile(p) /\ Goto(p, "rewriting") /\ file' = Torn
      \/ RewriteFile(p) /\ Goto(p, "done") /\ proc[p].at = "rewriting"
  BY DEF TruncateFile, RewriteFile, At
<1>3. /\ Others(p) /\ KeepsWho(p)
      /\ \/ file' = Torn /\ proc'[p].at = "rewriting"
         \/ RewriteFile(p) /\ proc'[p].at = "done" /\ proc[p].at = "rewriting"
  BY <1>2, GotoShape
<1>4. Busy(p, "mint")' => Busy(p, "mint")
  BY <1>1, <1>3 DEF Busy, KeepsWho
<1>5. ASSUME Calm'
      PROVE  TokenStage(p)' /\ FileStage'
             /\ \A q \in Procs : q # p /\ At(q, "rewriting") => file' = Torn
  <2>1. One("mint") /\ FileStage /\ \A q \in Procs : TokenStage(q)
    BY <1>1, <1>5, TokenParts
  <2>2. Len(tokens) = 1 /\ proc[p].id.token = 1 /\ p \notin sent
        /\ (At(p, "rewriting") => file = Torn)
    BY <1>1, <2>1 DEF TokenStage, At
  <2>3. Knows(p) /\ proc[p].id \in Ids
    BY <1>1 DEF IInv, Types, Holders, AtStage, Holding, Process, Knows
  <2>4. TokenStage(p)'
    BY <1>1, <1>3, <2>2 DEF TokenStage, At, KeepsWho
  <2>5. RewriteFile(p) => Whole' /\ file' = proc[p].id
    <3>1. ASSUME RewriteFile(p) PROVE file' = proc[p].id
      BY <2>2, <3>1 DEF RewriteFile, Whole
    <3> QED
      BY <2>3, <3>1, CommandLineAssumption DEF Whole
  <2>6. FileStage'
    BY <1>1, <1>3, <2>1, <2>2, <2>5 DEF FileStage, Kept, Whole, Minting
  <2>7. ASSUME NEW q \in Procs, q # p, At(q, "rewriting") PROVE FALSE
    <3>1. Busy(p, "mint") /\ Busy(q, "mint")
      BY <1>1, <2>7 DEF WorkInv, Role, Busy, Minting, At
    <3> QED
      BY <2>1, <2>7, <3>1 DEF One
  <2> QED
    BY <2>4, <2>6, <2>7
<1> QED
  BY <1>1, <1>3, <1>4, <1>5, TokenStep

LEMMA MineMintToken ==
  ASSUME IInv, WorkInv, TokenInv, NEW p \in Procs, MineMint(p)
  PROVE  TokenInv'
<1>1. /\ p \in sent /\ sent' = sent \ {p} /\ UNCHANGED <<file, proc, mishaps>>
      /\ tokens' = Append(tokens, [pub |-> proc[p].id.pub, by |-> p])
  BY DEF MineMint
<1>2. tokens \in Seq([pub : Procs, by : Procs]) /\ Len(tokens') = Len(tokens) + 1
  <2> DEFINE e == [pub |-> proc[p].id.pub, by |-> p]
  <2>1. Knows(p) /\ proc[p] \in Process
    BY <1>1 DEF IInv, Types, Holders, AtStage
  <2>2. e \in [pub : Procs, by : Procs] /\ tokens \in Seq([pub : Procs, by : Procs])
    BY <2>1 DEF IInv, Types, Process, Ids, Knows
  <2>3. tokens' = Append(tokens, e)
    BY <1>1
  <2> HIDE DEF e
  <2> QED
    BY <2>2, <2>3, AppendProperties
<1> SUFFICES ASSUME Calm'
             PROVE  One("mint")' /\ FileStage' /\ \A q \in Procs : TokenStage(q)'
  BY DEF TokenInv
<1>3. One("mint") /\ FileStage /\ \A q \in Procs : TokenStage(q)
  BY <1>1, TokenParts
<1>4. proc[p].at = "waiting" /\ Len(tokens) = 0
  BY <1>1, <1>3 DEF TokenStage, At
<1>5. Len(tokens') = 1
  BY <1>2, <1>4
<1>6. ASSUME NEW q \in Procs, q # p PROVE proc[q].at \notin Minting
  <2>1. ASSUME proc[q].at \in Minting PROVE FALSE
    <3>1. Busy(p, "mint") /\ Busy(q, "mint")
      BY <1>4, <2>1 DEF WorkInv, Role, Busy, Minting
    <3> QED
      BY <1>3, <1>6, <3>1 DEF One
  <2> QED
    BY <2>1
<1>7. ASSUME NEW q \in Procs PROVE TokenStage(q)'
  <2>1. TokenStage(q)
    BY <1>3
  <2>2. CASE q = p
    BY <1>1, <1>4, <1>5, <2>1, <2>2 DEF TokenStage, At, Knows
  <2>3. CASE q # p
    BY <1>1, <1>6, <2>1, <2>3 DEF TokenStage, At, Knows, Minting
  <2> QED
    BY <2>2, <2>3
<1>8. FileStage'
  <2>1. proc'[p].at \in Minting
    BY <1>1, <1>4 DEF Minting
  <2> QED
    BY <1>1, <1>3, <1>5, <2>1 DEF FileStage, Kept, Whole
<1>9. One("mint")'
  BY <1>1, <1>3 DEF One, Busy
<1> QED
  BY <1>7, <1>8, <1>9

LEMMA AsideToken ==
  ASSUME TokenInv, UNCHANGED <<file, tokens, sent, proc>>, mishaps \subseteq mishaps'
  PROVE  TokenInv'
<1> SUFFICES ASSUME Calm'
             PROVE  One("mint")' /\ FileStage' /\ \A q \in Procs : TokenStage(q)'
  BY DEF TokenInv
<1>1. One("mint") /\ FileStage /\ \A q \in Procs : TokenStage(q)
  BY TokenParts
<1>2. One("mint")'
  BY <1>1 DEF One, Busy
<1>3. FileStage'
  BY <1>1 DEF FileStage, Kept, Whole
<1>4. ASSUME NEW q \in Procs PROVE TokenStage(q)'
  BY <1>1 DEF TokenStage, At, Knows
<1> QED
  BY <1>2, <1>3, <1>4

LEMMA InitToken == Init => TokenInv
<1> SUFFICES ASSUME Init PROVE TokenInv
  OBVIOUS
<1>1. Idle.at = "idle" /\ Idle.id = Nil
  BY DEF Idle
<1>2. \A p \in Procs : proc[p].at = "idle" /\ proc[p].id = Nil /\ p \notin sent
  BY <1>1 DEF Init, LineInit
<1>3. Len(tokens) = 0 /\ file = Absent
  BY DEF Init, LineInit
<1>4. \A p \in Procs : TokenStage(p)
  BY <1>2 DEF TokenStage, At, Knows
<1>5. FileStage
  BY <1>3 DEF FileStage, Kept, Whole
<1>6. \A p \in Procs : ~Busy(p, "mint")
  BY <1>2 DEF Busy
<1> QED
  BY <1>4, <1>5, <1>6 DEF TokenInv, One

LEMMA NextToken ==
  ASSUME IInv, WorkInv, TokenInv, [Next]_vars
  PROVE  TokenInv'
<1>1. CASE UNCHANGED vars
  BY <1>1, AsideToken DEF vars, lineVars
<1>2. ASSUME NEW p \in Procs,
             \/ Query(p) \/ LoadNothing(p) \/ LoadRefused(p) \/ BuildCard(p) \/ SendRecord(p)
             \/ PublishFails(p) \/ StopAgent(p)
             \/ LeaveOut(p) \/ Answer(p) \/ ReadFails(p) \/ Rank(p) \/ WalkFails(p)
      PROVE  TokenInv'
  BY <1>2, BystandersToken
<1>3. ASSUME NEW p \in Procs, NEW k \in Used, ReadRecord(p, k) PROVE TokenInv'
  BY <1>3, BystandersToken
<1>4. ASSUME NEW p \in Procs, Start(p) \/ CreateFile(p) \/ FillFile(p) PROVE TokenInv'
  BY <1>4, StartToken, CreateToken, FillToken
<1>5. ASSUME NEW p \in Procs, Load(p) PROVE TokenInv'
  <2>1. Goto(p, "failed") \/ Holds(p, file)
    BY <1>5 DEF Load
  <2> QED
    BY <1>5, <2>1, BystandersToken, LoadToken
<1>6. ASSUME NEW p \in Procs,
             \/ SendMint(p) \/ MintFails(p) \/ Interrupt(p) \/ GetReceipt(p)
             \/ TruncateFile(p) \/ RewriteFile(p) \/ MineMint(p)
      PROVE  TokenInv'
  BY <1>6, SendMintToken, BreakToken, ReceiptToken, WriteToken, MineMintToken
<1>7. ASSUME NEW p \in Procs, Serve(p) PROVE TokenInv'
  BY <1>7, AsideToken DEF Serve
<1>8. CASE MineRecord
  <2>1. UNCHANGED <<file, tokens, sent, proc>> /\ mishaps \subseteq mishaps'
    BY <1>8 DEF MineRecord, Note
  <2> QED
    BY <2>1, AsideToken
<1> QED
  BY <1>1, <1>2, <1>3, <1>4, <1>5, <1>6, <1>7, <1>8 DEF Next, LineNext

-----------------------------------------------------------------------------
(* What the records will be.                                               *)
LEMMA RecordsParts ==
  ASSUME RecordsInv, mishaps \subseteq mishaps', Quiet'
  PROVE  Quiet /\ One("publish") /\ Settling /\ \A p \in Procs : Reader(p)
<1>1. Quiet
  BY DEF Quiet
<1> QED
  BY <1>1 DEF RecordsInv

(* p is as far with its publication as it was, or has not begun.           *)
Paused(p) ==
  /\ At(p, "publishing") =>
       /\ At(p, "publishing")' /\ proc'[p].next = proc[p].next
       /\ proc[p].next > 1 => proc'[p].card = proc[p].card
  /\ At(p, "publishing")' => At(p, "publishing") \/ proc'[p].next = 1

LEMMA RecordsStep ==
  ASSUME IInv, RecordsInv, NEW p \in Procs, Others(p), mishaps \subseteq mishaps',
         UNCHANGED <<records, pool>>,
         Quiet' => /\ Reader(p)' /\ Paused(p)
                   /\ Busy(p, "publish")' =>
                        Busy(p, "publish") \/ \A q \in Procs : ~Busy(q, "publish")
  PROVE  RecordsInv'
<1> SUFFICES ASSUME Quiet'
             PROVE  One("publish")' /\ Settling' /\ \A q \in Procs : q # p => Reader(q)'
  BY DEF RecordsInv
<1>1. One("publish") /\ Settling /\ \A q \in Procs : Reader(q)
  BY RecordsParts
<1>2. \A q \in Procs : q # p => proc'[q] = proc[q]
  BY DEF Others
<1>3. One("publish")'
  <2>1. \A q \in Procs : q # p => (Busy(q, "publish")' <=> Busy(q, "publish"))
    BY <1>2 DEF Busy
  <2> QED
    BY <1>1, <2>1 DEF One
<1>4. Settling'
  <2>1. PICK r \in [KeySet -> Values] : (\A k \in KeySet : Latest(k, r[k])) /\ Progress(r)
    BY <1>1 DEF Settling
  <2>2. \A k \in KeySet : Latest(k, r[k])'
    BY <2>1 DEF Latest
  <2>3. \A q \in Procs : Paused(q)
    BY <1>2 DEF Paused, At
  <2>4. Progress(r)'
    <3>1. \A q \in Procs : At(q, "publishing")' /\ proc'[q].next > 1 =>
            /\ At(q, "publishing") /\ proc[q].next > 1
            /\ proc'[q].next = proc[q].next /\ proc'[q].card = proc[q].card
      BY <2>3 DEF Paused
    <3>2. \A q \in Procs : At(q, "publishing") =>
            At(q, "publishing")' /\ proc'[q].next = proc[q].next
      BY <2>3 DEF Paused
    <3> QED
      BY <2>1, <3>1, <3>2 DEF Progress
  <2> QED
    BY <2>1, <2>2, <2>4 DEF Settling
<1>5. ASSUME NEW q \in Procs, q # p PROVE Reader(q)'
  <2>1. Reader(q) /\ proc'[q] = proc[q]
    BY <1>1, <1>2, <1>5
  <2> QED
    BY <2>1 DEF Reader, At
<1> QED
  BY <1>3, <1>4, <1>5

(* Most steps neither read nor publish.                                    *)
LEMMA GotoRecords ==
  ASSUME IInv, WorkInv, RecordsInv, NEW p \in Procs, NEW s, Goto(p, s),
         UNCHANGED <<records, pool>>, mishaps \subseteq mishaps',
         s \notin {"reading", "ranking", "publishing"},
         s = "done" => proc[p].cmd # "directory",
         proc[p].at \notin {"idle", "done", "failed"}, At(p, "publishing") => ~Quiet'
  PROVE  RecordsInv'
<1>1. Others(p) /\ proc'[p].at = s /\ KeepsWho(p)
  BY GotoShape
<1>2. Reader(p)'
  BY <1>1 DEF Reader, At, KeepsWho
<1>3. Quiet' => Paused(p)
  BY <1>1 DEF Paused, At
<1>4. Busy(p, "publish")' => Busy(p, "publish")
  BY <1>1 DEF Busy, KeepsWho
<1> QED
  BY <1>1, <1>2, <1>3, <1>4, RecordsStep

LEMMA MovesRecords ==
  ASSUME IInv, WorkInv, RecordsInv, NEW p \in Procs,
         \/ LoadNothing(p) \/ LoadRefused(p) \/ CreateFile(p) \/ SendMint(p) \/ MintFails(p)
         \/ TruncateFile(p) \/ RewriteFile(p) \/ PublishFails(p) \/ StopAgent(p)
         \/ Interrupt(p) \/ LeaveOut(p) \/ ReadFails(p)
  PROVE  RecordsInv'
<1>1. UNCHANGED <<records, pool>> /\ mishaps \subseteq mishaps'
  BY DEF LoadNothing, LoadRefused, CreateFile, SendMint, MintFails, TruncateFile, RewriteFile,
         PublishFails, StopAgent, Interrupt, LeaveOut, ReadFails, Note
<1>2. proc[p].at \notin {"idle", "done", "failed"}
  BY DEF LoadNothing, LoadRefused, CreateFile, SendMint, MintFails, TruncateFile, RewriteFile,
         PublishFails, StopAgent, Interrupt, LeaveOut, ReadFails, At
<1>3. At(p, "publishing") => ~Quiet'
  <2>1. At(p, "publishing") => "halfway" \in mishaps'
    BY DEF LoadNothing, LoadRefused, CreateFile, SendMint, MintFails, TruncateFile, RewriteFile,
           PublishFails, StopAgent, Interrupt, LeaveOut, ReadFails, At, Note
  <2> QED
    BY <2>1 DEF Quiet
<1>4. PICK s \in {"failed", "creating", "filling", "waiting", "rewriting", "done"} :
        Goto(p, s) /\ (s = "done" => At(p, "rewriting") \/ At(p, "serving"))
  <2>1. CASE LoadNothing(p) \/ CreateFile(p)
    <3>1. Goto(p, "creating") \/ Goto(p, "filling") \/ Goto(p, "failed")
      BY <2>1 DEF LoadNothing, CreateFile
    <3> QED
      BY <3>1
  <2>2. CASE SendMint(p) \/ TruncateFile(p)
    <3>1. Goto(p, "waiting") \/ Goto(p, "rewriting")
      BY <2>2 DEF SendMint, TruncateFile
    <3> QED
      BY <3>1
  <2>3. CASE RewriteFile(p) \/ StopAgent(p)
    BY <2>3 DEF RewriteFile, StopAgent
  <2>4. CASE \/ LoadRefused(p) \/ MintFails(p) \/ PublishFails(p) \/ Interrupt(p)
             \/ LeaveOut(p) \/ ReadFails(p)
    BY <2>4 DEF LoadRefused, MintFails, PublishFails, Interrupt, LeaveOut, ReadFails
  <2> QED
    BY <2>1, <2>2, <2>3, <2>4
<1>5. s = "done" => proc[p].cmd # "directory"
  BY <1>4 DEF WorkInv, Role, At, Minting
<1> QED
  BY <1>1, <1>2, <1>3, <1>4, <1>5, GotoRecords

LEMMA StartRecords ==
  ASSUME IInv, WorkInv, RecordsInv, NEW p \in Procs, Start(p)
  PROVE  RecordsInv'
<1>1. UNCHANGED <<records, pool>> /\ mishaps \subseteq mishaps' /\ At(p, "idle")
  BY DEF Start, Note
<1>2. /\ Others(p) /\ proc'[p].at = "loading"
      /\ proc'[p].cmd \in DOMAIN Overlap /\ Running(proc'[p].cmd)
           => mishaps' = mishaps \cup {Overlap[proc'[p].cmd]}
  BY StartShape
<1>3. ASSUME Quiet', Busy(p, "publish")' PROVE \A q \in Procs : ~Busy(q, "publish")
  <2>1. "publish" \in DOMAIN Overlap /\ Overlap["publish"] = "twoPublishes"
    BY DEF Overlap
  <2>2. proc'[p].cmd = "publish"
    BY <1>3 DEF Busy
  <2>3. ~Running("publish")
    BY <1>2, <1>3, <2>1, <2>2 DEF Quiet
  <2> QED
    BY <2>3 DEF Running, Busy
<1>4. Reader(p)' /\ Paused(p)
  BY <1>1, <1>2 DEF Reader, Paused, At
<1> QED
  BY <1>1, <1>2, <1>3, <1>4, RecordsStep

LEMMA LoadRecords ==
  ASSUME IInv, WorkInv, RecordsInv, NEW p \in Procs, Load(p) \/ FillFile(p)
  PROVE  RecordsInv'
<1>1. /\ UNCHANGED <<records, pool>> /\ mishaps \subseteq mishaps'
      /\ proc[p].at \in {"loading", "filling"}
  BY DEF Load, FillFile, Note, At
<1>2. CASE Goto(p, "failed")
  BY <1>1, <1>2, GotoRecords DEF At
<1>3. ASSUME NEW i, Holds(p, i) PROVE RecordsInv'
  <2>1. proc[p].cmd \in DOMAIN Work /\ proc[p].next = 1
    BY <1>1 DEF IInv, Holders, AtStage, Early
  <2>2. /\ Others(p) /\ proc'[p].cmd = proc[p].cmd /\ KeepsHands(p)
        /\ proc[p].cmd \in {"mint", "publish", "agent", "show"}
        /\ proc'[p].at \in {"minting", "publishing", "serving", "done"}
    BY <1>3, <2>1, HoldsShape
  <2>3. Reader(p)'
    BY <2>2 DEF Reader, At
  <2>4. Paused(p)
    BY <1>1, <2>1, <2>2 DEF Paused, At, KeepsHands
  <2>5. Busy(p, "publish")' => Busy(p, "publish")
    BY <1>1, <2>2 DEF Busy
  <2> QED
    BY <1>1, <2>2, <2>3, <2>4, <2>5, RecordsStep
<1> QED
  BY <1>2, <1>3 DEF Load, FillFile

LEMMA ReceiptRecords ==
  ASSUME IInv, WorkInv, RecordsInv, NEW p \in Procs, GetReceipt(p)
  PROVE  RecordsInv'
<1>1. UNCHANGED <<records, pool, mishaps>> /\ At(p, "waiting")
  BY DEF GetReceipt
<1>2. Others(p) /\ proc'[p].at = "saving" /\ proc'[p].cmd = proc[p].cmd
  BY ReceiptShape
<1>3. Reader(p)' /\ Paused(p)
  BY <1>1, <1>2 DEF Reader, Paused, At
<1>4. Busy(p, "publish")' => Busy(p, "publish")
  BY <1>1, <1>2 DEF Busy, At
<1> QED
  BY <1>1, <1>2, <1>3, <1>4, RecordsStep

LEMMA BuildRecords ==
  ASSUME IInv, WorkInv, RecordsInv, NEW p \in Procs, BuildCard(p)
  PROVE  RecordsInv'
<1>1. UNCHANGED <<records, pool, mishaps>> /\ At(p, "publishing") /\ proc[p].card = Nil
  BY DEF BuildCard
<1>2. /\ Others(p) /\ proc'[p].at = proc[p].at /\ KeepsWho(p) /\ proc'[p].next = proc[p].next
  BY BuildShape
<1>3. ~(proc[p].next > 1)
  BY <1>1 DEF WorkInv, Role
<1>4. Reader(p)' /\ Paused(p)
  BY <1>1, <1>2, <1>3 DEF Reader, Paused, At
<1>5. Busy(p, "publish")' => Busy(p, "publish")
  BY <1>2 DEF Busy, KeepsWho
<1> QED
  BY <1>1, <1>2, <1>4, <1>5, RecordsStep

-----------------------------------------------------------------------------
(* The directory's own steps.                                              *)
LEMMA CoherentRecords ==
  ASSUME IInv, Settling, pool = <<>>, \A q \in Procs : ~At(q, "publishing")
  PROVE  Coherent(records)
<1>1. PICK r \in [KeySet -> Values] : (\A k \in KeySet : Latest(k, r[k])) /\ Progress(r)
  BY DEF Settling
<1>2. Len(pool) = 0
  OBVIOUS
<1>3. \A k \in KeySet : r[k] = records[k]
  BY <1>1, <1>2 DEF Latest
<1>4. Coherent(r)
  BY <1>1 DEF Progress
<1> QED
  BY <1>3, <1>4, KeysAre DEF Coherent

LEMMA QueryRecords ==
  ASSUME IInv, WorkInv, RecordsInv, NEW p \in Procs, Query(p)
  PROVE  RecordsInv'
<1>1. UNCHANGED <<records, pool>> /\ mishaps \subseteq mishaps' /\ At(p, "idle")
      /\ (Publishing => "mixed" \in mishaps')
  BY DEF Query, Note
<1>2. /\ Others(p) /\ proc'[p].at = "reading" /\ proc'[p].cmd = "directory" /\ KeepsHands(p)
  BY QueryShape
<1>3. ASSUME Quiet' PROVE Reader(p)'
  <2>1. Settling /\ ~Publishing
    BY <1>1, <1>3, RecordsParts DEF Quiet
  <2>2. Coherent(records)
    BY <2>1, CoherentRecords DEF Publishing
  <2>3. Coherent(records)'
    BY <1>1, <2>2 DEF Coherent
  <2>4. proc'[p].seen = {}
    BY <1>1, <1>2 DEF WorkInv, Role, KeepsHands
  <2> QED
    BY <1>2, <2>3, <2>4 DEF Reader, At
<1>4. Paused(p)
  BY <1>1, <1>2 DEF Paused, At
<1>5. ~Busy(p, "publish")'
  BY <1>2 DEF Busy
<1> QED
  BY <1>1, <1>2, <1>3, <1>4, <1>5, RecordsStep

LEMMA ReadRecords ==
  ASSUME IInv, WorkInv, RecordsInv, NEW p \in Procs, NEW k \in Used, ReadRecord(p, k)
  PROVE  RecordsInv'
<1>1. UNCHANGED <<records, pool, mishaps>> /\ At(p, "reading") /\ k \notin proc[p].seen
  BY DEF ReadRecord
<1>2. /\ Others(p) /\ proc'[p].at = proc[p].at /\ KeepsWho(p)
      /\ proc'[p].seen = proc[p].seen \cup {k}
      /\ proc'[p].got = [proc[p].got EXCEPT ![k] = records[k]]
      /\ proc[p].got \in [Used -> Values]
  BY ReadShape
<1>3. proc[p].seen \subseteq Used
  BY DEF IInv, Types, Process
<1>4. \A j \in proc'[p].seen : j = k \/ (j \in proc[p].seen /\ j # k /\ j \in Used)
  BY <1>1, <1>2, <1>3
<1>5. ASSUME Quiet' PROVE Reader(p)'
  <2>1. Reader(p)
    BY <1>1, <1>5, RecordsParts
  <2>2. Coherent(records)'
    BY <1>1, <2>1 DEF Reader, Coherent
  <2>3. \A j \in proc'[p].seen : proc'[p].got[j] = records'[j]
    BY <1>1, <1>2, <1>4, <2>1 DEF Reader
  <2> QED
    BY <1>1, <1>2, <2>2, <2>3 DEF Reader, At
<1>6. Paused(p) /\ (Busy(p, "publish")' => Busy(p, "publish"))
  BY <1>1, <1>2 DEF Paused, At, Busy, KeepsWho
<1> QED
  BY <1>1, <1>2, <1>5, <1>6, RecordsStep

LEMMA AnswerRecords ==
  ASSUME IInv, WorkInv, RecordsInv, NEW p \in Procs, Answer(p)
  PROVE  RecordsInv'
<1>1. UNCHANGED <<records, pool, mishaps>> /\ At(p, "reading") /\ proc[p].seen = Used
  BY DEF Answer
<1>2. PICK s \in {"done", "ranking"} : Goto(p, s) /\ proc[p].got["card"] # Nil
  BY DEF Answer
<1>3. Others(p) /\ proc'[p].at = s /\ KeepsWho(p) /\ KeepsHands(p)
  BY <1>2, GotoShape
<1>4. ASSUME Quiet' PROVE Reader(p)'
  <2>1. Reader(p)
    BY <1>1, <1>4, RecordsParts
  <2>2. \A k \in Used : proc[p].got[k] = records[k]
    BY <1>1, <2>1 DEF Reader
  <2>3. Coherent(proc[p].got)
    BY <1>1, <2>1, <2>2, KeysAre DEF Reader, Coherent
  <2>4. Coherent(proc[p].got)'
    BY <1>3, <2>3 DEF Coherent, KeepsHands
  <2> QED
    BY <1>2, <1>3, <2>4 DEF Reader, At, KeepsHands
<1>5. Paused(p) /\ (Busy(p, "publish")' => Busy(p, "publish"))
  BY <1>1, <1>3 DEF Paused, At, Busy, KeepsWho
<1> QED
  BY <1>1, <1>3, <1>4, <1>5, RecordsStep

LEMMA RankRecords ==
  ASSUME IInv, WorkInv, RecordsInv, NEW p \in Procs, Rank(p) \/ WalkFails(p)
  PROVE  RecordsInv'
<1>1. UNCHANGED <<records, pool, mishaps>> /\ At(p, "ranking") /\ Goto(p, "done")
  BY DEF Rank, WalkFails
<1>2. Others(p) /\ proc'[p].at = "done" /\ KeepsWho(p) /\ KeepsHands(p)
  BY <1>1, GotoShape
<1>3. ASSUME Quiet' PROVE Reader(p)'
  <2>1. Reader(p) /\ Role(p)
    BY <1>1, <1>3, RecordsParts DEF WorkInv
  <2>2. Coherent(proc[p].got) /\ proc[p].got["card"] # Nil
    BY <1>1, <2>1 DEF Reader, Role, At
  <2> QED
    BY <1>2, <2>2 DEF Reader, At, KeepsHands, Coherent
<1>4. Paused(p) /\ (Busy(p, "publish")' => Busy(p, "publish"))
  BY <1>1, <1>2 DEF Paused, At, Busy, KeepsWho
<1> QED
  BY <1>1, <1>2, <1>3, <1>4, RecordsStep

-----------------------------------------------------------------------------
(* A record is sent: it will be the last of its key.                       *)
LEMMA LatestSent ==
  ASSUME pool \in Seq([key : KeySet, val : Values]), NEW e \in [key : KeySet, val : Values],
         pool' = Append(pool, e), records' = records
  PROVE  /\ Latest(e.key, e.val)'
         /\ \A k, v : k # e.key /\ Latest(k, v) => Latest(k, v)'
<1>1. /\ Len(pool') = Len(pool) + 1 /\ Len(pool) \in Nat
      /\ \A i \in 1 .. Len(pool) : pool'[i] = pool[i]
      /\ pool'[Len(pool) + 1] = e
  BY AppendProperties, LenProperties
<1>2. Latest(e.key, e.val)'
  <2>1. Len(pool) + 1 \in 1 .. Len(pool') /\ ~ \E j \in 1 .. Len(pool') : j > Len(pool) + 1
    BY <1>1
  <2> QED
    BY <1>1, <2>1 DEF Latest
<1>3. ASSUME NEW k, NEW v, k # e.key, Latest(k, v) PROVE Latest(k, v)'
  <2>1. \A i \in 1 .. Len(pool') : i \in 1 .. Len(pool) \/ i = Len(pool) + 1
    BY <1>1
  <2>2. CASE (\A i \in 1 .. Len(pool) : pool[i].key # k) /\ v = records[k]
    <3>1. \A i \in 1 .. Len(pool') : pool'[i].key # k
      BY <1>1, <1>3, <2>1, <2>2
    <3> QED
      BY <2>2, <3>1 DEF Latest
  <2>3. ASSUME NEW i \in 1 .. Len(pool), pool[i].key = k, pool[i].val = v,
               \A j \in 1 .. Len(pool) : j > i => pool[j].key # k
        PROVE  Latest(k, v)'
    <3>1. i \in 1 .. Len(pool') /\ pool'[i].key = k /\ pool'[i].val = v
      BY <1>1, <2>3
    <3>2. \A j \in 1 .. Len(pool') : j > i => pool'[j].key # k
      BY <1>1, <1>3, <2>1, <2>3
    <3> QED
      BY <3>1, <3>2 DEF Latest
  <2> QED
    BY <1>3, <2>2, <2>3 DEF Latest
<1> QED
  BY <1>2, <1>3

(* A record is mined: what the others will be does not change.             *)
LEMMA LatestMined ==
  ASSUME IInv, MineRecord, NEW k \in KeySet, NEW v, Latest(k, v)
  PROVE  Latest(k, v)'
<1>1. /\ pool # <<>> /\ pool' = Tail(pool)
      /\ records' = [records EXCEPT ![Head(pool).key] = Head(pool).val]
  BY DEF MineRecord
<1>2. pool \in Seq([key : KeySet, val : Values]) /\ records \in [KeySet -> Values]
  BY DEF IInv, Types
<1>3. /\ Head(pool) = pool[1] /\ 1 \in 1 .. Len(pool)
      /\ \A i \in 1 .. Len(pool') : i + 1 \in 1 .. Len(pool) /\ pool'[i] = pool[i + 1]
  BY <1>1, <1>2, Shorter
<1>4. Len(pool) \in Nat /\ Len(pool') = Len(pool) - 1
  BY <1>1, <1>2, HeadTailProperties, LenProperties
<1>5. \A i \in 1 .. Len(pool) : i # 1 => i - 1 \in 1 .. Len(pool') /\ pool'[i - 1] = pool[i]
  <2> SUFFICES ASSUME NEW i \in 1 .. Len(pool), i # 1
               PROVE  i - 1 \in 1 .. Len(pool') /\ pool'[i - 1] = pool[i]
    OBVIOUS
  <2>1. i - 1 \in 1 .. Len(pool') /\ (i - 1) + 1 = i
    BY <1>4
  <2>2. pool'[i - 1] = pool[(i - 1) + 1]
    BY <1>3, <2>1
  <2> QED
    BY <2>1, <2>2
<1>6. CASE (\A i \in 1 .. Len(pool) : pool[i].key # k) /\ v = records[k]
  <2>1. \A i \in 1 .. Len(pool') : pool'[i].key # k
    BY <1>3, <1>6
  <2>2. records'[k] = records[k]
    BY <1>1, <1>2, <1>3, <1>6
  <2> QED
    BY <1>6, <2>1, <2>2 DEF Latest
<1>7. ASSUME NEW i \in 1 .. Len(pool), pool[i].key = k, pool[i].val = v,
             \A j \in 1 .. Len(pool) : j > i => pool[j].key # k
      PROVE  Latest(k, v)'
  <2>1. CASE i = 1
    <3>1. records'[k] = v
      BY <1>1, <1>2, <1>3, <1>7, <2>1
    <3>2. \A j \in 1 .. Len(pool') : j + 1 > 1 /\ j + 1 \in 1 .. Len(pool) /\ pool'[j] = pool[j + 1]
      BY <1>3
    <3>3. \A j \in 1 .. Len(pool') : pool'[j].key # k
      BY <1>7, <2>1, <3>2
    <3> QED
      BY <3>1, <3>3 DEF Latest
  <2>2. CASE i # 1
    <3>1. i - 1 \in 1 .. Len(pool') /\ pool'[i - 1].key = k /\ pool'[i - 1].val = v
      BY <1>5, <1>7, <2>2
    <3>2. ASSUME NEW j \in 1 .. Len(pool'), j > i - 1 PROVE pool'[j].key # k
      <4>1. j + 1 \in 1 .. Len(pool) /\ pool'[j] = pool[j + 1] /\ j + 1 > i
        BY <1>3, <3>2
      <4> QED
        BY <1>7, <4>1
    <3> QED
      BY <3>1, <3>2 DEF Latest
  <2> QED
    BY <2>1, <2>2
<1> QED
  BY <1>6, <1>7 DEF Latest

LEMMA MineRecordRecords ==
  ASSUME IInv, WorkInv, RecordsInv, MineRecord
  PROVE  RecordsInv'
<1>1. UNCHANGED proc /\ mishaps \subseteq mishaps'
      /\ ((\E q \in Procs : At(q, "reading")) => "mixed" \in mishaps')
  BY DEF MineRecord, Note
<1> SUFFICES ASSUME Quiet'
             PROVE  One("publish")' /\ Settling' /\ \A q \in Procs : Reader(q)'
  BY DEF RecordsInv
<1>2. One("publish") /\ Settling /\ \A q \in Procs : Reader(q)
  BY <1>1, RecordsParts
<1>3. \A q \in Procs : ~At(q, "reading")
  BY <1>1 DEF Quiet
<1>4. ASSUME NEW q \in Procs PROVE Reader(q)'
  <2>1. Reader(q)
    BY <1>2
  <2> QED
    BY <1>1, <1>3, <2>1 DEF Reader, At, Coherent
<1>5. Settling'
  <2>1. PICK r \in [KeySet -> Values] : (\A k \in KeySet : Latest(k, r[k])) /\ Progress(r)
    BY <1>2 DEF Settling
  <2>2. \A k \in KeySet : Latest(k, r[k])'
    BY <2>1, LatestMined
  <2>3. Progress(r)'
    BY <1>1, <2>1 DEF Progress, At
  <2> QED
    BY <2>1, <2>2, <2>3 DEF Settling
<1>6. One("publish")'
  BY <1>1, <1>2 DEF One, Busy
<1> QED
  BY <1>4, <1>5, <1>6

LEMMA AsideRecords ==
  ASSUME RecordsInv, UNCHANGED <<records, pool, proc>>, mishaps \subseteq mishaps'
  PROVE  RecordsInv'
<1> SUFFICES ASSUME Quiet'
             PROVE  One("publish")' /\ Settling' /\ \A q \in Procs : Reader(q)'
  BY DEF RecordsInv
<1>1. One("publish") /\ Settling /\ \A q \in Procs : Reader(q)
  BY RecordsParts
<1>2. One("publish")'
  BY <1>1 DEF One, Busy
<1>3. ASSUME NEW q \in Procs PROVE Reader(q)'
  BY <1>1 DEF Reader, At, Coherent
<1>4. Settling'
  BY <1>1 DEF Settling, Latest, Progress, At
<1> QED
  BY <1>2, <1>3, <1>4

(* One record further.                                                     *)
LEMMA SendSettling ==
  ASSUME IInv, WorkInv, NEW p \in Procs, SendRecord(p), One("publish"), Settling
  PROVE  Settling'
<1>1. UNCHANGED records /\ At(p, "publishing") /\ proc[p].card # Nil
      /\ pool \in Seq([key : KeySet, val : Values])
  BY DEF SendRecord, IInv, Types
<1>2. /\ Others(p) /\ KeepsWho(p) /\ proc'[p].card = proc[p].card
      /\ proc'[p].next = proc[p].next + 1
      /\ proc'[p].at = IF proc[p].next = 4 THEN "done" ELSE "publishing"
  BY SendShape
<1>3. PICK val \in Values :
        /\ proc[p].next = 1 => val = proc[p].card
        /\ proc[p].next = 3 => val = proc[p].card.token
        /\ proc[p].next = 4 => val = proc[p].card.head
        /\ pool' = IF val = Nil THEN pool
                   ELSE Append(pool, [key |-> Keys[proc[p].next], val |-> val])
  BY Sending
<1>4. proc[p].next \in 1 .. 4 /\ proc[p].card \in Cards
  BY Sending
<1>5. PICK r \in [KeySet -> Values] : (\A k \in KeySet : Latest(k, r[k])) /\ Progress(r)
  BY DEF Settling
<1>6. "card" \in KeySet /\ "tokenId" \in KeySet /\ "repHead" \in KeySet
  BY KeysAre
<1>7. PICK key \in KeySet :
        /\ key = Keys[proc[p].next]
        /\ proc[p].next = 1 => key = "card"
        /\ proc[p].next = 2 => key = "pubkey"
        /\ proc[p].next = 3 => key = "tokenId"
        /\ proc[p].next = 4 => key = "repHead"
  <2> DEFINE key == Keys[proc[p].next]
  <2>1. key \in KeySet
    BY <1>4, KeysAre
  <2>2. Keys[1] = "card" /\ Keys[2] = "pubkey" /\ Keys[3] = "tokenId" /\ Keys[4] = "repHead"
    BY DEF Keys
  <2>3. /\ proc[p].next = 1 => key = "card"
        /\ proc[p].next = 2 => key = "pubkey"
        /\ proc[p].next = 3 => key = "tokenId"
        /\ proc[p].next = 4 => key = "repHead"
    BY <2>2
  <2> HIDE DEF key
  <2>4. key = Keys[proc[p].next]
    BY DEF key
  <2> QED
    BY <2>1, <2>3, <2>4
<1>8. PICK r2 \in [KeySet -> Values] :
        /\ \A k \in KeySet : k # key => r2[k] = r[k]
        /\ r2[key] = IF val = Nil THEN r[key] ELSE val
  <2>1. CASE val = Nil
    BY <2>1
  <2>2. CASE val # Nil
    <3>1. [r EXCEPT ![key] = val] \in [KeySet -> Values]
      OBVIOUS
    <3> QED
      BY <2>2, <3>1
  <2> QED
    BY <2>1, <2>2
<1>9. \A k \in KeySet : Latest(k, r2[k])'
  <2>1. CASE val = Nil
    <3>1. pool' = pool /\ \A k \in KeySet : r2[k] = r[k]
      BY <1>3, <1>8, <2>1
    <3> QED
      BY <1>1, <1>5, <3>1 DEF Latest
  <2>2. CASE val # Nil
    <3> DEFINE e == [key |-> key, val |-> val]
    <3>1. e \in [key : KeySet, val : Values] /\ e.key = key /\ e.val = val
      OBVIOUS
    <3>2. pool' = Append(pool, e)
      BY <1>3, <1>7, <2>2
    <3> HIDE DEF e
    <3>3. Latest(e.key, e.val)' /\ \A k, v : k # e.key /\ Latest(k, v) => Latest(k, v)'
      BY <1>1, <3>1, <3>2, LatestSent
    <3>4. Latest(key, r2[key])'
      BY <1>8, <2>2, <3>1, <3>3
    <3>5. ASSUME NEW k \in KeySet, k # key PROVE Latest(k, r2[k])'
      BY <1>5, <1>8, <3>1, <3>3, <3>5
    <3> QED
      BY <3>4, <3>5
  <2> QED
    BY <2>1, <2>2
<1>10. /\ proc[p].next > 1 => r["card"] = proc[p].card
       /\ proc[p].next > 3 => r["tokenId"] = proc[p].card.token
  BY <1>1, <1>4, <1>5 DEF Progress
<1>11. r2["card"] = proc[p].card
  <2>1. CASE proc[p].next = 1
    BY <1>1, <1>3, <1>7, <1>8, <2>1
  <2>2. CASE proc[p].next > 1
    <3>1. key # "card"
      BY <1>4, <1>7, <2>2
    <3> QED
      BY <1>6, <1>8, <1>10, <2>2, <3>1
  <2> QED
    BY <1>4, <2>1, <2>2
<1>12. proc[p].next > 2 => r2["tokenId"] = proc[p].card.token
  <2>1. proc[p].card.token # Nil
    BY <1>4, CommandLineAssumption DEF Cards
  <2>2. CASE proc[p].next = 3
    BY <1>3, <1>7, <1>8, <2>1, <2>2
  <2>3. CASE proc[p].next = 4
    BY <1>6, <1>7, <1>8, <1>10, <2>3
  <2> QED
    BY <1>4, <2>2, <2>3
<1>13. proc[p].next = 4 /\ proc[p].card.head # Nil => r2["repHead"] = proc[p].card.head
  BY <1>3, <1>7, <1>8
<1>14. ASSUME NEW q \in Procs, q # p PROVE ~At(q, "publishing")'
  <2>1. ASSUME At(q, "publishing") PROVE FALSE
    <3>1. Busy(p, "publish") /\ Busy(q, "publish")
      BY <1>1, <2>1 DEF WorkInv, Role, Busy, At
    <3> QED
      BY <1>14, <3>1 DEF One
  <2> QED
    BY <1>2, <1>14, <2>1 DEF Others, At
<1>15. Progress(r2)'
  <2>1. CASE proc[p].next = 4
    <3>1. Coherent(r2)
      BY <1>11, <1>12, <1>13, <2>1 DEF Coherent
    <3>2. \A q \in Procs : ~At(q, "publishing")'
      BY <1>2, <1>14, <2>1 DEF At
    <3> QED
      BY <3>1, <3>2 DEF Progress, Coherent
  <2>2. CASE proc[p].next # 4
    <3>1. At(p, "publishing")' /\ proc'[p].next # 1 /\ (proc'[p].next > 3 => proc[p].next > 2)
      BY <1>2, <1>4, <2>2 DEF At
    <3>2. r2["card"] = proc'[p].card
          /\ (proc'[p].next > 3 => r2["tokenId"] = proc'[p].card.token)
      BY <1>2, <1>11, <1>12, <3>1
    <3> QED
      BY <1>14, <3>1, <3>2 DEF Progress
  <2> QED
    BY <2>1, <2>2
<1> QED
  BY <1>8, <1>9, <1>15 DEF Settling

LEMMA SendRecords ==
  ASSUME IInv, WorkInv, RecordsInv, NEW p \in Procs, SendRecord(p)
  PROVE  RecordsInv'
<1>1. UNCHANGED <<records, mishaps>> /\ At(p, "publishing")
  BY DEF SendRecord
<1>2. /\ Others(p) /\ KeepsWho(p)
      /\ proc'[p].at = IF proc[p].next = 4 THEN "done" ELSE "publishing"
  BY SendShape
<1> SUFFICES ASSUME Quiet'
             PROVE  One("publish")' /\ Settling' /\ \A q \in Procs : Reader(q)'
  BY DEF RecordsInv
<1>3. One("publish") /\ Settling /\ \A q \in Procs : Reader(q)
  BY <1>1, RecordsParts
<1>4. Settling'
  BY <1>3, SendSettling
<1>5. One("publish")'
  <2>1. \A q \in Procs : Busy(q, "publish")' => Busy(q, "publish")
    BY <1>1, <1>2 DEF Others, Busy, At, KeepsWho
  <2> QED
    BY <1>3, <2>1 DEF One
<1>6. ASSUME NEW q \in Procs PROVE Reader(q)'
  <2>1. Reader(q)
    BY <1>3
  <2>2. CASE q = p
    <3>1. proc[p].cmd = "publish"
      BY <1>1 DEF WorkInv, Role
    <3> QED
      BY <1>2, <2>2, <3>1 DEF Reader, At, KeepsWho
  <2>3. CASE q # p
    BY <1>1, <1>2, <2>1, <2>3 DEF Reader, At, Others, Coherent
  <2> QED
    BY <2>2, <2>3
<1> QED
  BY <1>4, <1>5, <1>6

LEMMA InitRecords == Init => RecordsInv
<1> SUFFICES ASSUME Init PROVE RecordsInv
  OBVIOUS
<1>1. Idle.at = "idle"
  BY DEF Idle
<1>2. \A p \in Procs : proc[p].at = "idle"
  BY <1>1 DEF Init, LineInit
<1>3. Len(pool) = 0 /\ records = [k \in KeySet |-> Nil]
  BY DEF Init, LineInit
<1>4. \A p \in Procs : Reader(p) /\ ~Busy(p, "publish") /\ ~At(p, "publishing")
  BY <1>2 DEF Reader, Busy, At
<1>5. records \in [KeySet -> Values] /\ Coherent(records)
  BY <1>3, KeysAre DEF Values, Coherent
<1>6. \A k \in KeySet : Latest(k, records[k])
  BY <1>3 DEF Latest
<1>7. Settling
  BY <1>4, <1>5, <1>6 DEF Settling, Progress
<1> QED
  BY <1>4, <1>7 DEF RecordsInv, One

LEMMA NextRecords ==
  ASSUME IInv, WorkInv, RecordsInv, [Next]_vars
  PROVE  RecordsInv'
<1>1. CASE UNCHANGED vars
  BY <1>1, AsideRecords DEF vars, lineVars
<1>2. ASSUME NEW p \in Procs,
             \/ LoadNothing(p) \/ LoadRefused(p) \/ CreateFile(p) \/ SendMint(p)
             \/ MintFails(p) \/ TruncateFile(p) \/ RewriteFile(p) \/ PublishFails(p)
             \/ StopAgent(p) \/ Interrupt(p) \/ LeaveOut(p) \/ ReadFails(p)
      PROVE  RecordsInv'
  BY <1>2, MovesRecords
<1>3. ASSUME NEW p \in Procs,
             \/ Start(p) \/ Load(p) \/ FillFile(p) \/ GetReceipt(p) \/ BuildCard(p)
             \/ SendRecord(p) \/ Query(p) \/ Answer(p) \/ Rank(p) \/ WalkFails(p)
      PROVE  RecordsInv'
  BY <1>3, StartRecords, LoadRecords, ReceiptRecords, BuildRecords, SendRecords,
     QueryRecords, AnswerRecords, RankRecords
<1>4. ASSUME NEW p \in Procs, MineMint(p) \/ Serve(p) PROVE RecordsInv'
  BY <1>4, AsideRecords DEF MineMint, Serve
<1>5. ASSUME NEW p \in Procs, NEW k \in Used, ReadRecord(p, k) PROVE RecordsInv'
  BY <1>5, ReadRecords
<1>6. CASE MineRecord
  BY <1>6, MineRecordRecords
<1> QED
  BY <1>1, <1>2, <1>3, <1>4, <1>5, <1>6 DEF Next, LineNext

-----------------------------------------------------------------------------
(* The ranks.  A chain only grows, and an agent keeps its identity.        *)
LEMMA RankStays ==
  ASSUME IInv, WorkInv, NEW p \in Procs, HasChain(p), query[p].score = Score(p),
         proc'[p].got = proc[p].got, query'[p] = query[p],
         \A q \in Procs : rep[q] # <<>> => proc'[q].id = proc[q].id,
         \A q \in Procs : \A i \in 1 .. Len(rep[q]) : rep'[q][i] = rep[q][i]
  PROVE  query'[p].score = Score(p)'
<1> DEFINE h == proc[p].got["repHead"]
<1>1. h \in Heads /\ h.n \in 1 .. Len(rep[h.of])
  BY DEF HasChain, WorkInv, HoldsGood, GoodHead
<1>2. h.of \in Procs /\ h.n \in Nat
  BY <1>1 DEF Heads
<1>3. Len(rep[h.of]) \in Nat /\ (rep[h.of] = <<>> => Len(rep[h.of]) = 0)
  BY <1>2, LenProperties DEF IInv, Types
<1>4. rep[h.of] # <<>>
  BY <1>1, <1>3
<1>5. Callee(h)' = Callee(h)
  BY <1>2, <1>4 DEF Callee
<1>6. ASSUME NEW i \in Window(h) PROVE rep'[h.of][i] = rep[h.of][i]
  <2>1. i \in 1 .. Len(rep[h.of])
    BY <1>1, <1>2, <1>3 DEF Window
  <2> QED
    BY <1>2, <2>1
<1>7. \A s : Successes(h, s)' = Successes(h, s)
  BY <1>6 DEF Successes, Window
<1> QED
  BY <1>5, <1>7 DEF Score

(* The walk returns a finite number of calls.                              *)
LEMMA ScoreIsNumber ==
  ASSUME IInv, WorkInv, NEW p \in Procs, HasChain(p)
  PROVE  Score(p) \in Nat
<1> DEFINE h == proc[p].got["repHead"]
<1>1. h.n \in Nat
  BY DEF HasChain, WorkInv, HoldsGood, GoodHead, Heads
<1>2. IsFiniteSet(1 .. h.n)
  BY <1>1, FS_Interval
<1>3. ASSUME NEW s PROVE Cardinality(Successes(h, s)) \in Nat
  <2>1. Successes(h, s) \subseteq 1 .. h.n
    BY DEF Successes, Window
  <2> QED
    BY <1>2, <2>1, FS_Subset, FS_CardinalityType
<1> QED
  BY <1>3 DEF Score

(* p does something, other than to end its query.                          *)
LEMMA RankAside ==
  ASSUME IInv, WorkInv, RankInv, NEW p \in Procs, Others(p), rep' = rep,
         query' \in [Procs -> Asked], \A q \in Procs : q # p => query'[q] = query[q],
         query'[p].walked = query[p].walked,
         proc[p].at # "done", proc'[p].at = "ranking" => HasChain(p)',
         rep[p] # <<>> => proc'[p].id = proc[p].id
  PROVE  RankInv'
<1>1. \A q \in Procs : rep[q] # <<>> => proc'[q].id = proc[q].id
  BY DEF Others
<1>2. Ranked(p)'
  <2>1. ~query[p].walked
    BY DEF RankInv, Ranked, At
  <2> QED
    BY <2>1 DEF Ranked, At
<1>3. ASSUME NEW q \in Procs, q # p PROVE Ranked(q)'
  <2>1. Ranked(q) /\ proc'[q] = proc[q] /\ query'[q] = query[q]
    BY <1>3 DEF RankInv, Others
  <2>2. HasChain(q) => HasChain(q)'
    BY <2>1 DEF HasChain
  <2>3. query[q].walked => query'[q].score = Score(q)'
    BY <1>1, <2>1, RankStays DEF Ranked
  <2> QED
    BY <2>1, <2>2, <2>3 DEF Ranked, At
<1> QED
  BY <1>2, <1>3 DEF RankInv

LEMMA GotoRanks ==
  ASSUME IInv, WorkInv, RankInv, NEW p \in Procs, NEW s, Goto(p, s), rep' = rep, query' = query,
         proc[p].at # "done", s # "ranking"
  PROVE  RankInv'
<1>1. Others(p) /\ proc'[p].at = s /\ KeepsWho(p)
  BY GotoShape
<1> QED
  BY <1>1, RankAside DEF RankInv, KeepsWho

LEMMA MovesRanks ==
  ASSUME IInv, WorkInv, RankInv, query' = query, NEW p \in Procs,
         \/ LoadNothing(p) \/ LoadRefused(p) \/ CreateFile(p) \/ SendMint(p) \/ MintFails(p)
         \/ TruncateFile(p) \/ RewriteFile(p) \/ PublishFails(p) \/ StopAgent(p)
         \/ Interrupt(p) \/ LeaveOut(p) \/ ReadFails(p) \/ WalkFails(p)
  PROVE  RankInv'
<1>1. rep' = rep /\ proc[p].at # "done"
  BY DEF LoadNothing, LoadRefused, CreateFile, SendMint, MintFails, TruncateFile, RewriteFile,
         PublishFails, StopAgent, Interrupt, LeaveOut, ReadFails, WalkFails, At
<1>2. PICK s \in {"failed", "creating", "filling", "waiting", "rewriting", "done"} : Goto(p, s)
  BY DEF LoadNothing, LoadRefused, CreateFile, SendMint, MintFails, TruncateFile, RewriteFile,
         PublishFails, StopAgent, Interrupt, LeaveOut, ReadFails, WalkFails
<1> QED
  BY <1>1, <1>2, GotoRanks

(* The agents have attested nothing before they have an identity.          *)
LEMMA LoadRanks ==
  ASSUME IInv, WorkInv, RankInv, query' = query, NEW p \in Procs,
         Start(p) \/ Load(p) \/ FillFile(p)
  PROVE  RankInv'
<1>1. /\ rep' = rep /\ proc[p].at \in {"idle", "loading", "filling"}
      /\ Start(p) \/ proc[p].at \in {"loading", "filling"}
  BY DEF Start, Load, FillFile, At
<1>2. rep[p] = <<>>
  BY <1>1 DEF IInv, Holders, AtStage, Early, WorkInv, Role
<1>3. CASE Start(p)
  <2>1. Others(p) /\ proc'[p].at = "loading"
    BY <1>3, StartShape
  <2> QED
    BY <1>1, <1>2, <2>1, RankAside DEF RankInv
<1>4. ASSUME NEW i, Holds(p, i), proc[p].at \in {"loading", "filling"} PROVE RankInv'
  <2>1. proc[p].cmd \in DOMAIN Work
    BY <1>4 DEF IInv, Holders, AtStage, Early
  <2>2. Others(p) /\ proc'[p].at \in {"minting", "publishing", "serving", "done"}
    BY <1>4, <2>1, HoldsShape
  <2> QED
    BY <1>1, <1>2, <2>2, RankAside DEF RankInv
<1>5. CASE Goto(p, "failed")
  BY <1>1, <1>5, GotoRanks
<1> QED
  BY <1>1, <1>3, <1>4, <1>5 DEF Load, FillFile

LEMMA PublishRanks ==
  ASSUME IInv, WorkInv, RankInv, query' = query, NEW p \in Procs,
         GetReceipt(p) \/ BuildCard(p) \/ SendRecord(p)
  PROVE  RankInv'
<1>1. CASE GetReceipt(p)
  <2>1. rep' = rep /\ proc[p].at = "waiting"
    BY <1>1 DEF GetReceipt, At
  <2>2. Others(p) /\ proc'[p].at = "saving"
    BY <1>1, ReceiptShape
  <2>3. rep[p] = <<>>
    BY <2>1 DEF WorkInv, Role, Minting
  <2> QED
    BY <2>1, <2>2, <2>3, RankAside DEF RankInv
<1>2. CASE BuildCard(p) \/ SendRecord(p)
  <2>1. rep' = rep /\ proc[p].at = "publishing"
    BY <1>2 DEF BuildCard, SendRecord, At
  <2>2. Others(p) /\ KeepsWho(p) /\ proc'[p].at \in {"publishing", "done"}
    BY <1>2, <2>1, BuildShape, SendShape
  <2> QED
    BY <2>1, <2>2, RankAside DEF RankInv, KeepsWho
<1> QED
  BY <1>1, <1>2

LEMMA ChainsRanks ==
  ASSUME IInv, WorkInv, RankInv, UNCHANGED <<query, proc>>,
         rep' = rep \/ \E p \in Procs : Serve(p)
  PROVE  RankInv'
<1>1. \A q \in Procs : \A i \in 1 .. Len(rep[q]) : rep'[q][i] = rep[q][i]
  <2>1. CASE rep' = rep
    BY <2>1
  <2>2. CASE \E p \in Procs : Serve(p)
    <3>1. PICK p \in Procs : Serve(p)
      BY <2>2
    <3>2. \A q \in Procs : /\ 1 .. Len(rep[q]) \subseteq 1 .. Len(rep'[q])
                          /\ \A i \in 1 .. Len(rep[q]) : rep'[q][i] = rep[q][i]
      BY <3>1, ServeShape DEF Serve
    <3> QED
      BY <3>2
  <2> QED
    BY <2>1, <2>2
<1>2. ASSUME NEW q \in Procs PROVE Ranked(q)'
  <2>1. Ranked(q) /\ (HasChain(q) => HasChain(q)')
    BY DEF RankInv, HasChain
  <2>2. query[q].walked => query'[q].score = Score(q)'
    BY <1>1, <2>1, RankStays DEF Ranked
  <2> QED
    BY <2>1, <2>2 DEF Ranked, At
<1> QED
  BY <1>2 DEF RankInv

LEMMA QueryRanks ==
  ASSUME IInv, WorkInv, RankInv, NEW p \in Procs,
         Query(p) \/ Answer(p) \/ \E k \in Used : ReadRecord(p, k)
  PROVE  RankInv'
<1>1. rep' = rep /\ proc[p].at \in {"idle", "reading"}
  BY DEF Query, Answer, ReadRecord, At
<1>2. query \in [Procs -> Asked] /\ Role(p)
  BY DEF RankInv, WorkInv
<1>3. CASE Query(p)
  <2>1. Others(p) /\ proc'[p].at = "reading" /\ proc'[p].id = proc[p].id
    BY <1>3, QueryShape
  <2>2. query' = query
    BY <1>3 DEF Query
  <2> QED
    BY <1>1, <1>2, <2>1, <2>2, RankAside
<1>4. CASE \E k \in Used : ReadRecord(p, k)
  <2>1. Others(p) /\ proc'[p].at = proc[p].at /\ KeepsWho(p) /\ query' = query
    BY <1>4, ReadShape DEF ReadRecord
  <2> QED
    BY <1>1, <1>2, <2>1, RankAside DEF KeepsWho
<1>5. CASE Answer(p)
  <2>1. PICK s \in {"done", "ranking"} :
          /\ Goto(p, s)
          /\ s = "ranking" => proc[p].got["repHead"] # Nil /\ proc[p].got["tokenId"] # Nil
    BY <1>5 DEF Answer
  <2>2. Others(p) /\ proc'[p].at = s /\ KeepsWho(p) /\ KeepsHands(p)
    BY <2>1, GotoShape
  <2>3. proc[p].cmd = "directory"
    BY <1>2, <1>5 DEF Answer, Role, At
  <2>4. s = "ranking" => HasChain(p)'
    BY <2>1, <2>2, <2>3 DEF HasChain, KeepsWho, KeepsHands
  <2>5. PICK k \in Skills : query' = [query EXCEPT ![p].skill = k]
    BY <1>5, DirectoryAssumption DEF Answer
  <2>6. query' \in [Procs -> Asked] /\ query'[p].walked = query[p].walked
        /\ \A q \in Procs : q # p => query'[q] = query[q]
    BY <1>2, <2>5 DEF Asked
  <2> QED
    BY <1>1, <2>2, <2>4, <2>6, RankAside DEF KeepsWho
<1> QED
  BY <1>3, <1>4, <1>5

LEMMA RankRanks ==
  ASSUME IInv, WorkInv, RankInv, NEW p \in Procs, Rank(p)
  PROVE  RankInv'
<1>1. /\ rep' = rep /\ At(p, "ranking") /\ Goto(p, "done")
      /\ query' = [query EXCEPT ![p].score = Score(p), ![p].walked = TRUE]
  BY DEF Rank
<1>2. Others(p) /\ proc'[p].at = "done" /\ KeepsWho(p) /\ KeepsHands(p)
  BY <1>1, GotoShape
<1>3. query \in [Procs -> Asked] /\ HasChain(p)
  BY <1>1 DEF RankInv, Ranked
<1>4. Score(p) \in Nat
  BY <1>3, ScoreIsNumber
<1>5. /\ query' \in [Procs -> Asked] /\ query'[p].walked /\ query'[p].score = Score(p)
      /\ query'[p].skill = query[p].skill
      /\ \A q \in Procs : q # p => query'[q] = query[q]
  BY <1>1, <1>3, <1>4 DEF Asked
<1>6. \A q \in Procs : proc'[q].id = proc[q].id /\ proc'[q].got = proc[q].got
  BY <1>2 DEF Others, KeepsWho, KeepsHands
<1>7. \A h, s : Callee(h)' = proc'[h.of].id.token /\ Successes(h, s)' = Successes(h, s)
  BY <1>1 DEF Callee, Successes, Window
<1>8. HasChain(p)' /\ Score(p)' = Score(p)
  <2>1. HasChain(p)'
    BY <1>2, <1>3 DEF HasChain, KeepsWho, KeepsHands
  <2>2. proc[p].got["repHead"].of \in Procs
    BY <1>3 DEF HasChain, WorkInv, HoldsGood, GoodHead, Heads
  <2>3. Score(p)' = Score(p)
    BY <1>5, <1>6, <1>7, <2>2 DEF Score, Callee
  <2> QED
    BY <2>1, <2>3
<1>9. Ranked(p)'
  BY <1>2, <1>5, <1>8 DEF Ranked, At
<1>10. ASSUME NEW q \in Procs, q # p PROVE Ranked(q)'
  <2>1. Ranked(q) /\ proc'[q] = proc[q] /\ query'[q] = query[q]
    BY <1>2, <1>5, <1>10 DEF RankInv, Others
  <2>2. HasChain(q) => HasChain(q)'
    BY <2>1 DEF HasChain
  <2>3. query[q].walked => query'[q].score = Score(q)'
    BY <1>1, <1>6, <2>1, RankStays DEF Ranked
  <2> QED
    BY <2>1, <2>2, <2>3 DEF Ranked, At
<1> QED
  BY <1>5, <1>9, <1>10 DEF RankInv

LEMMA InitRanks == Init => RankInv
<1> SUFFICES ASSUME Init PROVE RankInv
  OBVIOUS
<1>1. Idle.at = "idle"
  BY DEF Idle
<1>2. \A p \in Procs : proc[p].at = "idle" /\ ~query[p].walked
  BY <1>1 DEF Init, LineInit
<1>3. query \in [Procs -> Asked]
  BY DEF Init, Asked
<1> QED
  BY <1>2, <1>3 DEF RankInv, Ranked, At

LEMMA NextRanks ==
  ASSUME IInv, WorkInv, RankInv, [Next]_vars
  PROVE  RankInv'
<1>1. CASE UNCHANGED vars
  BY <1>1, ChainsRanks DEF vars, lineVars
<1>2. ASSUME NEW p \in Procs,
             \/ LoadNothing(p) \/ LoadRefused(p) \/ CreateFile(p) \/ SendMint(p)
             \/ MintFails(p) \/ TruncateFile(p) \/ RewriteFile(p) \/ PublishFails(p)
             \/ StopAgent(p) \/ Interrupt(p),
             query' = query
      PROVE  RankInv'
  BY <1>2, MovesRanks
<1>3. ASSUME NEW p \in Procs,
             \/ Start(p) \/ Load(p) \/ FillFile(p) \/ GetReceipt(p) \/ BuildCard(p)
             \/ SendRecord(p),
             query' = query
      PROVE  RankInv'
  BY <1>3, LoadRanks, PublishRanks
<1>4. ASSUME NEW p \in Procs, MineMint(p) \/ Serve(p), query' = query PROVE RankInv'
  BY <1>4, ChainsRanks DEF MineMint, Serve
<1>5. ASSUME MineRecord, query' = query PROVE RankInv'
  BY <1>5, ChainsRanks DEF MineRecord
<1>6. ASSUME NEW p \in Procs, LeaveOut(p) \/ ReadFails(p) \/ WalkFails(p) PROVE RankInv'
  BY <1>6, MovesRanks DEF LeaveOut, ReadFails, WalkFails
<1>7. ASSUME NEW p \in Procs, Query(p) \/ Answer(p) \/ Rank(p) PROVE RankInv'
  BY <1>7, QueryRanks, RankRanks
<1>8. ASSUME NEW p \in Procs, NEW k \in Used, ReadRecord(p, k) PROVE RankInv'
  BY <1>8, QueryRanks
<1> QED
  BY <1>1, <1>2, <1>3, <1>4, <1>5, <1>6, <1>7, <1>8 DEF Next, LineNext

-----------------------------------------------------------------------------
(* The token has one place at a time, cards and heads name what was minted *)
(* and attested, and the records settle on one publication.                *)
THEOREM WorkInvariance == Spec => []EInv
<1>1. Init => EInv
  BY InitIInv, InitWork, InitToken, InitRecords, InitRanks DEF EInv
<1>2. EInv /\ [Next]_vars => EInv'
  BY NextIInv, NextWork, NextToken, NextRecords, NextRanks DEF EInv
<1> QED
  BY <1>1, <1>2, PTL DEF Spec

LEMMA TokenIsKept == EInv => TokenKeptUnlessMishap
<1> SUFFICES ASSUME EInv, tokens # <<>>, ~MintUnderWay,
                    mishaps \cap {"twoMints", "again", "halfway", "torn"} = {}
             PROVE  Whole /\ file.token = Len(tokens)
  BY DEF TokenKeptUnlessMishap
<1>1. FileStage
  BY DEF EInv, TokenInv, Calm
<1>2. Len(tokens) # 0
  BY EmptySeq DEF EInv, IInv, Types
<1>3. \A p \in Procs : proc[p].at \notin Minting
  BY DEF MintUnderWay, Minting
<1> QED
  BY <1>1, <1>2, <1>3 DEF FileStage, Kept

(* The file names the token minted for its key, unless a mint was run      *)
(* again or beside another, failed or was interrupted (mint.ts, where the  *)
(* token is saved once the receipt has come).                              *)
THEOREM FileNamesToken == Spec => []TokenKeptUnlessMishap
  BY WorkInvariance, TokenIsKept, PTL

LEMMA EntryIsOne == EInv => OnePublication
<1> SUFFICES ASSUME EInv, Quiet, NEW p \in Entries
             PROVE  LET e == proc[p].got IN
                    /\ e["tokenId"] = e["card"].token
                    /\ e["card"].head # Nil => e["repHead"] = e["card"].head
  BY DEF OnePublication, Quiet
<1>1. Coherent(proc[p].got) /\ proc[p].got["card"] # Nil
  BY DEF EInv, RecordsInv, Reader, Entries, At
<1> QED
  BY <1>1 DEF Coherent

LEMMA RankIsTrue == EInv => RankIsEarned
<1> SUFFICES ASSUME EInv, NEW p \in Entries, query[p].walked
             PROVE  LET h == proc[p].got["repHead"]
                        earned == Cardinality(Successes(h, query[p].skill))
                    IN  /\ query[p].score = IF Callee(h) = proc[p].got["tokenId"] THEN earned ELSE 0
                        /\ mishaps \cap {"early", "again", "twoMints", "halfway"} = {}
                             => query[p].score = earned
  BY DEF RankIsEarned
<1> DEFINE h == proc[p].got["repHead"]
<1>1. p \in Procs
  BY DEF Entries
<1>2. HasChain(p) /\ query[p].score = Score(p)
  BY <1>1 DEF EInv, RankInv, Ranked
<1>3. query[p].score = IF Callee(h) = proc[p].got["tokenId"]
                       THEN Cardinality(Successes(h, query[p].skill)) ELSE 0
  BY <1>2 DEF Score
<1>4. ASSUME mishaps \cap {"early", "again", "twoMints", "halfway"} = {}
      PROVE  Callee(h) = proc[p].got["tokenId"]
  <2>1. Calm /\ "early" \notin mishaps
    BY <1>4 DEF Calm
  <2>2. GoodToken(proc[p].got["tokenId"]) /\ GoodHead(h)
    BY <1>1 DEF EInv, WorkInv, HoldsGood
  <2>3. proc[p].got["tokenId"] = 1 /\ h \in Heads /\ h.n \in 1 .. Len(rep[h.of])
    BY <1>2, <2>1, <2>2 DEF HasChain, GoodToken, GoodHead
  <2> DEFINE q == h.of
  <2>4. q \in Procs /\ rep[q] # <<>>
    <3>1. q \in Procs
      BY <2>3 DEF Heads
    <3>2. rep[q] = <<>> => Len(rep[q]) = 0
      OBVIOUS
    <3> QED
      BY <2>3, <3>1, <3>2
  <2>5. proc[q].id.token = 1
    <3>1. Role(q) /\ TokenStage(q)
      BY <2>1, <2>4 DEF EInv, WorkInv, TokenInv
    <3>2. Knows(q) /\ proc[q].id.token # 0
      BY <2>1, <2>4, <3>1 DEF Role
    <3> QED
      BY <3>1, <3>2 DEF TokenStage
  <2> QED
    BY <2>3, <2>5 DEF Callee
<1> QED
  BY <1>3, <1>4

(* Once the directory has walked a chain, the score counts the successful  *)
(* calls among the last ones up to the head, however records and chains    *)
(* were rewritten meanwhile (directory.ts, rep.ts).                        *)
THEOREM RanksAreEarned == Spec => []RankIsEarned
  BY WorkInvariance, RankIsTrue, PTL

(* Entries of the directory are coherent: what they show belongs together  *)
(* unless a publication overlapped its reads or another, or ended halfway, *)
(* and what they are ranked by is the agent's own.                         *)
THEOREM EntriesAreCoherent == Spec => []EntryCoherent
<1>1. EInv => EntryCoherent
  BY EntryIsOne, RankIsTrue DEF EntryCoherent
<1> QED
  BY <1>1, WorkInvariance, PTL
=============================================================================
