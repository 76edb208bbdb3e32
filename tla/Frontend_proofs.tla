--------------------------- MODULE Frontend_proofs ---------------------------
(***************************************************************************)
(* What holds of the web server's wallet challenges for any number of      *)
(* nonces, wallets, names and requests, any lifetime and any number of     *)
(* faults; of its registry of runtimes for any number of calls, in either  *)
(* mode, edits, failures and timeouts; and of the owner's dashboard for    *)
(* any number of tabs, accounts, agents, clicks and failed requests.       *)
(*                                                                         *)
(* Challenges: IInv adds to the types that a request which holds a nonce   *)
(* holds it alone and finds it consumed for as long as its document        *)
(* exists, and that a nonce without a document was never issued or will    *)
(* never be issued again.                                                  *)
(*                                                                         *)
(* Registry: CInv says what a boot may rely on at each of its awaits, as   *)
(* long as no two boots overlap, and follows the request of a call that    *)
(* has no company through the shared inbox, the loop's hand and the        *)
(* answer.                                                                 *)
(*                                                                         *)
(* Console: ConsoleInv says of the requests of a panel that the older of a *)
(* kind are overtaken first, that the youngest, while it is pending, asks  *)
(* for what is selected (or for the history of the token shown), and that  *)
(* otherwise the panel is as its answer made it.                           *)
(***************************************************************************)
EXTENDS WalletAuth, CalleeRegistry, OwnerConsole, SequenceTheorems, TLAPS

-----------------------------------------------------------------------------
(* Wallet challenges                                                       *)


(* The invariant holds in the initial states: nobody holds anything.       *)
LEMMA InitIInv == Init => IInv
<1> SUFFICES ASSUME Init PROVE IInv
  OBVIOUS
<1>1. TypeOK
  BY AuthAssumption DEF Init, TypeOK, States
<1>2. DocsIssued /\ Exclusive /\ HeldIsConsumed
  BY DEF Init, DocsIssued, Exclusive, HeldIsConsumed, Holding
<1> QED
  BY <1>1, <1>2 DEF IInv

(* Consuming or giving back a nonce leaves a document a document.          *)
LEMMA ConsumedIsDocument ==
  ASSUME NEW d \in Documents, NEW b \in BOOLEAN
  PROVE  [d EXCEPT !.consumed = b] \in Documents
  BY DEF Documents

(* Every step keeps the types.                                             *)
LEMMA TypeStep == TypeOK /\ [Next]_vars => TypeOK'
<1> SUFFICES ASSUME TypeOK, [Next]_vars PROVE TypeOK'
  OBVIOUS
<1> USE DEF TypeOK
<1>1. ASSUME NEW n \in Nonces, NEW w \in Wallets, NEW nm \in Names, Issue(n, w, nm)
      PROVE  TypeOK'
  <2>1. [wallet |-> w, name |-> nm, expires |-> now + TTL, consumed |-> FALSE] \in Documents
    BY AuthAssumption DEF Documents
  <2> QED
    BY <1>1, <2>1 DEF Issue
<1>2. ASSUME NEW r \in Requests, Handle(r) PROVE TypeOK'
  <2>0. Nonce(r) \in Nonces
    BY DEF Nonce, Inputs
  <2>1. CASE Consume(r)
    <3>1. doc[Nonce(r)] \in Documents
      BY <2>0, <2>1 DEF Consume, Matches
    <3>2. [doc[Nonce(r)] EXCEPT !.consumed = TRUE] \in Documents
      BY <3>1, ConsumedIsDocument
    <3>3. doc' \in [Nonces -> Documents \cup {Nil}]
      BY <2>0, <2>1, <3>2 DEF Consume
    <3> QED
      BY <2>1, <3>3 DEF Consume, GoTo, States
  <2>2. CASE Restore(r)
    <3>1. doc[Nonce(r)] # Nil => [doc[Nonce(r)] EXCEPT !.consumed = FALSE] \in Documents
      BY <2>0, ConsumedIsDocument
    <3>2. doc' \in [Nonces -> Documents \cup {Nil}]
      BY <2>0, <2>2, <3>1 DEF Restore
    <3> QED
      BY <2>2, <3>2 DEF Restore, GoTo, States
  <2>3. CASE Refuse(r) \/ Accept(r) \/ BadSignature(r)
    BY <2>3 DEF Refuse, Accept, BadSignature, GoTo, States
  <2>4. CASE Abort(r)
    BY <2>4 DEF Abort, GoTo, States
  <2> QED
    BY <1>2, <2>1, <2>2, <2>3, <2>4 DEF Handle
<1>3. CASE Tick
  BY <1>3 DEF Tick
<1>4. ASSUME NEW n \in Nonces, Sweep(n) PROVE TypeOK'
  BY <1>4 DEF Sweep
<1>5. CASE UNCHANGED vars
  BY <1>5 DEF vars
<1> QED
  BY <1>1, <1>2, <1>3, <1>4, <1>5 DEF Next

(* Every step keeps a nonce in one pair of hands.  The step that matters   *)
(* is Consume: the nonce it takes is not consumed, so nobody holds it.     *)
LEMMA HoldStep == IInv /\ [Next]_vars => (DocsIssued /\ Exclusive /\ HeldIsConsumed)'
<1> SUFFICES ASSUME IInv, [Next]_vars
             PROVE  (DocsIssued /\ Exclusive /\ HeldIsConsumed)'
  OBVIOUS
<1> USE DEF IInv, TypeOK, DocsIssued, Exclusive, HeldIsConsumed, Holding
<1>1. ASSUME NEW n \in Nonces, NEW w \in Wallets, NEW nm \in Names, Issue(n, w, nm)
      PROVE  (DocsIssued /\ Exclusive /\ HeldIsConsumed)'
  <2>1. \A r \in Requests : pc[r] \in Holding => Nonce(r) # n
    BY <1>1 DEF Issue
  <2>2. \A m \in Nonces : m # n => doc'[m] = doc[m]
    BY <1>1 DEF Issue
  <2>3. \A r \in Requests : Nonce(r)' = Nonce(r) /\ Nonce(r) \in Nonces
    BY <1>1 DEF Issue, Nonce, Inputs
  <2> QED
    BY <1>1, <2>1, <2>2, <2>3 DEF Issue
<1>2. ASSUME NEW r \in Requests, Handle(r)
      PROVE  (DocsIssued /\ Exclusive /\ HeldIsConsumed)'
  <2>0. /\ \A s \in Requests : Nonce(s)' = Nonce(s) /\ Nonce(s) \in Nonces
        /\ \A s \in Requests \ {r} : pc'[s] = pc[s]
        /\ issued' = issued
    BY <1>2 DEF Handle, Consume, Refuse, Accept, BadSignature, Restore, Abort,
                GoTo, Nonce, Inputs
  <2>1. CASE Consume(r)
    <3>1. doc[Nonce(r)] # Nil /\ ~doc[Nonce(r)].consumed
      BY <2>1 DEF Consume, Matches
    <3>2. \A s \in Requests : pc[s] \in Holding => Nonce(s) # Nonce(r)
      BY <3>1
    <3>3. doc[Nonce(r)] \in Documents
      BY <2>0, <3>1
    <3>4. doc'[Nonce(r)].consumed
      BY <2>0, <2>1, <3>3 DEF Consume, Documents
    <3>5. \A m \in Nonces : m # Nonce(r) => doc'[m] = doc[m]
      BY <2>1 DEF Consume
    <3>6. Nonce(r) \in issued
      BY <2>0, <3>1
    <3>7. DocsIssued'
      BY <2>0, <3>5, <3>6
    <3>8. Exclusive'
      BY <2>0, <3>2
    <3>9. HeldIsConsumed'
      BY <2>0, <3>2, <3>4, <3>5, <3>6
    <3> QED
      BY <3>7, <3>8, <3>9
  <2>2. CASE Restore(r)
    <3>1. pc[r] \in Holding /\ pc'[r] = "refused"
      BY <2>2 DEF Restore, GoTo
    <3>2. \A m \in Nonces : m # Nonce(r) => doc'[m] = doc[m]
      BY <2>2 DEF Restore
    <3>3. \A m \in Nonces : doc'[m] # Nil => doc[m] # Nil
      BY <2>0, <2>2 DEF Restore
    <3>4. \A s \in Requests \ {r} : pc[s] \in Holding => Nonce(s) # Nonce(r)
      BY <3>1
    <3> QED
      BY <2>0, <3>1, <3>2, <3>3, <3>4
  <2>3. CASE Refuse(r) \/ Abort(r)
    <3>1. doc' = doc /\ pc'[r] \in {"refused", "aborted"}
      BY <2>3 DEF Refuse, Abort, GoTo
    <3> QED
      BY <2>0, <3>1
  <2>4. CASE Accept(r) \/ BadSignature(r)
    <3>1. doc' = doc /\ pc[r] \in Holding
      BY <2>4 DEF Accept, BadSignature
    <3> QED
      BY <2>0, <3>1
  <2> QED
    BY <1>2, <2>1, <2>2, <2>3, <2>4 DEF Handle
<1>3. CASE Tick
  BY <1>3 DEF Tick, Nonce
<1>4. ASSUME NEW n \in Nonces, Sweep(n)
      PROVE  (DocsIssued /\ Exclusive /\ HeldIsConsumed)'
  <2>1. \A m \in Nonces : doc'[m] = IF m = n THEN Nil ELSE doc[m]
    BY <1>4 DEF Sweep
  <2>2. \A s \in Requests : Nonce(s)' = Nonce(s) /\ Nonce(s) \in Nonces
    BY <1>4 DEF Sweep, Nonce, Inputs
  <2> QED
    BY <1>4, <2>1, <2>2 DEF Sweep
<1>5. CASE UNCHANGED vars
  BY <1>5 DEF vars, Nonce
<1> QED
  BY <1>1, <1>2, <1>3, <1>4, <1>5 DEF Next

(* The inductive invariant of the collection and its handlers.             *)
THEOREM Invariance == Spec => []IInv
<1>1. IInv /\ [Next]_vars => IInv'
  BY TypeStep, HoldStep DEF IInv
<1> QED
  BY InitIInv, <1>1, PTL DEF Spec

(* Every variable always keeps its type.                                   *)
THEOREM TypeCorrect == Spec => []TypeOK
<1>1. IInv => TypeOK
  BY DEF IInv
<1> QED
  BY Invariance, <1>1, PTL

(* A nonce is in the hands of one request at a time, for any number of     *)
(* server processes: consume-first makes the later un-consume race-free.   *)
THEOREM HeldAlone == Spec => []Exclusive
<1>1. IInv => Exclusive
  BY DEF IInv
<1> QED
  BY Invariance, <1>1, PTL

-----------------------------------------------------------------------------
(* A step grants at most one request, and only one whose nonce has not     *)
(* authorized another.                                                     *)
LEMMA GrantStep == IInv /\ [Next]_vars => [Abstract!Next]_Granted
<1> SUFFICES ASSUME IInv, [Next]_vars PROVE [Abstract!Next]_Granted
  OBVIOUS
<1> USE DEF Granted, IInv, TypeOK
<1>1. ASSUME NEW r \in Requests, Accept(r) PROVE Abstract!Next
  <2>1. \A s \in Requests :
          /\ Nonce(s)' = Nonce(s)
          /\ pc'[s] = "accepted" <=> (s = r \/ pc[s] = "accepted")
    BY <1>1 DEF Accept, GoTo, Nonce
  <2>2. Granted' = Granted \cup {<<Nonce(r), r>>}
    BY <2>1
  <2>3. \A s \in Requests : pc[s] = "accepted" => Nonce(s) # Nonce(r)
    BY <1>1 DEF Accept, Exclusive, Holding
  <2>4. Nonce(r) \in Nonces /\ \A s \in Requests : <<Nonce(r), s>> \notin Granted
    BY <2>3 DEF Nonce, Inputs
  <2> QED
    BY <2>2, <2>4 DEF Abstract!Next, Abstract!Authorize
<1>2. ASSUME NEW r \in Requests,
             Consume(r) \/ Refuse(r) \/ BadSignature(r) \/ Restore(r) \/ Abort(r)
      PROVE  Granted' = Granted
  <2>1. \A s \in Requests :
          /\ Nonce(s)' = Nonce(s)
          /\ pc'[s] = "accepted" <=> pc[s] = "accepted"
    BY <1>2 DEF Consume, Refuse, BadSignature, Restore, Abort, GoTo, Nonce
  <2> QED
    BY <2>1
<1>3. CASE \E n \in Nonces, w \in Wallets, nm \in Names : Issue(n, w, nm)
  BY <1>3 DEF Issue, Nonce
<1>4. CASE Tick \/ \E n \in Nonces : Sweep(n)
  BY <1>4 DEF Tick, Sweep, Nonce
<1>5. CASE UNCHANGED vars
  BY <1>5 DEF vars, Nonce
<1> QED
  BY <1>1, <1>2, <1>3, <1>4, <1>5 DEF Next, Handle

(* The collection and verifyAndConsume implement the single-use challenge: *)
(* whatever is presented, each nonce authorizes at most one request.       *)
THEOREM Refinement == Spec => ImplementsSingleUse
<1>1. Init => Abstract!Init
  BY DEF Init, Abstract!Init, Granted
<1>2. IInv /\ [Next]_vars => [Abstract!Next]_Granted
  BY GrantStep
<1> QED
  BY <1>1, <1>2, Invariance, PTL DEF Spec, ImplementsSingleUse, Abstract!Spec

-----------------------------------------------------------------------------
(* A nonce that stays consumed is held by a request, or one presented      *)
(* another message with it, or one died with it in hand: a mere typo in    *)
(* the signature never burns it.                                           *)
THEOREM TyposForgiven == Spec => []TypoKeepsNonce
<1>1. Init => TypoKeepsNonce
  BY DEF Init, TypoKeepsNonce
<1>2. IInv /\ TypoKeepsNonce /\ [Next]_vars => TypoKeepsNonce'
  <2> SUFFICES ASSUME IInv, TypoKeepsNonce, [Next]_vars,
                      NEW n \in Nonces, doc'[n] # Nil, doc'[n].consumed
               PROVE  \E s \in Requests :
                        /\ Nonce(s)' = n
                        /\ pc'[s] \in Holding \cup {"mismatched", "aborted"}
    BY DEF TypoKeepsNonce
  <2> DEFINE Keeps(s) == pc[s] \in Holding \cup {"mismatched", "aborted"}
  <2> USE DEF IInv, TypeOK
  <2>1. ASSUME NEW m \in Nonces, NEW w \in Wallets, NEW nm \in Names, Issue(m, w, nm)
        PROVE  doc'[n] = doc[n] /\ pc' = pc /\ input' = input
    BY <2>1 DEF Issue
  <2>2. ASSUME NEW m \in Nonces, Sweep(m)
        PROVE  doc'[n] = doc[n] /\ pc' = pc /\ input' = input
    BY <2>2 DEF Sweep
  <2>3. CASE Tick \/ UNCHANGED vars
    BY <2>3 DEF Tick, vars, TypoKeepsNonce, Nonce
  <2>4. CASE doc'[n] = doc[n] /\ pc' = pc /\ input' = input
    BY <2>4 DEF TypoKeepsNonce, Nonce
  <2>5. ASSUME NEW r \in Requests, Handle(r)
        PROVE  \E s \in Requests :
                 /\ Nonce(s)' = n
                 /\ pc'[s] \in Holding \cup {"mismatched", "aborted"}
    <3>1. \A s \in Requests : Nonce(s)' = Nonce(s) /\ (s # r => pc'[s] = pc[s])
      BY <2>5 DEF Handle, Consume, Refuse, Accept, BadSignature, Restore, Abort, GoTo, Nonce
    <3>2. CASE Consume(r)
      <4>1. pc'[r] \in Holding \cup {"mismatched"}
        BY <3>2 DEF Consume, GoTo, Holding
      <4>2. ~Keeps(r)
        BY <3>2 DEF Consume, Holding
      <4>3. Nonce(r) # n => doc'[n] = doc[n]
        BY <3>2 DEF Consume
      <4> QED
        BY <3>1, <4>1, <4>2, <4>3 DEF TypoKeepsNonce
    <3>3. CASE Restore(r)
      <4>1. Nonce(r) # n
        BY <3>3, ConsumedIsDocument DEF Restore, Documents
      <4>2. doc'[n] = doc[n]
        BY <3>3, <4>1 DEF Restore
      <4> QED
        BY <3>1, <4>1, <4>2 DEF TypoKeepsNonce
    <3>4. CASE Refuse(r)
      <4>1. doc'[n] = doc[n] /\ ~Keeps(r)
        BY <3>4 DEF Refuse, Holding
      <4> QED
        BY <3>1, <4>1 DEF TypoKeepsNonce
    <3>5. CASE Accept(r) \/ BadSignature(r) \/ Abort(r)
      <4>1. doc'[n] = doc[n] /\ pc'[r] \in Holding \cup {"aborted"}
        BY <3>5 DEF Accept, BadSignature, Abort, GoTo, Holding
      <4> QED
        BY <3>1, <4>1 DEF TypoKeepsNonce
    <3> QED
      BY <2>5, <3>2, <3>3, <3>4, <3>5 DEF Handle
  <2> QED
    BY <2>1, <2>2, <2>3, <2>4, <2>5 DEF Next
<1> QED
  BY <1>1, <1>2, Invariance, PTL DEF Spec

-----------------------------------------------------------------------------
(* The registry of runtimes.  A registered runtime runs, in its own mode,  *)
(* and its boot is over.                                                   *)
RegisteredRuns ==
  \A m \in BOOLEAN : registry[m] # NoCall =>
    /\ ModeOf(registry[m]) = m
    /\ running[registry[m]]
    /\ phase[registry[m]] \in {"bound", "waiting", "reporting", "done"}

(* Boots that do not overlap find no runtime of their mode, and once the   *)
(* other mode is torn down none at all.                                    *)
BootsAlone ==
  ~overlapped =>
    /\ \A c, d \in Booting : c = d
    /\ \A c \in Calls : phase[c] = "loading" => registry[ModeOf(c)] = NoCall
    /\ \A c \in Calls : phase[c] \in {"building", "starting"} =>
         \A m \in BOOLEAN : registry[m] = NoCall
    /\ \A r \in Calls : running[r] => /\ registry[ModeOf(r)] = r
                                      /\ registry[~ModeOf(r)] = NoCall

(* A boot that has read the skills has what FreshUnlessRaced asks for.     *)
UpToDate(r) ==
  skills[r] \in {version, 0} \/ edits > 0 \/ unpublished \/ r \in raced
FreshBoots == \A c \in Calls : phase[c] = "starting" => UpToDate(c)

(* A call has a runtime once it is past its boot.                          *)
HasCallee == \A c \in Calls : phase[c] \in {"bound", "waiting", "reporting"} => callee[c] \in Calls

RegTypes == CalleeTypeOK /\ HasCallee
RegInv == RegTypes /\ RegisteredRuns /\ BootsAlone /\ FreshBoots /\ FreshUnlessRaced

(* Calls under way at the same time have each other's company.             *)
InCompany == \A c, d \in Active : c # d => c \in company

(* Nobody has heard of a call that has not sent its request.               *)
Unsent(c) == phase[c] \in {"idle", "loading", "building", "starting", "bound"}
Unheard ==
  \A c \in Calls : Unsent(c) =>
    /\ answer[c] = "none"
    /\ \A r \in Calls : serving[r] # c
    /\ \A i \in DOMAIN inbox : inbox[i] # c

(* Plain compute holds no proof.                                           *)
NoProof == \A r \in Calls : ~Proves(r) => lastTee[r] = NoCall

(* What a call without company finds: one runtime that listens, its own    *)
(* request last in the inbox, then in that runtime's hand, then answered   *)
(* with nothing behind it.                                                 *)
Lone(c) == ~overlapped /\ c \notin company

OnlyCallee(c) ==
  phase[c] \in {"bound", "waiting", "reporting"} => \A r \in Calls : running[r] => r = callee[c]

InTurn(c) ==
  phase[c] \in {"waiting", "reporting"} =>
    /\ \A r \in Calls : serving[r] = c => r = callee[c]
    /\ \A i \in DOMAIN inbox : inbox[i] = c => i = Len(inbox)
    /\ (\A i \in DOMAIN inbox : inbox[i] # c) => inbox = <<>>
    /\ \A i \in DOMAIN inbox : inbox[i] = c =>
         answer[c] = "none" /\ \A r \in Calls : serving[r] # c
    /\ \A r \in Calls : serving[r] = c /\ stage[r] = "run" => answer[c] = "none"
    /\ answer[c] = "ok" =>
         /\ serving[callee[c]] \in {c, NoCall}
         /\ lastTee[callee[c]] \in {c, NoCall}

Compared(c) ==
  phase[c] = "reporting" => answer[c] = "ok" /\ head[callee[c]] \in {repBefore[c], c}

Own(c) == report[c].tee \in {c, NoCall} /\ report[c].rep \in {c, NoCall}

Tracked(c) == OnlyCallee(c) /\ InTurn(c) /\ Compared(c) /\ Own(c)

CInv ==
  /\ RegInv /\ InCompany /\ Unheard /\ NoProof
  /\ \A c \in Calls : Lone(c) => Tracked(c)

-----------------------------------------------------------------------------
(* Types, and the registry without the calls                               *)

LEMMA ModeType ==
  ASSUME NEW c
  PROVE  ModeOf(c) \in BOOLEAN /\ (~ModeOf(c)) \in BOOLEAN
<1>1. ModeOf(c) \in BOOLEAN
  BY DEF ModeOf
<1>2. (~ModeOf(c)) \in BOOLEAN
  BY DEF ModeOf
<1> QED
  BY <1>1, <1>2

(* A call moves on.                                                        *)
LEMMA PhaseFacts ==
  ASSUME CalleeTypeOK, NEW c \in Calls, Goto(c, phase'[c]),
         phase'[c] \in {"idle", "loading", "building", "starting", "bound", "waiting",
                        "reporting", "done"}
  PROVE  /\ phase' \in [Calls -> {"idle", "loading", "building", "starting", "bound",
                                  "waiting", "reporting", "done"}]
         /\ \A d \in Calls : d # c => phase'[d] = phase[d]
  BY DEF CalleeTypeOK, Goto

LEMMA CallTypeStep ==
  ASSUME RegTypes, NEW c \in Calls, Call(c)
  PROVE  RegTypes'
<1> USE RegistryAssumption
<1>0. CalleeTypeOK /\ HasCallee
  BY DEF RegTypes
<1>1. CASE Start(c)
  <2>1. Active \subseteq Calls
    BY DEF Active
  <2>2. UNCHANGED <<registry, running, skills, repBefore, report, inbox, stage, serving, lastTee,
                    head, broken, answer, version, edits, unpublished, raced, mishaps>>
    BY <1>1 DEF Start, registryVars, loopVars, editVars
  <2>3. /\ phase' \in [Calls -> {"idle", "loading", "building", "starting", "bound", "waiting",
                                 "reporting", "done"}]
        /\ callee' \in [Calls -> Calls \cup {NoCall}]
        /\ callee'[c] = registry[ModeOf(c)]
        /\ phase'[c] = "bound" => registry[ModeOf(c)] # NoCall
        /\ registry[ModeOf(c)] \in Calls \cup {NoCall}
        /\ phase'[c] \in {"bound", "loading"}
        /\ \A d \in Calls : d # c => phase'[d] = phase[d] /\ callee'[d] = callee[d]
    BY <1>0, <1>1, ModeType DEF CalleeTypeOK, Start, Goto
  <2>4. company' \subseteq Calls /\ overlapped' \in BOOLEAN
    BY <1>0, <1>1, <2>1 DEF CalleeTypeOK, Start
  <2>5. CalleeTypeOK'
    BY <1>0, <2>2, <2>3, <2>4 DEF CalleeTypeOK
  <2>6. HasCallee'
    BY <1>0, <2>3 DEF HasCallee
  <2> QED
    BY <2>5, <2>6 DEF RegTypes
<1>2. CASE LoadIdentity(c) \/ ListSkills(c) \/ Register(c)
  <2>1. UNCHANGED <<repBefore, report, inbox, stage, serving, lastTee, head, broken, answer,
                    version, edits, unpublished, overlapped, company, raced>>
    BY <1>2 DEF LoadIdentity, ListSkills, Register, loopVars, editVars, history
  <2>2. mishaps' \in Nat
    BY <1>0, <1>2 DEF LoadIdentity, ListSkills, Register, Mishap, CalleeTypeOK
  <2>3. /\ registry' \in [BOOLEAN -> Calls \cup {NoCall}]
        /\ running' \in [Calls -> BOOLEAN]
    <3>1. CASE LoadIdentity(c)
      BY <1>0, <3>1 DEF LoadIdentity, Drop, CalleeTypeOK
    <3>2. CASE ListSkills(c)
      BY <1>0, <3>2 DEF ListSkills, CalleeTypeOK
    <3>3. CASE Register(c)
      BY <1>0, <3>3, ModeType DEF Register, CalleeTypeOK
    <3> QED
      BY <1>2, <3>1, <3>2, <3>3
  <2>4. skills' \in [Calls -> Nat]
    BY <1>0, <1>2 DEF LoadIdentity, ListSkills, Register, CalleeTypeOK
  <2>5. /\ phase' \in [Calls -> {"idle", "loading", "building", "starting", "bound", "waiting",
                                 "reporting", "done"}]
        /\ callee' \in [Calls -> Calls \cup {NoCall}]
        /\ phase'[c] = "bound" => callee'[c] = c
        /\ phase'[c] \in {"bound", "starting", "building"}
        /\ \A d \in Calls : d # c => phase'[d] = phase[d] /\ callee'[d] = callee[d]
    <3>1. CASE LoadIdentity(c)
      BY <1>0, <3>1 DEF LoadIdentity, Goto, CalleeTypeOK
    <3>2. CASE ListSkills(c)
      BY <1>0, <3>2 DEF ListSkills, Goto, CalleeTypeOK
    <3>3. CASE Register(c)
      BY <1>0, <3>3 DEF Register, Goto, CalleeTypeOK
    <3> QED
      BY <1>2, <3>1, <3>2, <3>3
  <2>6. CalleeTypeOK'
    BY <1>0, <2>1, <2>2, <2>3, <2>4, <2>5 DEF CalleeTypeOK
  <2>7. HasCallee'
    BY <1>0, <2>5 DEF HasCallee
  <2> QED
    BY <2>6, <2>7 DEF RegTypes
<1>3. CASE BuildFails(c) \/ Fail(c) \/ Throw(c) \/ Dispatch(c)
  <2>1. UNCHANGED <<registry, running, skills, callee, repBefore, report, stage, serving, lastTee,
                    head, broken, answer, version, edits, unpublished, overlapped, company, raced>>
    BY <1>3 DEF BuildFails, Fail, Throw, Dispatch, registryVars, loopVars, editVars, history
  <2>2. mishaps' \in Nat /\ inbox' \in Seq(Calls)
    <3>1. CASE Dispatch(c)
      BY <1>0, <3>1 DEF Dispatch, CalleeTypeOK
    <3>2. CASE BuildFails(c) \/ Fail(c) \/ Throw(c)
      BY <1>0, <3>2 DEF BuildFails, Fail, Throw, Mishap, CalleeTypeOK
    <3> QED
      BY <1>3, <3>1, <3>2
  <2>3. /\ phase' \in [Calls -> {"idle", "loading", "building", "starting", "bound", "waiting",
                                 "reporting", "done"}]
        /\ phase'[c] = "done" \/ (phase'[c] = "waiting" /\ phase[c] = "bound")
        /\ \A d \in Calls : d # c => phase'[d] = phase[d]
    <3>1. CASE Dispatch(c)
      BY <1>0, <3>1 DEF Dispatch, Goto, CalleeTypeOK
    <3>2. CASE BuildFails(c) \/ Fail(c) \/ Throw(c)
      <4>1. Goto(c, "done")
        BY <3>2 DEF BuildFails, Fail, Throw
      <4> QED
        BY <1>0, <4>1 DEF Goto, CalleeTypeOK
    <3> QED
      BY <1>3, <3>1, <3>2
  <2>4. CalleeTypeOK'
    BY <1>0, <2>1, <2>2, <2>3 DEF CalleeTypeOK
  <2>5. HasCallee'
    BY <1>0, <2>1, <2>3 DEF HasCallee
  <2> QED
    BY <2>4, <2>5 DEF RegTypes
<1>4. CASE Receive(c) \/ Report(c)
  <2>1. UNCHANGED <<registry, running, skills, callee, inbox, stage, serving, lastTee, head, broken,
                    answer, version, edits, unpublished, overlapped, company, raced, mishaps>>
    BY <1>4 DEF Receive, Report, registryVars, loopVars, editVars, history
  <2>2. /\ phase' \in [Calls -> {"idle", "loading", "building", "starting", "bound", "waiting",
                                 "reporting", "done"}]
        /\ phase[c] \in {"waiting", "reporting"} /\ phase'[c] \in {"reporting", "done"}
        /\ \A d \in Calls : d # c => phase'[d] = phase[d]
    <3>1. /\ phase[c] \in {"waiting", "reporting"}
          /\ Goto(c, "reporting") \/ Goto(c, "done")
      BY <1>4 DEF Receive, Report
    <3> QED
      BY <1>0, <3>1 DEF Goto, CalleeTypeOK
  <2>3. callee[c] \in Calls
    BY <1>0, <2>2 DEF HasCallee
  <2>4. head[callee[c]] \in Calls \cup {NoCall} /\ lastTee[callee[c]] \in Calls \cup {NoCall}
    BY <1>0, <2>3 DEF CalleeTypeOK
  <2>5. repBefore' \in [Calls -> Calls \cup {NoCall}]
    BY <1>0, <1>4, <2>4 DEF Receive, Report, CalleeTypeOK
  <2>6. report' \in [Calls -> [tee : Calls \cup {NoCall}, rep : Calls \cup {NoCall}]]
    <3> DEFINE S == Calls \cup {NoCall}
    <3>0. report \in [Calls -> [tee : S, rep : S]]
      BY <1>0 DEF CalleeTypeOK
    <3>1. CASE Receive(c)
      <4>1. [report[c] EXCEPT !.tee = lastTee[callee[c]]] \in [tee : S, rep : S]
        BY <2>4, <3>0
      <4>2. report' = [report EXCEPT ![c] = [report[c] EXCEPT !.tee = lastTee[callee[c]]]]
        BY <3>1 DEF Receive
      <4> QED
        BY <3>0, <4>1, <4>2
    <3>2. CASE Report(c)
      <4> DEFINE x == IF head[callee[c]] # repBefore[c] THEN head[callee[c]] ELSE NoCall
      <4>1. [report[c] EXCEPT !.rep = x] \in [tee : S, rep : S]
        BY <2>4, <3>0
      <4>2. report' = [report EXCEPT ![c] = [report[c] EXCEPT !.rep = x]]
        BY <3>2 DEF Report
      <4> QED
        BY <3>0, <4>1, <4>2
    <3> QED
      BY <1>4, <3>1, <3>2
  <2>7. CalleeTypeOK'
    BY <1>0, <2>1, <2>2, <2>5, <2>6 DEF CalleeTypeOK
  <2>8. HasCallee'
    BY <1>0, <2>1, <2>2 DEF HasCallee
  <2> QED
    BY <2>7, <2>8 DEF RegTypes
<1> QED
  BY <1>1, <1>2, <1>3, <1>4 DEF Call

LEMMA LoopTypeStep ==
  ASSUME RegTypes, NEW r \in Calls, Loop(r)
  PROVE  RegTypes'
<1> USE RegistryAssumption
<1>0. CalleeTypeOK /\ HasCallee
  BY DEF RegTypes
<1>1. UNCHANGED <<registry, running, skills, phase, callee, repBefore, report, version, edits,
                  unpublished, overlapped, company, raced>>
  BY DEF Loop, Poll, ReplyOk, HandlerThrows, Answer, Attest, AttestFails, NextMessage,
         registryVars, callVars, editVars, history
<1>2. HasCallee'
  BY <1>0, <1>1 DEF HasCallee
<1>3. mishaps' \in Nat
  BY <1>0 DEF Loop, Poll, ReplyOk, HandlerThrows, Answer, Attest, AttestFails, Mishap, CalleeTypeOK
<1>4. CASE Poll(r)
  <2>1. Head(inbox) \in Calls /\ inbox' \in Seq(Calls)
    BY <1>0, <1>4, HeadTailProperties DEF Poll, CalleeTypeOK
  <2>2. /\ stage' \in [Calls -> {"idle", "run", "attest"}]
        /\ serving' \in [Calls -> Calls \cup {NoCall}]
        /\ \A q \in Calls : stage'[q] = "idle" <=> serving'[q] = NoCall
    BY <1>0, <1>4, <2>1 DEF Poll, CalleeTypeOK
  <2>3. CalleeTypeOK'
    BY <1>0, <1>1, <1>3, <1>4, <2>1, <2>2 DEF Poll, CalleeTypeOK
  <2> QED
    BY <1>2, <2>3 DEF RegTypes
<1>5. CASE ReplyOk(r) \/ HandlerThrows(r)
  <2>1. stage[r] = "run" /\ UNCHANGED <<inbox, serving, head, broken>>
    BY <1>5 DEF ReplyOk, HandlerThrows, Answer, callVars
  <2>2. serving[r] \in Calls
    BY <1>0, <2>1 DEF CalleeTypeOK
  <2>3. answer' \in [Calls -> {"none", "ok", "error"}] /\ stage' \in [Calls -> {"idle", "run", "attest"}]
    BY <1>0, <1>5, <2>2 DEF ReplyOk, HandlerThrows, Answer, CalleeTypeOK
  <2>4. lastTee' \in [Calls -> Calls \cup {NoCall}]
    BY <1>0, <1>5, <2>2 DEF ReplyOk, HandlerThrows, Infer, CalleeTypeOK
  <2>5. \A q \in Calls : stage'[q] = "idle" <=> serving'[q] = NoCall
    BY <1>0, <1>5, <2>1 DEF ReplyOk, HandlerThrows, Answer, CalleeTypeOK
  <2>6. CalleeTypeOK'
    BY <1>0, <1>1, <1>3, <2>1, <2>3, <2>4, <2>5 DEF CalleeTypeOK
  <2> QED
    BY <1>2, <2>6 DEF RegTypes
<1>6. CASE Attest(r) \/ AttestFails(r)
  <2>1. stage[r] = "attest" /\ NextMessage(r)
    BY <1>6 DEF Attest, AttestFails
  <2>2. UNCHANGED <<inbox, lastTee, answer>>
    BY <2>1 DEF NextMessage, callVars
  <2>3. /\ stage' \in [Calls -> {"idle", "run", "attest"}]
        /\ serving' \in [Calls -> Calls \cup {NoCall}]
        /\ \A q \in Calls : stage'[q] = "idle" <=> serving'[q] = NoCall
    BY <1>0, <2>1 DEF NextMessage, CalleeTypeOK
  <2>4. head' \in [Calls -> Calls \cup {NoCall}] /\ broken' \subseteq Calls
    BY <1>0, <1>6 DEF Attest, AttestFails, CalleeTypeOK
  <2>5. CalleeTypeOK'
    BY <1>0, <1>1, <1>3, <2>2, <2>3, <2>4 DEF CalleeTypeOK
  <2> QED
    BY <1>2, <2>5 DEF RegTypes
<1> QED
  BY <1>4, <1>5, <1>6 DEF Loop

LEMMA EditTypeStep ==
  ASSUME RegTypes, WriteSkills \/ PublishFails \/ EvictRuntime
  PROVE  RegTypes'
<1>0. CalleeTypeOK /\ HasCallee
  BY DEF RegTypes
<1>1. UNCHANGED <<skills, phase, callee, repBefore, report, inbox, stage, serving, lastTee, head,
                  broken, answer, overlapped, company>>
  BY DEF WriteSkills, PublishFails, EvictRuntime, registryVars, callVars, loopVars, history
<1>2. registry' \in [BOOLEAN -> Calls \cup {NoCall}] /\ running' \in [Calls -> BOOLEAN]
  <2>1. CASE EvictRuntime
    BY <1>0, <2>1 DEF EvictRuntime, Drop, CalleeTypeOK
  <2>2. CASE WriteSkills \/ PublishFails
    BY <1>0, <2>2 DEF WriteSkills, PublishFails, registryVars, CalleeTypeOK
  <2> QED
    BY <2>1, <2>2
<1>3. /\ version' \in Nat /\ edits' \in Nat /\ unpublished' \in BOOLEAN /\ mishaps' \in Nat
      /\ raced' \subseteq Calls
  <2>1. CASE WriteSkills
    BY <1>0, <2>1 DEF WriteSkills, Mishap, history, CalleeTypeOK
  <2>2. CASE PublishFails
    BY <1>0, <2>2 DEF PublishFails, history, CalleeTypeOK
  <2>3. CASE EvictRuntime
    BY <1>0, <2>3 DEF EvictRuntime, CalleeTypeOK
  <2> QED
    BY <2>1, <2>2, <2>3
<1>4. CalleeTypeOK'
  BY <1>0, <1>1, <1>2, <1>3 DEF CalleeTypeOK
<1>5. HasCallee'
  BY <1>0, <1>1 DEF HasCallee
<1> QED
  BY <1>4, <1>5 DEF RegTypes

(* A call ends, or moves on behind its boot.                               *)
LEMMA RegQuietCall ==
  ASSUME RegInv, RegTypes', NEW c \in Calls,
         UNCHANGED <<registry, running, skills, overlapped, version, edits, unpublished, raced>>,
         phase'[c] \in {"waiting", "reporting", "done"},
         \A d \in Calls : d # c => phase'[d] = phase[d]
  PROVE  RegInv'
<1>1. \A m \in BOOLEAN : registry[m] # NoCall => registry[m] \in Calls
  BY DEF RegInv, RegTypes, CalleeTypeOK
<1>2. RegisteredRuns'
  BY <1>1 DEF RegInv, RegisteredRuns, ModeOf
<1>3. Booting' \subseteq Booting
  BY DEF Booting
<1>4. BootsAlone'
  <2> SUFFICES ASSUME ~overlapped PROVE BootsAlone'
    BY DEF BootsAlone
  <2>1. \A d \in Calls : phase'[d] \in {"loading", "building", "starting"} => phase'[d] = phase[d]
    OBVIOUS
  <2> QED
    BY <1>3, <2>1 DEF RegInv, BootsAlone, ModeOf
<1>5. FreshBoots' /\ FreshUnlessRaced'
  BY DEF RegInv, FreshBoots, UpToDate, FreshUnlessRaced
<1> QED
  BY <1>2, <1>4, <1>5 DEF RegInv

LEMMA RegStart ==
  ASSUME RegInv, RegTypes', NEW c \in Calls, Start(c)
  PROVE  RegInv'
<1>0. /\ UNCHANGED <<registry, running, skills, version, edits, unpublished, raced>>
      /\ phase[c] = "idle" /\ CalleeTypeOK
  BY DEF Start, registryVars, editVars, RegInv, RegTypes
<1>1. /\ phase'[c] = IF registry[ModeOf(c)] = NoCall THEN "loading" ELSE "bound"
      /\ \A d \in Calls : d # c => phase'[d] = phase[d]
  BY <1>0 DEF Start, Goto, CalleeTypeOK
<1>2. \A m \in BOOLEAN : registry[m] # NoCall => registry[m] \in Calls
  BY <1>0 DEF CalleeTypeOK
<1>3. RegisteredRuns'
  BY <1>0, <1>1, <1>2 DEF RegInv, RegisteredRuns, ModeOf
<1>4. BootsAlone'
  <2> SUFFICES ASSUME ~overlapped' PROVE BootsAlone'
    BY DEF BootsAlone
  <2>1. ~overlapped /\ (registry[ModeOf(c)] = NoCall => Booting = {})
    BY DEF Start
  <2>2. \A d, e \in Booting' : d = e
    BY <1>0, <1>1, <2>1 DEF RegInv, BootsAlone, Booting
  <2>3. \A d \in Calls : phase'[d] = "loading" => registry[ModeOf(d)] = NoCall
    BY <1>1, <2>1 DEF RegInv, BootsAlone
  <2>4. \A d \in Calls : phase'[d] \in {"building", "starting"} => phase[d] = phase'[d]
    BY <1>1
  <2> QED
    BY <1>0, <2>1, <2>2, <2>3, <2>4 DEF RegInv, BootsAlone, ModeOf
<1>5. FreshBoots' /\ FreshUnlessRaced'
  BY <1>0, <1>1 DEF RegInv, FreshBoots, UpToDate, FreshUnlessRaced
<1> QED
  BY <1>3, <1>4, <1>5 DEF RegInv

(* Runtimes are stopped and forgotten, none other is.                      *)
LEMMA DropFacts ==
  ASSUME RegInv, NEW S \in SUBSET BOOLEAN, Drop(S)
  PROVE  /\ \A m \in BOOLEAN : registry'[m] = IF m \in S THEN NoCall ELSE registry[m]
         /\ \A r \in Calls : running'[r] => running[r] /\ \A m \in S : registry[m] # r
         /\ \A m \in BOOLEAN \ S : registry[m] # NoCall =>
              registry[m] \in Calls /\ running'[registry[m]]
<1>1. \A m \in BOOLEAN : registry'[m] = IF m \in S THEN NoCall ELSE registry[m]
  BY DEF Drop
<1>2. ASSUME NEW r \in Calls
      PROVE  running'[r] = (running[r] /\ \A m \in S : registry[m] # r)
  BY DEF Drop
<1>3. ASSUME NEW m \in BOOLEAN \ S, registry[m] # NoCall
      PROVE  registry[m] \in Calls /\ running'[registry[m]]
  <2>1. registry[m] \in Calls
    BY <1>3 DEF RegInv, RegTypes, CalleeTypeOK
  <2>2. running[registry[m]] /\ ModeOf(registry[m]) = m
    BY <1>3 DEF RegInv, RegisteredRuns
  <2>3. ASSUME NEW k \in S, registry[k] = registry[m] PROVE FALSE
    <3>1. k \in BOOLEAN /\ registry[k] # NoCall
      BY <1>3, <2>3
    <3>2. ModeOf(registry[k]) = k
      BY <3>1 DEF RegInv, RegisteredRuns
    <3> QED
      BY <1>3, <2>2, <2>3, <3>2
  <2> QED
    BY <1>2, <2>1, <2>2, <2>3
<1> QED
  BY <1>1, <1>2, <1>3

LEMMA RegLoadIdentity ==
  ASSUME RegInv, RegTypes', NEW c \in Calls, LoadIdentity(c)
  PROVE  RegInv'
<1> DEFINE other == ~ModeOf(c)
<1>0. /\ UNCHANGED <<skills, version, edits, unpublished, raced, overlapped>>
      /\ phase[c] = "loading" /\ CalleeTypeOK /\ Drop({other})
  BY DEF LoadIdentity, editVars, history, RegInv, RegTypes
<1>1. phase'[c] = "building" /\ \A d \in Calls : d # c => phase'[d] = phase[d]
  BY <1>0 DEF LoadIdentity, Goto, CalleeTypeOK
<1>2. other \in BOOLEAN /\ other # ModeOf(c) /\ ModeOf(c) \in BOOLEAN
      /\ \A m \in BOOLEAN : m = other \/ m = ModeOf(c)
  BY ModeType DEF ModeOf
<1> HIDE DEF other
<1>3. /\ \A m \in BOOLEAN : registry'[m] = IF m = other THEN NoCall ELSE registry[m]
      /\ \A r \in Calls : running'[r] => running[r] /\ registry[other] # r
      /\ \A m \in BOOLEAN : m # other /\ registry[m] # NoCall =>
           registry[m] \in Calls /\ running'[registry[m]]
  <2>1. {other} \in SUBSET BOOLEAN
    BY <1>2
  <2> QED
    BY <1>0, <2>1, DropFacts
<1>4. RegisteredRuns'
  <2> SUFFICES ASSUME NEW m \in BOOLEAN, registry'[m] # NoCall
               PROVE  /\ ModeOf(registry'[m]) = m /\ running'[registry'[m]]
                      /\ phase'[registry'[m]] \in {"bound", "waiting", "reporting", "done"}
    BY DEF RegisteredRuns, ModeOf
  <2>1. registry'[m] = registry[m] /\ registry[m] \in Calls /\ running'[registry[m]]
    BY <1>3
  <2>2. /\ ModeOf(registry[m]) = m
        /\ phase[registry[m]] \in {"bound", "waiting", "reporting", "done"}
    BY <2>1 DEF RegInv, RegisteredRuns
  <2>3. registry[m] # c
    BY <1>0, <2>2
  <2> QED
    BY <1>1, <2>1, <2>2, <2>3
<1>5. BootsAlone'
  <2> SUFFICES ASSUME ~overlapped PROVE BootsAlone'
    BY <1>0 DEF BootsAlone
  <2>1. registry[ModeOf(c)] = NoCall
    BY <1>0 DEF RegInv, BootsAlone
  <2>2. \A m \in BOOLEAN : registry'[m] = NoCall
    BY <1>2, <1>3, <2>1
  <2>3. \A d, e \in Booting' : d = e
    BY <1>0, <1>1 DEF RegInv, BootsAlone, Booting
  <2>4. ASSUME NEW r \in Calls, running'[r] PROVE FALSE
    <3>1. running[r] /\ registry[other] # r
      BY <1>3, <2>4
    <3>2. registry[ModeOf(r)] = r
      BY <3>1 DEF RegInv, BootsAlone
    <3>3. ModeOf(r) = other \/ ModeOf(r) = ModeOf(c)
      BY <1>2, ModeType
    <3>4. r # NoCall
      BY RegistryAssumption
    <3> QED
      BY <2>1, <3>1, <3>2, <3>3, <3>4
  <2>5. \A d \in Calls : ModeOf(d) \in BOOLEAN
    BY ModeType
  <2> QED
    BY <2>2, <2>3, <2>4, <2>5 DEF BootsAlone, ModeOf
<1>6. FreshBoots' /\ FreshUnlessRaced'
  <2>1. FreshBoots'
    BY <1>0, <1>1 DEF RegInv, FreshBoots, UpToDate
  <2>2. FreshUnlessRaced'
    BY <1>0, <1>3 DEF RegInv, FreshUnlessRaced
  <2> QED
    BY <2>1, <2>2
<1> QED
  BY <1>4, <1>5, <1>6 DEF RegInv

LEMMA RegListSkills ==
  ASSUME RegInv, RegTypes', NEW c \in Calls, ListSkills(c)
  PROVE  RegInv'
<1>0. /\ UNCHANGED <<registry, running, version, edits, unpublished, raced, overlapped>>
      /\ phase[c] = "building" /\ CalleeTypeOK
  BY DEF ListSkills, editVars, history, RegInv, RegTypes
<1>1. phase'[c] = "starting" /\ \A d \in Calls : d # c => phase'[d] = phase[d]
  BY <1>0 DEF ListSkills, Goto, CalleeTypeOK
<1>2. skills'[c] \in {version, 0} /\ \A d \in Calls : d # c => skills'[d] = skills[d]
  BY <1>0 DEF ListSkills, CalleeTypeOK
<1>3. ASSUME NEW m \in BOOLEAN, registry[m] # NoCall
      PROVE  registry[m] \in Calls /\ registry[m] # c
  <2>1. registry[m] \in Calls
    BY <1>0, <1>3 DEF CalleeTypeOK
  <2>2. phase[registry[m]] \in {"bound", "waiting", "reporting", "done"}
    BY <1>3 DEF RegInv, RegisteredRuns
  <2> QED
    BY <1>0, <2>1, <2>2
<1>4. RegisteredRuns'
  BY <1>0, <1>1, <1>3 DEF RegInv, RegisteredRuns, ModeOf
<1>5. BootsAlone'
  <2> SUFFICES ASSUME ~overlapped PROVE BootsAlone'
    BY <1>0 DEF BootsAlone
  <2>1. Booting' = Booting
    BY <1>0, <1>1 DEF Booting
  <2>2. \A d \in Calls : phase'[d] = "loading" => phase[d] = "loading"
    BY <1>1
  <2>3. \A d \in Calls : phase'[d] \in {"building", "starting"} => phase[d] \in {"building", "starting"}
    BY <1>0, <1>1
  <2> QED
    BY <1>0, <2>1, <2>2, <2>3 DEF RegInv, BootsAlone, ModeOf
<1>6. FreshBoots'
  BY <1>0, <1>1, <1>2 DEF RegInv, FreshBoots, UpToDate
<1>7. FreshUnlessRaced'
  BY <1>0, <1>2, <1>3 DEF RegInv, FreshUnlessRaced
<1> QED
  BY <1>4, <1>5, <1>6, <1>7 DEF RegInv

LEMMA RegRegister ==
  ASSUME RegInv, RegTypes', NEW c \in Calls, Register(c)
  PROVE  RegInv'
<1>0. /\ UNCHANGED <<skills, version, edits, unpublished, raced, overlapped>>
      /\ phase[c] = "starting" /\ CalleeTypeOK /\ c # NoCall
  BY RegistryAssumption DEF Register, editVars, history, RegInv, RegTypes
<1>1. phase'[c] = "bound" /\ \A d \in Calls : d # c => phase'[d] = phase[d]
  BY <1>0 DEF Register, Goto, CalleeTypeOK
<1>2. /\ running'[c] /\ \A r \in Calls : r # c => running'[r] = running[r]
      /\ registry'[ModeOf(c)] = c
      /\ \A m \in BOOLEAN : m # ModeOf(c) => registry'[m] = registry[m]
  <2>1. running'[c] /\ \A r \in Calls : r # c => running'[r] = running[r]
    BY <1>0 DEF Register, CalleeTypeOK
  <2>2. registry \in [BOOLEAN -> Calls \cup {NoCall}] /\ ModeOf(c) \in BOOLEAN
    BY <1>0, ModeType DEF CalleeTypeOK
  <2>3. registry' = [registry EXCEPT ![ModeOf(c)] = c]
    BY DEF Register
  <2> QED
    BY <2>1, <2>2, <2>3
<1>3. ASSUME NEW m \in BOOLEAN, registry[m] # NoCall
      PROVE  registry[m] \in Calls /\ registry[m] # c
  <2>1. registry[m] \in Calls
    BY <1>0, <1>3 DEF CalleeTypeOK
  <2>2. phase[registry[m]] \in {"bound", "waiting", "reporting", "done"}
    BY <1>3 DEF RegInv, RegisteredRuns
  <2> QED
    BY <1>0, <2>1, <2>2
<1>4. RegisteredRuns'
  <2> SUFFICES ASSUME NEW m \in BOOLEAN, registry'[m] # NoCall
               PROVE  /\ ModeOf(registry'[m]) = m /\ running'[registry'[m]]
                      /\ phase'[registry'[m]] \in {"bound", "waiting", "reporting", "done"}
    BY DEF RegisteredRuns, ModeOf
  <2>1. CASE m = ModeOf(c)
    BY <1>1, <1>2, <2>1
  <2>2. CASE m # ModeOf(c)
    BY <1>1, <1>2, <1>3, <2>2 DEF RegInv, RegisteredRuns
  <2> QED
    BY <2>1, <2>2
<1>5. BootsAlone'
  <2> SUFFICES ASSUME ~overlapped PROVE BootsAlone'
    BY <1>0 DEF BootsAlone
  <2>1. Booting = {c} /\ Booting' = {}
    BY <1>0, <1>1 DEF RegInv, BootsAlone, Booting
  <2>2. \A m \in BOOLEAN : registry[m] = NoCall
    BY <1>0 DEF RegInv, BootsAlone
  <2>3. \A r \in Calls : ~running[r]
    <3>1. ASSUME NEW r \in Calls, running[r] PROVE FALSE
      <4>1. registry[ModeOf(r)] = r /\ r # NoCall
        BY <3>1, RegistryAssumption DEF RegInv, BootsAlone
      <4> QED
        BY <2>2, <4>1, ModeType
    <3> QED
      BY <3>1
  <2>4. \A r \in Calls : running'[r] => r = c
    BY <1>2, <2>3
  <2>5. registry'[~ModeOf(c)] = NoCall
    <3>1. (~ModeOf(c)) \in BOOLEAN /\ (~ModeOf(c)) # ModeOf(c)
      BY ModeType
    <3> QED
      BY <1>2, <2>2, <3>1
  <2>6. \A d \in Calls : d \notin Booting'
    BY <2>1
  <2> QED
    BY <1>2, <2>1, <2>4, <2>5, <2>6 DEF BootsAlone, Booting, ModeOf
<1>6. FreshBoots'
  BY <1>0, <1>1 DEF RegInv, FreshBoots, UpToDate
<1>7. FreshUnlessRaced'
  <2>1. UpToDate(c)'
    BY <1>0 DEF RegInv, FreshBoots, UpToDate
  <2>2. ASSUME NEW m \in BOOLEAN, registry'[m] # NoCall
        PROVE  \/ skills'[registry'[m]] \in {version', 0}
               \/ edits' > 0 \/ unpublished' \/ registry'[m] \in raced'
    <3>1. CASE m = ModeOf(c)
      BY <1>2, <2>1, <3>1 DEF UpToDate
    <3>2. CASE m # ModeOf(c)
      BY <1>0, <1>2, <2>2, <3>2 DEF RegInv, FreshUnlessRaced
    <3> QED
      BY <3>1, <3>2
  <2> QED
    BY <2>2 DEF FreshUnlessRaced
<1> QED
  BY <1>4, <1>5, <1>6, <1>7 DEF RegInv

LEMMA RegEdit ==
  ASSUME RegInv, RegTypes', WriteSkills \/ PublishFails \/ EvictRuntime
  PROVE  RegInv'
<1>0. /\ UNCHANGED <<skills, phase, overlapped>> /\ CalleeTypeOK
      /\ Booting' = Booting
  BY DEF WriteSkills, PublishFails, EvictRuntime, registryVars, callVars, history, RegInv,
         RegTypes, Booting
<1>1. CASE WriteSkills \/ PublishFails
  <2>1. UNCHANGED <<registry, running, raced>>
    BY <1>1 DEF WriteSkills, PublishFails, registryVars, history
  <2>2. edits' > 0 \/ unpublished'
    BY <1>0, <1>1 DEF WriteSkills, PublishFails, CalleeTypeOK
  <2>3. RegisteredRuns' /\ BootsAlone'
    BY <1>0, <2>1 DEF RegInv, RegisteredRuns, BootsAlone, ModeOf
  <2>4. FreshBoots' /\ FreshUnlessRaced'
    BY <2>2 DEF FreshBoots, UpToDate, FreshUnlessRaced
  <2> QED
    BY <2>3, <2>4 DEF RegInv
<1>2. CASE EvictRuntime
  <2>1. /\ \A m \in BOOLEAN : registry'[m] = NoCall
        /\ \A r \in Calls : running'[r] => running[r] /\ \A m \in BOOLEAN : registry[m] # r
    BY <1>2, DropFacts DEF EvictRuntime
  <2>2. RegisteredRuns' /\ FreshUnlessRaced'
    BY <2>1 DEF RegisteredRuns, FreshUnlessRaced
  <2>3. FreshBoots'
    BY <1>0, <1>2 DEF EvictRuntime, FreshBoots, UpToDate
  <2>4. BootsAlone'
    <3> SUFFICES ASSUME ~overlapped PROVE BootsAlone'
      BY <1>0 DEF BootsAlone
    <3>1. ASSUME NEW r \in Calls, running'[r] PROVE FALSE
      <4>1. registry[ModeOf(r)] = r /\ ModeOf(r) \in BOOLEAN
        BY <2>1, <3>1, ModeType DEF RegInv, BootsAlone
      <4> QED
        BY <2>1, <3>1, <4>1
    <3>2. \A d \in Calls : ModeOf(d) \in BOOLEAN
      BY ModeType
    <3> QED
      BY <1>0, <2>1, <3>1, <3>2 DEF RegInv, BootsAlone, ModeOf
  <2> QED
    BY <2>2, <2>3, <2>4 DEF RegInv
<1> QED
  BY <1>1, <1>2

LEMMA RegStep == RegInv /\ [CalleeNext]_calleeVars => RegInv'
<1> SUFFICES ASSUME RegInv, [CalleeNext]_calleeVars PROVE RegInv'
  OBVIOUS
<1>0. RegTypes /\ CalleeTypeOK
  BY DEF RegInv, RegTypes
<1>1. ASSUME NEW c \in Calls, Call(c) PROVE RegInv'
  <2>1. RegTypes'
    BY <1>0, <1>1, CallTypeStep
  <2>2. CASE BuildFails(c) \/ Fail(c) \/ Dispatch(c) \/ Receive(c) \/ Throw(c) \/ Report(c)
    <3>1. UNCHANGED <<registry, running, skills, overlapped, version, edits, unpublished, raced>>
      BY <2>2 DEF BuildFails, Fail, Dispatch, Receive, Throw, Report, registryVars, editVars, history
    <3>2. Goto(c, "done") \/ Goto(c, "waiting") \/ Goto(c, "reporting")
      BY <2>2 DEF BuildFails, Fail, Dispatch, Receive, Throw, Report
    <3>3. /\ phase'[c] \in {"waiting", "reporting", "done"}
          /\ \A d \in Calls : d # c => phase'[d] = phase[d]
      BY <1>0, <3>2 DEF Goto, CalleeTypeOK
    <3> QED
      BY <2>1, <3>1, <3>3, RegQuietCall
  <2> QED
    BY <1>1, <2>1, <2>2, RegStart, RegLoadIdentity, RegListSkills, RegRegister DEF Call
<1>2. ASSUME UNCHANGED <<registry, running, skills, overlapped, version, edits, unpublished, raced,
                         phase>>, RegTypes'
      PROVE  RegInv'
  <2>1. RegisteredRuns' /\ BootsAlone' /\ FreshBoots' /\ FreshUnlessRaced'
    BY <1>2 DEF RegInv, RegisteredRuns, BootsAlone, Booting, FreshBoots, UpToDate,
                FreshUnlessRaced, ModeOf
  <2> QED
    BY <1>2, <2>1 DEF RegInv
<1>3. ASSUME NEW r \in Calls, Loop(r) PROVE RegInv'
  <2>1. UNCHANGED <<registry, running, skills, overlapped, version, edits, unpublished, raced, phase>>
    BY <1>3 DEF Loop, Poll, ReplyOk, HandlerThrows, Answer, Attest, AttestFails, NextMessage,
                registryVars, callVars, editVars, history
  <2> QED
    BY <1>0, <1>2, <1>3, <2>1, LoopTypeStep
<1>4. CASE WriteSkills \/ PublishFails \/ EvictRuntime
  BY <1>0, <1>4, EditTypeStep, RegEdit
<1>5. CASE UNCHANGED calleeVars
  <2>1. UNCHANGED <<registry, running, skills, phase, callee, repBefore, report, inbox, stage,
                    serving, lastTee, head, broken, answer, version, edits, unpublished,
                    overlapped, company, raced, mishaps>>
    BY <1>5 DEF calleeVars, registryVars, callVars, loopVars, editVars, history
  <2>2. RegTypes'
    BY <1>0, <2>1 DEF RegTypes, CalleeTypeOK, HasCallee
  <2> QED
    BY <1>2, <2>1, <2>2
<1> QED
  BY <1>1, <1>3, <1>4, <1>5 DEF CalleeNext

LEMMA RegInit == CalleeInit => RegInv
<1> SUFFICES ASSUME CalleeInit PROVE RegInv
  OBVIOUS
<1> USE RegistryAssumption
<1>1. CalleeTypeOK
  <2>1. report \in [Calls -> [tee : Calls \cup {NoCall}, rep : Calls \cup {NoCall}]]
    BY DEF CalleeInit
  <2>2. /\ registry \in [BOOLEAN -> Calls \cup {NoCall}]
        /\ callee \in [Calls -> Calls \cup {NoCall}] /\ repBefore \in [Calls -> Calls \cup {NoCall}]
        /\ serving \in [Calls -> Calls \cup {NoCall}] /\ lastTee \in [Calls -> Calls \cup {NoCall}]
        /\ head \in [Calls -> Calls \cup {NoCall}] /\ skills \in [Calls -> Nat]
    BY DEF CalleeInit
  <2>3. /\ phase \in [Calls -> {"idle", "loading", "building", "starting", "bound", "waiting",
                                "reporting", "done"}]
        /\ answer \in [Calls -> {"none", "ok", "error"}]
        /\ stage \in [Calls -> {"idle", "run", "attest"}]
        /\ \A r \in Calls : stage[r] = "idle" <=> serving[r] = NoCall
    BY DEF CalleeInit
  <2>4. running \in [Calls -> BOOLEAN]
    BY DEF CalleeInit
  <2>5. inbox \in Seq(Calls)
    BY EmptySeq DEF CalleeInit
  <2> QED
    BY <2>1, <2>2, <2>3, <2>4, <2>5 DEF CalleeInit, CalleeTypeOK
<1>2. HasCallee /\ RegisteredRuns /\ FreshBoots /\ FreshUnlessRaced
  BY DEF CalleeInit, HasCallee, RegisteredRuns, FreshBoots, FreshUnlessRaced
<1>3. BootsAlone
  <2>1. Booting = {} /\ \A r \in Calls : ~running[r] /\ phase[r] = "idle"
    BY DEF CalleeInit, Booting
  <2> QED
    BY <2>1 DEF BootsAlone
<1> QED
  BY <1>1, <1>2, <1>3 DEF RegInv, RegTypes

-----------------------------------------------------------------------------
(* Calls without company                                                   *)

(* A call that is not under way has only its report.                       *)
LEMMA Idle ==
  ASSUME NEW c \in Calls, phase'[c] \in {"idle", "done"}, Own(c)'
  PROVE  Tracked(c)'
  BY DEF Tracked, OnlyCallee, InTurn, Compared

(* While a call is under way, the others without company are not.          *)
LEMMA OthersIdle ==
  ASSUME CInv, NEW d \in Calls, d \in Active, NEW c \in Calls, c # d, Lone(c)',
         UNCHANGED <<company, overlapped>>, phase'[c] = phase[c], report'[c] = report[c]
  PROVE  Tracked(c)'
<1>1. Lone(c) /\ Own(c)
  BY DEF CInv, Lone, Tracked
<1>2. phase'[c] \in {"idle", "done"}
  BY <1>1 DEF CInv, InCompany, Active, Lone
<1>3. Own(c)'
  BY <1>1 DEF Own
<1> QED
  BY <1>2, <1>3, Idle

(* A call under way moves on: who is under way, and who is not heard of.   *)
LEMMA MoveOn ==
  ASSUME CInv, NEW d \in Calls, d \in Active, UNCHANGED <<company, serving, answer, lastTee>>,
         Unsent(d)' => Unsent(d),
         \A c \in Calls : c # d => phase'[c] = phase[c],
         \/ UNCHANGED inbox
         \/ inbox' = Append(inbox, d) /\ ~Unsent(d)'
  PROVE  InCompany' /\ Unheard' /\ NoProof'
<1>1. Active' \subseteq Active
  BY DEF Active
<1>2. InCompany'
  BY <1>1 DEF CInv, InCompany
<1>3. Unheard'
  <2> SUFFICES ASSUME NEW c \in Calls, Unsent(c)'
               PROVE  /\ answer[c] = "none" /\ \A r \in Calls : serving[r] # c
                      /\ \A i \in DOMAIN inbox' : inbox'[i] # c
    BY DEF Unheard
  <2>1. Unsent(c)
    BY DEF Unsent
  <2>2. /\ answer[c] = "none" /\ \A r \in Calls : serving[r] # c
        /\ \A i \in DOMAIN inbox : inbox[i] # c
    BY <2>1 DEF CInv, Unheard
  <2>3. \A i \in DOMAIN inbox' : inbox'[i] # c
    <3>1. CASE inbox' = Append(inbox, d) /\ ~Unsent(d)'
      <4>1. c # d /\ inbox \in Seq(Calls)
        BY <3>1 DEF CInv, RegInv, RegTypes, CalleeTypeOK
      <4> QED
        BY <2>2, <3>1, <4>1
    <3> QED
      BY <2>2, <3>1
  <2> QED
    BY <2>2, <2>3
<1>4. NoProof'
  BY DEF CInv, NoProof, Proves, ModeOf
<1> QED
  BY <1>2, <1>3, <1>4

LEMMA LoneStart ==
  ASSUME CInv, RegInv', NEW c \in Calls, Start(c)
  PROVE  CInv'
<1>0. /\ UNCHANGED <<registry, running, skills, repBefore, report, inbox, stage, serving, lastTee,
                     head, answer>>
      /\ phase[c] = "idle" /\ CalleeTypeOK
      /\ company' = IF Active = {} THEN company ELSE company \cup Active \cup {c}
  BY DEF Start, registryVars, loopVars, CInv, RegInv, RegTypes
<1>1. /\ phase'[c] = IF registry[ModeOf(c)] = NoCall THEN "loading" ELSE "bound"
      /\ \A d \in Calls : d # c => phase'[d] = phase[d]
      /\ callee'[c] = registry[ModeOf(c)]
  BY <1>0 DEF Start, Goto, CalleeTypeOK
<1>2. Active' \subseteq Active \cup {c} /\ c \notin Active
  BY <1>0, <1>1 DEF Active
<1>3. InCompany'
  <2> SUFFICES ASSUME NEW d \in Active', NEW e \in Active', d # e PROVE d \in company'
    BY DEF InCompany
  <2>1. d \in Active \/ e \in Active
    BY <1>2
  <2> QED
    BY <1>0, <1>2, <2>1
<1>4. Unheard' /\ NoProof'
  <2>1. \A d \in Calls : Unsent(d)' => Unsent(d)
    BY <1>0, <1>1 DEF Unsent
  <2> QED
    BY <1>0, <2>1 DEF CInv, Unheard, NoProof, Proves, ModeOf
<1>5. ASSUME NEW d \in Calls, Lone(d)' PROVE Tracked(d)'
  <2>1. Lone(d) /\ d \notin Active /\ Own(d)
    <3>1. Lone(d) /\ d \notin Active
      BY <1>0, <1>2, <1>5 DEF Lone, Start
    <3> QED
      BY <3>1 DEF CInv, Tracked
  <2>2. Own(d)'
    BY <1>0, <2>1 DEF Own
  <2>3. CASE d # c
    BY <1>1, <2>1, <2>2, <2>3, Idle DEF Active
  <2>4. CASE d = c
    <3>1. InTurn(d)' /\ Compared(d)'
      BY <1>1, <2>4 DEF InTurn, Compared
    <3>2. OnlyCallee(d)'
      <4> SUFFICES ASSUME phase'[c] = "bound", NEW r \in Calls, running[r] PROVE r = registry[ModeOf(c)]
        BY <1>0, <1>1, <2>4 DEF OnlyCallee
      <4> DEFINE q == registry[ModeOf(c)]
      <4>1. q # NoCall /\ q \in Calls
        BY <1>0, <1>1, ModeType DEF CalleeTypeOK
      <4>2. running[q]
        BY <4>1, ModeType DEF CInv, RegInv, RegisteredRuns
      <4>3. ModeOf(q) = ModeOf(c)
        BY <4>1, ModeType DEF CInv, RegInv, RegisteredRuns
      <4>4. ~overlapped
        BY <2>1 DEF Lone
      <4>5. registry[ModeOf(r)] = r /\ registry[~ModeOf(r)] = NoCall
        BY <4>4 DEF CInv, RegInv, BootsAlone
      <4>6. ModeOf(r) = ModeOf(c) \/ (~ModeOf(r)) = ModeOf(c)
        BY ModeType
      <4> QED
        BY <4>1, <4>5, <4>6
    <3> QED
      BY <2>2, <3>1, <3>2 DEF Tracked
  <2> QED
    BY <2>3, <2>4
<1> QED
  BY <1>3, <1>4, <1>5 DEF CInv

(* A boot goes on, or a call ends.                                         *)
LEMMA LoneBoot ==
  ASSUME CInv, RegInv', NEW c \in Calls,
         LoadIdentity(c) \/ ListSkills(c) \/ Register(c) \/ BuildFails(c) \/ Fail(c) \/ Throw(c)
  PROVE  CInv'
<1>0. /\ UNCHANGED <<repBefore, report, inbox, stage, serving, lastTee, head, answer, company,
                     overlapped>>
      /\ phase[c] \in {"loading", "building", "starting", "bound", "waiting"} /\ CalleeTypeOK
  BY DEF LoadIdentity, ListSkills, Register, BuildFails, Fail, Throw, loopVars, history, CInv,
         RegInv, RegTypes
<1>1. c \in Active
  BY <1>0 DEF Active
<1>2. \/ Goto(c, "done") /\ ~Register(c)
      \/ Goto(c, "building") /\ LoadIdentity(c)
      \/ Goto(c, "starting") /\ ListSkills(c)
      \/ Goto(c, "bound") /\ Register(c)
  BY DEF LoadIdentity, ListSkills, Register, BuildFails, Fail, Throw
<1>3. /\ \A d \in Calls : d # c => phase'[d] = phase[d]
      /\ phase'[c] \in {"done", "building", "starting"} \/ (phase'[c] = "bound" /\ Register(c))
  BY <1>0, <1>2 DEF Goto, CalleeTypeOK
<1>4. Unsent(c)' => Unsent(c)
  <2>1. phase'[c] # "done" => phase[c] # "waiting"
    BY <1>0, <1>2 DEF LoadIdentity, ListSkills, Register, Goto, CalleeTypeOK
  <2> QED
    BY <1>0, <2>1 DEF Unsent
<1>5. InCompany' /\ Unheard' /\ NoProof'
  BY <1>0, <1>1, <1>3, <1>4, MoveOn
<1>6. ASSUME NEW d \in Calls, Lone(d)' PROVE Tracked(d)'
  <2>1. CASE d # c
    BY <1>0, <1>1, <1>3, <1>6, <2>1, OthersIdle
  <2>2. CASE d = c
    <3>1. Lone(c) /\ Own(c)' /\ ~overlapped
      BY <1>0, <1>6, <2>2 DEF Lone, CInv, Tracked, Own
    <3>2. InTurn(c)' /\ Compared(c)'
      BY <1>3 DEF InTurn, Compared
    <3>3. OnlyCallee(c)'
      <4>1. CASE phase'[c] = "bound"
        <5>1. /\ phase[c] = "starting" /\ callee'[c] = c
              /\ \A r \in Calls : r # c => running'[r] = running[r]
          BY <1>0, <1>3, <4>1 DEF Register, CalleeTypeOK
        <5>2. ASSUME NEW r \in Calls, running[r] PROVE FALSE
          <6>1. registry[ModeOf(r)] = r /\ registry[ModeOf(r)] = NoCall
            BY <3>1, <5>1, <5>2, ModeType DEF CInv, RegInv, BootsAlone
          <6> QED
            BY <6>1, RegistryAssumption
        <5> QED
          BY <5>1, <5>2 DEF OnlyCallee
      <4>2. CASE phase'[c] # "bound"
        BY <1>3, <4>2 DEF OnlyCallee
      <4> QED
        BY <4>1, <4>2
    <3> QED
      BY <2>2, <3>1, <3>2, <3>3 DEF Tracked
  <2> QED
    BY <2>1, <2>2
<1> QED
  BY <1>5, <1>6 DEF CInv

LEMMA LoneDispatch ==
  ASSUME CInv, RegInv', NEW c \in Calls, Dispatch(c)
  PROVE  CInv'
<1>0. /\ UNCHANGED <<registry, running, callee, repBefore, report, stage, serving, lastTee, head,
                     answer, company, overlapped>>
      /\ phase[c] = "bound" /\ CalleeTypeOK
      /\ inbox' = Append(inbox, c) /\ inbox \in Seq(Calls)
  BY DEF Dispatch, registryVars, loopVars, history, CInv, RegInv, RegTypes, CalleeTypeOK
<1>1. c \in Active /\ Unsent(c)
  BY <1>0 DEF Active, Unsent
<1>2. phase'[c] = "waiting" /\ \A d \in Calls : d # c => phase'[d] = phase[d]
  BY <1>0 DEF Dispatch, Goto, CalleeTypeOK
<1>3. InCompany' /\ Unheard' /\ NoProof'
  BY <1>0, <1>1, <1>2, MoveOn DEF Unsent
<1>4. ASSUME NEW d \in Calls, Lone(d)' PROVE Tracked(d)'
  <2>1. CASE d # c
    BY <1>0, <1>1, <1>2, <1>4, <2>1, OthersIdle
  <2>2. CASE d = c
    <3>1. Lone(c) /\ Own(c)'
      BY <1>0, <1>4, <2>2 DEF Lone, CInv, Tracked, Own
    <3>2. OnlyCallee(c)'
      BY <1>0, <3>1 DEF CInv, Tracked, OnlyCallee
    <3>3. /\ answer[c] = "none" /\ \A r \in Calls : serving[r] # c
          /\ \A i \in DOMAIN inbox : inbox[i] # c
      BY <1>1 DEF CInv, Unheard
    <3>4. /\ \A i \in DOMAIN inbox' : inbox'[i] = c => i = Len(inbox')
          /\ inbox'[Len(inbox')] = c /\ Len(inbox') \in DOMAIN inbox'
      <4>1. /\ Len(inbox') = Len(inbox) + 1 /\ Len(inbox) \in Nat /\ inbox'[Len(inbox) + 1] = c
            /\ DOMAIN inbox' = 1 .. Len(inbox) + 1 /\ DOMAIN inbox = 1 .. Len(inbox)
            /\ \A i \in 1 .. Len(inbox) : inbox'[i] = inbox[i]
        BY <1>0
      <4> QED
        BY <3>3, <4>1
    <3>5. InTurn(c)' /\ Compared(c)'
      BY <1>0, <1>2, <3>3, <3>4 DEF InTurn, Compared
    <3> QED
      BY <2>2, <3>1, <3>2, <3>5 DEF Tracked
  <2> QED
    BY <2>1, <2>2
<1> QED
  BY <1>3, <1>4 DEF CInv

LEMMA LoneAnswer ==
  ASSUME CInv, RegInv', NEW c \in Calls, Receive(c) \/ Report(c)
  PROVE  CInv'
<1>0. /\ UNCHANGED <<registry, running, callee, inbox, stage, serving, lastTee, head, answer,
                     company, overlapped>>
      /\ phase[c] \in {"waiting", "reporting"} /\ CalleeTypeOK
  BY DEF Receive, Report, registryVars, loopVars, history, CInv, RegInv, RegTypes
<1>1. c \in Active
  BY <1>0 DEF Active
<1>2. /\ phase'[c] = IF phase[c] = "waiting" THEN "reporting" ELSE "done"
      /\ \A d \in Calls : d # c => phase'[d] = phase[d] /\ report'[d] = report[d]
  BY <1>0 DEF Receive, Report, Goto, CalleeTypeOK
<1>3. InCompany' /\ Unheard' /\ NoProof'
  BY <1>0, <1>1, <1>2, MoveOn DEF Unsent
<1>4. ASSUME NEW d \in Calls, Lone(d)' PROVE Tracked(d)'
  <2>1. CASE d # c
    BY <1>0, <1>1, <1>2, <1>4, <2>1, OthersIdle
  <2>2. CASE d = c
    <3>1. Lone(c) /\ Tracked(c)
      BY <1>0, <1>4, <2>2 DEF Lone, CInv
    <3>2. report[c] \in [tee : Calls \cup {NoCall}, rep : Calls \cup {NoCall}]
      BY <1>0 DEF CalleeTypeOK
    <3>3. CASE Receive(c)
      <4>1. phase[c] = "waiting" /\ answer[c] = "ok" /\ phase'[c] = "reporting"
        BY <1>2, <3>3 DEF Receive
      <4>2. lastTee[callee[c]] \in {c, NoCall}
        BY <3>1, <4>1 DEF Tracked, InTurn
      <4>3. report'[c].tee = lastTee[callee[c]] /\ report'[c].rep = report[c].rep
        BY <1>0, <3>2, <3>3 DEF Receive, CalleeTypeOK
      <4>4. repBefore'[c] = head[callee[c]]
        BY <1>0, <3>3 DEF Receive, CalleeTypeOK
      <4>5. Own(c)' /\ Compared(c)'
        BY <1>0, <3>1, <4>1, <4>2, <4>3, <4>4 DEF Own, Tracked, Compared
      <4>6. OnlyCallee(c)'
        BY <1>0, <3>1, <4>1 DEF Tracked, OnlyCallee
      <4>7. InTurn(c)'
        BY <1>0, <3>1, <4>1 DEF Tracked, InTurn
      <4> QED
        BY <2>2, <4>5, <4>6, <4>7 DEF Tracked
    <3>4. CASE Report(c)
      <4>1. phase[c] = "reporting" /\ phase'[c] = "done"
        BY <1>2, <3>4 DEF Report
      <4>2. head[callee[c]] \in {repBefore[c], c}
        BY <3>1, <4>1 DEF Tracked, Compared
      <4>3. /\ report'[c].tee = report[c].tee
            /\ report'[c].rep = IF head[callee[c]] # repBefore[c] THEN head[callee[c]] ELSE NoCall
        BY <1>0, <3>2, <3>4 DEF Report, CalleeTypeOK
      <4>4. Own(c)'
        BY <3>1, <4>2, <4>3 DEF Own, Tracked
      <4> QED
        BY <2>2, <4>1, <4>4, Idle
    <3> QED
      BY <1>4, <3>3, <3>4
  <2> QED
    BY <2>1, <2>2
<1> QED
  BY <1>3, <1>4 DEF CInv


(* Only the loops and the database move: the calls stay where they are.    *)
LEMMA CallsStay ==
  ASSUME CInv, RegInv', UNCHANGED <<phase, company, overlapped, report>>, Unheard', NoProof',
         \A d \in Calls : Lone(d) /\ phase[d] \in {"bound", "waiting", "reporting"} =>
           OnlyCallee(d)' /\ InTurn(d)' /\ Compared(d)'
  PROVE  CInv'
<1>1. InCompany'
  BY DEF CInv, InCompany, Active
<1>2. ASSUME NEW d \in Calls, Lone(d)' PROVE Tracked(d)'
  <2>1. Lone(d) /\ Own(d)'
    BY <1>2 DEF Lone, CInv, Tracked, Own
  <2>2. CASE phase[d] \in {"bound", "waiting", "reporting"}
    BY <2>1, <2>2 DEF Tracked
  <2>3. CASE phase[d] \notin {"bound", "waiting", "reporting"}
    BY <2>1, <2>3 DEF Tracked, OnlyCallee, InTurn, Compared
  <2> QED
    BY <2>2, <2>3
<1> QED
  BY <1>1, <1>2 DEF CInv

LEMMA LonePoll ==
  ASSUME CInv, RegInv', NEW q \in Calls, Poll(q)
  PROVE  CInv'
<1>0. /\ UNCHANGED <<registry, running, phase, callee, repBefore, report, lastTee, head, answer,
                     company, overlapped>>
      /\ running[q] /\ CalleeTypeOK /\ inbox \in Seq(Calls) /\ inbox # <<>>
  BY DEF Poll, registryVars, history, CInv, RegInv, RegTypes, CalleeTypeOK
<1>1. /\ Len(inbox) \in Nat \ {0} /\ DOMAIN inbox = 1 .. Len(inbox) /\ inbox[1] \in Calls
      /\ Len(inbox') = Len(inbox) - 1 /\ DOMAIN inbox' = 1 .. Len(inbox) - 1
      /\ \A i \in 1 .. Len(inbox) - 1 : inbox'[i] = inbox[i + 1]
      /\ Len(inbox) = 1 => inbox' = <<>>
  <2>1. inbox' = Tail(inbox) /\ inbox' \in Seq(Calls)
    BY <1>0, HeadTailProperties DEF Poll
  <2>2. /\ Len(inbox) \in Nat \ {0} /\ DOMAIN inbox = 1 .. Len(inbox) /\ inbox[1] \in Calls
        /\ Len(inbox') = Len(inbox) - 1
        /\ \A i \in 1 .. Len(inbox) - 1 : inbox'[i] = inbox[i + 1]
    BY <1>0, <2>1
  <2>3. DOMAIN inbox' = 1 .. Len(inbox) - 1
    BY <2>1, <2>2
  <2>4. Len(inbox) = 1 => inbox' = <<>>
    BY <2>1, <2>2, EmptySeq
  <2> QED
    BY <2>2, <2>3, <2>4
<1>2. /\ \A r \in Calls : serving'[r] = IF r = q THEN inbox[1] ELSE serving[r]
      /\ \A r \in Calls : r # q => stage'[r] = stage[r]
  BY <1>0, <1>1 DEF Poll, CalleeTypeOK
<1>3. Unheard'
  <2> SUFFICES ASSUME NEW d \in Calls, Unsent(d)'
               PROVE  /\ answer[d] = "none" /\ \A r \in Calls : serving'[r] # d
                      /\ \A i \in DOMAIN inbox' : inbox'[i] # d
    BY <1>0 DEF Unheard
  <2>1. /\ answer[d] = "none" /\ \A r \in Calls : serving[r] # d
        /\ \A i \in DOMAIN inbox : inbox[i] # d
    BY <1>0 DEF CInv, Unheard, Unsent
  <2>2. inbox[1] # d
    BY <1>1, <2>1
  <2>3. \A i \in DOMAIN inbox' : inbox'[i] # d
    <3> SUFFICES ASSUME NEW i \in DOMAIN inbox' PROVE inbox'[i] # d
      OBVIOUS
    <3>1. i \in 1 .. Len(inbox) - 1 /\ inbox'[i] = inbox[i + 1] /\ i + 1 \in DOMAIN inbox
      BY <1>1
    <3> QED
      BY <2>1, <3>1
  <2> QED
    BY <1>2, <2>1, <2>2, <2>3
<1>4. NoProof'
  BY <1>0 DEF CInv, NoProof, Proves, ModeOf
<1>5. ASSUME NEW d \in Calls, Lone(d), phase[d] \in {"bound", "waiting", "reporting"}
      PROVE  OnlyCallee(d)' /\ InTurn(d)' /\ Compared(d)'
  <2>1. Tracked(d) /\ q = callee[d]
    BY <1>0, <1>5 DEF CInv, Tracked, OnlyCallee
  <2>2. OnlyCallee(d)' /\ Compared(d)'
    BY <1>0, <2>1 DEF Tracked, OnlyCallee, Compared
  <2>3. InTurn(d)'
    <3> SUFFICES ASSUME phase[d] \in {"waiting", "reporting"} PROVE InTurn(d)'
      BY <1>0 DEF InTurn
    <3>1. /\ \A i \in DOMAIN inbox : inbox[i] = d => i = Len(inbox)
          /\ (\A i \in DOMAIN inbox : inbox[i] # d) => inbox = <<>>
          /\ \A i \in DOMAIN inbox : inbox[i] = d =>
               answer[d] = "none" /\ \A r \in Calls : serving[r] # d
      BY <2>1 DEF Tracked, InTurn
    <3>2. /\ inbox[Len(inbox)] = d /\ answer[d] = "none" /\ \A r \in Calls : serving[r] # d
      BY <1>0, <3>1
    <3>3. \A i \in 1 .. Len(inbox) - 1 : inbox[i] # d
      BY <1>1, <3>1
    <3>4. \A r \in Calls : serving'[r] = d => r = callee[d] /\ Len(inbox) = 1
      BY <1>1, <1>2, <2>1, <3>1, <3>2
    <3>5. \A i \in DOMAIN inbox' : inbox'[i] = d => i = Len(inbox')
      BY <1>1, <3>1
    <3>6. (\A i \in DOMAIN inbox' : inbox'[i] # d) => inbox' = <<>>
      <4> SUFFICES ASSUME Len(inbox) # 1
                   PROVE  \E i \in DOMAIN inbox' : inbox'[i] = d
        BY <1>1
      <4>1. Len(inbox) - 1 \in 1 .. Len(inbox) - 1 /\ (Len(inbox) - 1) + 1 = Len(inbox)
        BY <1>1
      <4>2. inbox'[Len(inbox) - 1] = d
        BY <1>1, <3>2, <4>1
      <4> QED
        BY <1>1, <4>1, <4>2
    <3>7. ASSUME NEW i \in DOMAIN inbox' PROVE Len(inbox) # 1
      BY <1>1
    <3>8. \A i \in DOMAIN inbox' : inbox'[i] = d =>
            answer'[d] = "none" /\ \A r \in Calls : serving'[r] # d
      BY <1>0, <3>2, <3>4, <3>7
    <3> QED
      BY <1>0, <3>2, <3>4, <3>5, <3>6, <3>8 DEF InTurn
  <2> QED
    BY <2>2, <2>3
<1> QED
  BY <1>0, <1>3, <1>4, <1>5, CallsStay

LEMMA LoneReply ==
  ASSUME CInv, RegInv', NEW q \in Calls, ReplyOk(q) \/ HandlerThrows(q)
  PROVE  CInv'
<1>0. /\ UNCHANGED <<registry, running, phase, callee, repBefore, report, inbox, serving, head,
                     company, overlapped>>
      /\ stage[q] = "run" /\ CalleeTypeOK
  BY DEF ReplyOk, HandlerThrows, Answer, registryVars, callVars, history, CInv, RegInv, RegTypes
<1>1. serving[q] \in Calls
  BY <1>0 DEF CalleeTypeOK
<1>2. /\ \A d \in Calls : d # serving[q] => answer'[d] = answer[d]
      /\ answer'[serving[q]] = "ok" => ReplyOk(q)
      /\ \A r \in Calls : stage'[r] = "run" => stage[r] = "run" /\ r # q
  BY <1>0, <1>1 DEF ReplyOk, HandlerThrows, Answer, CalleeTypeOK
<1>3. /\ \A r \in Calls : r # q \/ ~Proves(q) => lastTee'[r] = lastTee[r]
      /\ ReplyOk(q) /\ Proves(q) => lastTee'[q] = serving[q]
  BY <1>0 DEF ReplyOk, HandlerThrows, Infer, CalleeTypeOK
<1>4. Unheard'
  <2> SUFFICES ASSUME NEW d \in Calls, Unsent(d)'
               PROVE  /\ answer'[d] = "none" /\ \A r \in Calls : serving[r] # d
                      /\ \A i \in DOMAIN inbox : inbox[i] # d
    BY <1>0 DEF Unheard
  <2>1. /\ answer[d] = "none" /\ \A r \in Calls : serving[r] # d
        /\ \A i \in DOMAIN inbox : inbox[i] # d
    BY <1>0 DEF CInv, Unheard, Unsent
  <2> QED
    BY <1>2, <2>1
<1>5. NoProof'
  <2> SUFFICES ASSUME NEW r \in Calls, ~Proves(r) PROVE lastTee'[r] = NoCall
    BY DEF NoProof, Proves, ModeOf
  <2>1. lastTee[r] = NoCall
    BY DEF CInv, NoProof
  <2> QED
    BY <1>3, <2>1
<1>6. ASSUME NEW d \in Calls, Lone(d), phase[d] \in {"bound", "waiting", "reporting"}
      PROVE  OnlyCallee(d)' /\ InTurn(d)' /\ Compared(d)'
  <2>1. Tracked(d)
    BY <1>6 DEF CInv
  <2>2. OnlyCallee(d)'
    BY <1>0, <2>1 DEF Tracked, OnlyCallee
  <2>3. ASSUME phase[d] \in {"waiting", "reporting"} PROVE InTurn(d)'
    <3>1. /\ \A r \in Calls : serving[r] = d => r = callee[d]
          /\ \A i \in DOMAIN inbox : inbox[i] = d => i = Len(inbox)
          /\ (\A i \in DOMAIN inbox : inbox[i] # d) => inbox = <<>>
          /\ \A i \in DOMAIN inbox : inbox[i] = d =>
               answer[d] = "none" /\ \A r \in Calls : serving[r] # d
          /\ \A r \in Calls : serving[r] = d /\ stage[r] = "run" => answer[d] = "none"
          /\ answer[d] = "ok" =>
               /\ serving[callee[d]] \in {d, NoCall}
               /\ lastTee[callee[d]] \in {d, NoCall}
      BY <2>1, <2>3 DEF Tracked, InTurn
    <3>2. \A i \in DOMAIN inbox : inbox[i] = d =>
            answer'[d] = "none" /\ \A r \in Calls : serving[r] # d
      BY <1>2, <3>1
    <3>3. \A r \in Calls : serving[r] = d /\ stage'[r] = "run" => answer'[d] = "none"
      BY <1>2, <3>1
    <3>4. ASSUME answer'[d] = "ok"
          PROVE  /\ serving[callee[d]] \in {d, NoCall}
                 /\ lastTee'[callee[d]] \in {d, NoCall}
      <4>1. CASE serving[q] = d
        <5>1. q = callee[d] /\ ReplyOk(q)
          BY <1>2, <3>1, <3>4, <4>1
        <5>2. ~Proves(q) => lastTee[q] = NoCall
          BY DEF CInv, NoProof
        <5> QED
          BY <1>3, <4>1, <5>1, <5>2
      <4>2. CASE serving[q] # d
        <5>1. answer[d] = "ok"
          BY <1>2, <3>4, <4>2
        <5>2. callee[d] # q /\ callee[d] \in Calls
          BY <1>1, <1>6, <3>1, <4>2, <5>1, RegistryAssumption DEF CInv, RegInv, RegTypes, HasCallee
        <5> QED
          BY <1>3, <3>1, <5>1, <5>2
      <4> QED
        BY <4>1, <4>2
    <3> QED
      BY <1>0, <3>1, <3>2, <3>3, <3>4 DEF InTurn
  <2>4. Compared(d)'
    <3> SUFFICES ASSUME phase[d] = "reporting"
                 PROVE  answer'[d] = "ok" /\ head[callee[d]] \in {repBefore[d], d}
      BY <1>0 DEF Compared
    <3>1. /\ answer[d] = "ok" /\ head[callee[d]] \in {repBefore[d], d}
          /\ \A r \in Calls : serving[r] = d /\ stage[r] = "run" => answer[d] = "none"
      BY <2>1 DEF Tracked, Compared, InTurn
    <3> QED
      BY <1>0, <1>2, <3>1
  <2>5. phase[d] = "bound" => InTurn(d)'
    BY <1>0 DEF InTurn
  <2> QED
    BY <1>6, <2>2, <2>3, <2>4, <2>5
<1> QED
  BY <1>0, <1>4, <1>5, <1>6, CallsStay

LEMMA LoneAttest ==
  ASSUME CInv, RegInv', NEW q \in Calls, Attest(q) \/ AttestFails(q)
  PROVE  CInv'
<1>0. /\ UNCHANGED <<registry, running, phase, callee, repBefore, report, inbox, lastTee, answer,
                     company, overlapped>>
      /\ stage[q] = "attest" /\ CalleeTypeOK
  BY DEF Attest, AttestFails, NextMessage, registryVars, callVars, history, CInv, RegInv, RegTypes
<1>1. serving[q] \in Calls
  BY <1>0 DEF CalleeTypeOK
<1>2. /\ \A r \in Calls : serving'[r] = IF r = q THEN NoCall ELSE serving[r]
      /\ \A r \in Calls : stage'[r] = IF r = q THEN "idle" ELSE stage[r]
      /\ \A r \in Calls : head'[r] \in {head[r], IF r = q THEN serving[q] ELSE head[r]}
  BY <1>0 DEF Attest, AttestFails, NextMessage, CalleeTypeOK
<1>3. \A r, d \in Calls : serving'[r] = d => serving[r] = d /\ r # q
  BY <1>2, RegistryAssumption
<1>4. Unheard'
  BY <1>0, <1>3 DEF CInv, Unheard, Unsent
<1>5. NoProof'
  BY <1>0 DEF CInv, NoProof, Proves, ModeOf
<1>6. ASSUME NEW d \in Calls, Lone(d), phase[d] \in {"bound", "waiting", "reporting"}
      PROVE  OnlyCallee(d)' /\ InTurn(d)' /\ Compared(d)'
  <2>1. Tracked(d) /\ callee[d] \in Calls
    BY <1>6 DEF CInv, RegInv, RegTypes, HasCallee
  <2>2. OnlyCallee(d)'
    BY <1>0, <2>1 DEF Tracked, OnlyCallee
  <2>3. InTurn(d)'
    <3> SUFFICES ASSUME phase[d] \in {"waiting", "reporting"} PROVE InTurn(d)'
      BY <1>0 DEF InTurn
    <3>1. /\ \A r \in Calls : serving[r] = d => r = callee[d]
          /\ \A i \in DOMAIN inbox : inbox[i] = d => i = Len(inbox)
          /\ (\A i \in DOMAIN inbox : inbox[i] # d) => inbox = <<>>
          /\ \A i \in DOMAIN inbox : inbox[i] = d =>
               answer[d] = "none" /\ \A r \in Calls : serving[r] # d
          /\ \A r \in Calls : serving[r] = d /\ stage[r] = "run" => answer[d] = "none"
          /\ answer[d] = "ok" =>
               /\ serving[callee[d]] \in {d, NoCall}
               /\ lastTee[callee[d]] \in {d, NoCall}
      BY <2>1 DEF Tracked, InTurn
    <3>2. \A r \in Calls : serving'[r] = d /\ stage'[r] = "run" => answer[d] = "none"
      BY <1>2, <1>3, <3>1
    <3>3. answer[d] = "ok" => serving'[callee[d]] \in {d, NoCall}
      BY <1>2, <2>1, <3>1
    <3> QED
      BY <1>0, <1>3, <3>1, <3>2, <3>3 DEF InTurn
  <2>4. Compared(d)'
    <3> SUFFICES ASSUME phase[d] = "reporting"
                 PROVE  answer[d] = "ok" /\ head'[callee[d]] \in {repBefore[d], d}
      BY <1>0 DEF Compared
    <3>1. /\ answer[d] = "ok" /\ head[callee[d]] \in {repBefore[d], d}
          /\ serving[callee[d]] \in {d, NoCall}
      BY <2>1 DEF Tracked, Compared, InTurn
    <3>2. callee[d] = q => serving[q] = d
      BY <1>1, <3>1, RegistryAssumption
    <3> QED
      BY <1>2, <2>1, <3>1, <3>2
  <2> QED
    BY <2>2, <2>3, <2>4
<1> QED
  BY <1>0, <1>4, <1>5, <1>6, CallsStay

LEMMA LoneEdit ==
  ASSUME CInv, RegInv', WriteSkills \/ PublishFails \/ EvictRuntime
  PROVE  CInv'
<1>0. UNCHANGED <<phase, callee, repBefore, report, inbox, stage, serving, lastTee, head, answer,
                  company, overlapped>>
  BY DEF WriteSkills, PublishFails, EvictRuntime, callVars, loopVars, history
<1>1. \A r \in Calls : running'[r] => running[r]
  <2>1. CASE WriteSkills \/ PublishFails
    BY <2>1 DEF WriteSkills, PublishFails, registryVars
  <2>2. CASE EvictRuntime
    BY <2>2 DEF EvictRuntime, Drop
  <2> QED
    BY <2>1, <2>2
<1>2. Unheard'
  BY <1>0 DEF CInv, Unheard, Unsent
<1>3. NoProof'
  BY <1>0 DEF CInv, NoProof, Proves, ModeOf
<1>4. ASSUME NEW d \in Calls, Lone(d)
      PROVE  OnlyCallee(d)' /\ InTurn(d)' /\ Compared(d)'
  <2>1. OnlyCallee(d) /\ InTurn(d) /\ Compared(d)
    BY <1>4 DEF CInv, Tracked
  <2> QED
    BY <1>0, <1>1, <2>1 DEF OnlyCallee, InTurn, Compared
<1> QED
  BY <1>0, <1>2, <1>3, <1>4, CallsStay

LEMMA CInvStep == CInv /\ [CalleeNext]_calleeVars => CInv'
<1> SUFFICES ASSUME CInv, [CalleeNext]_calleeVars PROVE CInv'
  OBVIOUS
<1>0. RegInv'
  BY RegStep DEF CInv
<1>1. ASSUME NEW c \in Calls, Call(c) PROVE CInv'
  BY <1>0, <1>1, LoneStart, LoneBoot, LoneDispatch, LoneAnswer DEF Call
<1>2. ASSUME NEW r \in Calls, Loop(r) PROVE CInv'
  BY <1>0, <1>2, LonePoll, LoneReply, LoneAttest DEF Loop
<1>3. CASE WriteSkills \/ PublishFails \/ EvictRuntime
  BY <1>0, <1>3, LoneEdit
<1>4. CASE UNCHANGED calleeVars
  <2>1. UNCHANGED <<running, phase, callee, repBefore, report, inbox, stage, serving, lastTee, head,
                    answer, company, overlapped>>
    BY <1>4 DEF calleeVars, registryVars, callVars, loopVars, history
  <2>2. Unheard' /\ NoProof'
    BY <2>1 DEF CInv, Unheard, Unsent, NoProof, Proves, ModeOf
  <2>3. ASSUME NEW d \in Calls, Lone(d)
        PROVE  OnlyCallee(d)' /\ InTurn(d)' /\ Compared(d)'
    <3>1. OnlyCallee(d) /\ InTurn(d) /\ Compared(d)
      BY <2>3 DEF CInv, Tracked
    <3> QED
      BY <2>1, <3>1 DEF OnlyCallee, InTurn, Compared
  <2> QED
    BY <1>0, <2>1, <2>2, <2>3, CallsStay
<1> QED
  BY <1>1, <1>2, <1>3, <1>4 DEF CalleeNext

LEMMA CInvInit == CalleeInit => CInv
<1> SUFFICES ASSUME CalleeInit PROVE CInv
  OBVIOUS
<1> USE RegistryAssumption
<1>1. /\ \A c \in Calls : phase[c] = "idle" /\ answer[c] = "none" /\ serving[c] = NoCall
                          /\ lastTee[c] = NoCall /\ report[c] = [tee |-> NoCall, rep |-> NoCall]
      /\ inbox = <<>> /\ Active = {}
  BY DEF CalleeInit, Active
<1>2. InCompany /\ NoProof
  BY <1>1 DEF InCompany, NoProof
<1>3. Unheard
  BY <1>1 DEF Unheard
<1>4. \A c \in Calls : Tracked(c)
  BY <1>1 DEF Tracked, OnlyCallee, InTurn, Compared, Own
<1> QED
  BY <1>2, <1>3, <1>4, RegInit DEF CInv

(* The inductive invariant of the registry.                                *)
THEOREM CalleeInvariance == CalleeSpec => []CInv
  BY CInvInit, CInvStep, PTL DEF CalleeSpec

(* Every variable of the registry keeps its type.                          *)
THEOREM CalleeTypes == CalleeSpec => []CalleeTypeOK
<1>1. CInv => CalleeTypeOK
  BY DEF CInv, RegInv, RegTypes
<1> QED
  BY <1>1, CalleeInvariance, PTL

(* Without overlapping boots the registered runtime is the only one that   *)
(* listens, for every number of calls, edits and failures                  *)
(* (call-server.ts:86-101).                                                *)
THEOREM LoopsRegistered == CalleeSpec => []LoopsAreRegistered
<1>1. CInv => LoopsAreRegistered
  BY DEF CInv, RegInv, RegisteredRuns, BootsAlone, LoopsAreRegistered
<1> QED
  BY <1>1, CalleeInvariance, PTL

(* A registered runtime is stale only after one of the four mishaps        *)
(* (call-server.ts:112-170, api/skills/route.ts:205-231).                  *)
THEOREM FreshRegistered == CalleeSpec => []FreshUnlessRaced
<1>1. CInv => FreshUnlessRaced
  BY DEF CInv, RegInv
<1> QED
  BY <1>1, CalleeInvariance, PTL

(* A call without company reports its own proof and attestation            *)
(* (call-server.ts:269-293).                                               *)
THEOREM OwnReports == CalleeSpec => []ReportsOwnIfAlone
<1>1. CInv => ReportsOwnIfAlone
  BY DEF CInv, Lone, Tracked, Own, ReportsOwnIfAlone
<1> QED
  BY <1>1, CalleeInvariance, PTL

-----------------------------------------------------------------------------
(* The owner's console.  A request that no younger one of its kind has     *)
(* overtaken; the youngest of a kind.                                      *)
Pending(s, k) == \E i \in DOMAIN s : s[i].kind = k /\ ~s[i].late
Youngest(s, k, i) == s[i].kind = k /\ \A j \in DOMAIN s : j > i => s[j].kind # k

(* Of the requests of one kind the older are overtaken first.              *)
InOrder(s) ==
  \A i, j \in DOMAIN s : i < j /\ s[i].kind = s[j].kind /\ ~s[i].late => ~s[j].late

(* The youngest of kind k, if it is pending, asks for `of`.  When none is, *)
(* what the panel keeps is decided, if the last answer is not doubtful.    *)
Asks(s, k, of) == \A i \in DOMAIN s : Youngest(s, k, i) /\ ~s[i].late => s[i].of = of
Decided(c, k) == ~Pending(c.fetches, k) /\ k \notin c.doubtful

DataAsAsked(c) ==
  /\ Asks(c.fetches, DataOf(c.page), c.sel)
  /\ Decided(c, DataOf(c.page)) => c.data \in {None, c.sel}
HistoryAsAsked(c) ==
  c.page = "snapshots" /\ c.data # None =>
    /\ Asks(c.fetches, "history", c.data)
    /\ Decided(c, "history") => c.history = c.data

(* A panel asks for one of token and skills, and has it, only of a         *)
(* selected agent.                                                         *)
OneData(c) ==
  /\ \A i \in DOMAIN c.fetches : c.fetches[i].kind \in {"token", "skills"} =>
       c.fetches[i].kind = DataOf(c.page) /\ c.sel # None
  /\ c.data # None => c.sel # None

PanelInv(c) ==
  c \in Panels /\ InOrder(c.fetches) /\ OneData(c) /\ DataAsAsked(c) /\ HistoryAsAsked(c)

(* A transfer of settled data moves the token that was meant.              *)
MeansToken(P) == \A p \in P : p.settled => p.meant = p.token

ConsoleInv ==
  /\ ConsoleTypeOK
  /\ \A t \in Tabs : PanelInv(tab[t])
  /\ MeansToken(prompts) /\ MeansToken(mempool)

LEMMA FetchTypes ==
  /\ \A u \in Users : Fetch("list", u) \in Fetches
  /\ \A k \in Kinds \ {"list"} : \A a \in Agents : Fetch(k, a) \in Fetches
  BY DEF Fetch, Fetches, Kinds

(* A new request is the youngest of its kind, and pending.                 *)
LEMMA AskSame ==
  ASSUME NEW s \in Seq(Fetches), NEW k, NEW of, Fetch(k, of) \in Fetches
  PROVE  LET r == Append(s, Fetch(k, of)) IN Pending(r, k) /\ Asks(r, k, of)
<1> DEFINE r == Append(s, Fetch(k, of))
<1> DEFINE n == Len(s) + 1
<1>1. n \in DOMAIN r /\ r[n] = Fetch(k, of) /\ \A i \in DOMAIN r : i # n => n > i
  OBVIOUS
<1>2. r[n].kind = k /\ ~r[n].late /\ r[n].of = of
  BY <1>1 DEF Fetch
<1>3. \A i \in DOMAIN r : Youngest(r, k, i) => i = n
  BY <1>1, <1>2 DEF Youngest
<1> QED
  BY <1>1, <1>2, <1>3 DEF Pending, Asks

(* It is none of another kind.                                             *)
LEMMA AskOther ==
  ASSUME NEW s \in Seq(Fetches), NEW k, NEW l, k # l, NEW x, Fetch(l, x) \in Fetches
  PROVE  LET r == Append(s, Fetch(l, x)) IN
           /\ Pending(r, k) <=> Pending(s, k)
           /\ \A of : Asks(s, k, of) => Asks(r, k, of)
<1> DEFINE r == Append(s, Fetch(l, x))
<1>1. /\ DOMAIN r = 1 .. Len(s) + 1 /\ DOMAIN s = 1 .. Len(s) /\ Len(s) \in Nat
      /\ \A i \in 1 .. Len(s) : r[i] = s[i]
      /\ r[Len(s) + 1].kind # k
  BY DEF Fetch
<1>2. Pending(r, k) <=> Pending(s, k)
  BY <1>1 DEF Pending
<1>3. \A i \in DOMAIN r : Youngest(r, k, i) => i \in DOMAIN s /\ Youngest(s, k, i) /\ r[i] = s[i]
  BY <1>1 DEF Youngest
<1>4. ASSUME NEW of, Asks(s, k, of) PROVE Asks(r, k, of)
  BY <1>3, <1>4 DEF Asks
<1> QED
  BY <1>2, <1>4

LEMMA AskOrdered ==
  ASSUME NEW s \in Seq(Fetches), InOrder(s), NEW l, NEW x, Fetch(l, x) \in Fetches
  PROVE  InOrder(Append(s, Fetch(l, x)))
<1> DEFINE r == Append(s, Fetch(l, x))
<1>1. /\ DOMAIN r = 1 .. Len(s) + 1 /\ DOMAIN s = 1 .. Len(s) /\ Len(s) \in Nat
      /\ \A i \in 1 .. Len(s) : r[i] = s[i]
      /\ ~r[Len(s) + 1].late
  BY DEF Fetch
<1> HIDE DEF r
<1>2. InOrder(r)
  BY <1>1 DEF InOrder
<1> QED
  BY <1>2 DEF r

(* What stands where once request i is over.                               *)
LEMMA EndedFetches ==
  ASSUME NEW c \in Panels, NEW i \in DOMAIN c.fetches, NEW bad \in BOOLEAN
  PROVE  LET s == c.fetches
             r == Ended(c, i, bad).fetches IN
           /\ s \in Seq(Fetches) /\ Len(s) \in Nat /\ DOMAIN s = 1 .. Len(s)
           /\ r \in Seq(Fetches) /\ DOMAIN r = 1 .. Len(s) - 1
           /\ \A j \in 1 .. Len(s) - 1 :
                IF j >= i THEN r[j] = s[j + 1]
                ELSE /\ r[j].kind = s[j].kind /\ r[j].of = s[j].of
                     /\ r[j].late <=> s[j].late \/ s[j].kind = s[i].kind
<1> DEFINE s == c.fetches
           k == s[i].kind
           rest == [j \in DOMAIN s |->
                      IF j < i /\ s[j].kind = k THEN [s[j] EXCEPT !.late = TRUE] ELSE s[j]]
           r == RemoveAt(rest, i)
<1>1. s \in Seq(Fetches) /\ Len(s) \in Nat /\ DOMAIN s = 1 .. Len(s) /\ i \in 1 .. Len(s)
  BY DEF Panels
<1>2. Ended(c, i, bad).fetches = r
  BY DEF Ended, Panels
<1>3. \A f \in Fetches : /\ [f EXCEPT !.late = TRUE] \in Fetches /\ f.late \in BOOLEAN
                         /\ [f EXCEPT !.late = TRUE].kind = f.kind
                         /\ [f EXCEPT !.late = TRUE].of = f.of
                         /\ [f EXCEPT !.late = TRUE].late = TRUE
  BY DEF Fetches
<1>4. \A j \in 1 .. Len(s) : s[j] \in Fetches
  BY <1>1
<1>5. rest \in Seq(Fetches) /\ Len(rest) = Len(s)
  <2>1. \A j \in 1 .. Len(s) : rest[j] \in Fetches
    BY <1>1, <1>3, <1>4
  <2>2. rest \in [1 .. Len(s) -> Fetches]
    BY <1>1, <2>1
  <2>3. rest \in Seq(Fetches)
    BY <1>1, <2>2, SeqDef
  <2> QED
    BY <1>1, <2>2, <2>3, LenProperties
<1>6. /\ \A j \in 1 .. Len(s) : rest[j] = IF j < i /\ s[j].kind = k
                                          THEN [s[j] EXCEPT !.late = TRUE] ELSE s[j]
  BY <1>1
<1> HIDE DEF rest, k, s
<1>7. /\ r \in Seq(Fetches) /\ DOMAIN r = 1 .. Len(s) - 1
      /\ \A j \in 1 .. Len(s) - 1 : r[j] = IF j < i THEN rest[j] ELSE rest[j + 1]
  <2> DEFINE a == SubSeq(rest, 1, i - 1)
             b == SubSeq(rest, i + 1, Len(rest))
  <2>1. /\ a \in Seq(Fetches) /\ Len(a) = i - 1 /\ \A j \in 1 .. i - 1 : a[j] = rest[j]
    <3>1. \A j \in 1 .. i - 1 : j \in 1 .. Len(rest) /\ rest[j] \in Fetches
      BY <1>1, <1>5
    <3> QED
      BY <1>1, <1>5, <3>1, SubSeqProperties
  <2>2. /\ b \in Seq(Fetches) /\ Len(b) = Len(s) - i
        /\ \A j \in 1 .. Len(s) - i : b[j] = rest[i + j]
    BY <1>1, <1>5, SubSeqProperties
  <2>3. r = a \o b
    BY DEF RemoveAt
  <2> HIDE DEF a, b, r
  <2>4. r \in Seq(Fetches) /\ Len(r) = Len(s) - 1
    <3>1. a \o b \in Seq(Fetches) /\ Len(a \o b) = Len(a) + Len(b)
      BY <2>1, <2>2, ConcatProperties
    <3>2. (i - 1) + (Len(s) - i) = Len(s) - 1
      BY <1>1
    <3> QED
      BY <2>1, <2>2, <2>3, <3>1, <3>2
  <2>5. ASSUME NEW j \in 1 .. Len(s) - 1
        PROVE  r[j] = IF j < i THEN rest[j] ELSE rest[j + 1]
    <3>1. CASE j < i
      BY <1>1, <2>1, <2>2, <2>3, <3>1
    <3>2. CASE ~(j < i)
      <4>1. j - (i - 1) \in 1 .. Len(s) - i /\ i + (j - (i - 1)) = j + 1 /\ j > i - 1
        BY <1>1, <3>2
      <4>2. r[j] = b[j - (i - 1)]
        BY <1>1, <2>1, <2>2, <2>3, <4>1
      <4> QED
        BY <2>2, <3>2, <4>1, <4>2
    <3> QED
      BY <3>1, <3>2
  <2> QED
    BY <1>1, <2>4, <2>5
<1> HIDE DEF r
<1>8. ASSUME NEW j \in 1 .. Len(s) - 1
      PROVE  IF j >= i THEN r[j] = s[j + 1]
             ELSE /\ r[j].kind = s[j].kind /\ r[j].of = s[j].of
                  /\ r[j].late <=> s[j].late \/ s[j].kind = s[i].kind
  <2>1. j \in 1 .. Len(s) /\ j + 1 \in 1 .. Len(s)
    BY <1>1
  <2>2. CASE j >= i
    <3>1. ~(j < i) /\ ~(j + 1 < i)
      BY <1>1, <2>2
    <3>2. r[j] = rest[j + 1] /\ rest[j + 1] = s[j + 1]
      BY <1>6, <1>7, <2>1, <3>1
    <3> QED
      BY <2>2, <3>2
  <2>3. CASE ~(j >= i)
    <3>1. j < i /\ s[j] \in Fetches
      BY <1>1, <1>4, <2>1, <2>3
    <3>2. r[j] = IF s[j].kind = k THEN [s[j] EXCEPT !.late = TRUE] ELSE s[j]
      BY <1>6, <1>7, <2>1, <3>1
    <3>3. CASE s[j].kind = k
      BY <1>3, <2>3, <3>1, <3>2, <3>3 DEF k
    <3>4. CASE s[j].kind # k
      BY <1>3, <2>3, <3>1, <3>2, <3>4 DEF k
    <3> QED
      BY <3>3, <3>4
  <2> QED
    BY <2>2, <2>3
<1> QED
  BY <1>1, <1>2, <1>7, <1>8 DEF s

(* The end of a request leaves those of another kind as they are.          *)
LEMMA EndOther ==
  ASSUME NEW c \in Panels, NEW i \in DOMAIN c.fetches, NEW bad \in BOOLEAN,
         NEW k, k # c.fetches[i].kind
  PROVE  LET r == Ended(c, i, bad).fetches IN
           /\ Pending(r, k) <=> Pending(c.fetches, k)
           /\ \A of : Asks(c.fetches, k, of) => Asks(r, k, of)
<1> DEFINE s == c.fetches
           r == Ended(c, i, bad).fetches
           was(j) == IF j >= i THEN j + 1 ELSE j
<1>1. /\ Len(s) \in Nat /\ DOMAIN s = 1 .. Len(s) /\ DOMAIN r = 1 .. Len(s) - 1
      /\ i \in 1 .. Len(s)
      /\ \A j \in 1 .. Len(s) - 1 :
           /\ was(j) \in 1 .. Len(s) /\ was(j) # i
           /\ r[j].kind = s[was(j)].kind /\ r[j].of = s[was(j)].of
           /\ r[j].kind = k => (r[j].late <=> s[was(j)].late)
  BY EndedFetches
<1>2. /\ \A j \in 1 .. Len(s) : j # i => \E h \in 1 .. Len(s) - 1 : was(h) = j
      /\ \A j, h \in 1 .. Len(s) - 1 : j > h <=> was(j) > was(h)
  <2>1. ASSUME NEW j \in 1 .. Len(s), j # i PROVE \E h \in 1 .. Len(s) - 1 : was(h) = j
    <3>1. CASE j < i
      <4>1. j \in 1 .. Len(s) - 1 /\ was(j) = j
        BY <1>1, <3>1
      <4> QED
        BY <4>1
    <3>2. CASE j > i
      <4>1. j - 1 \in 1 .. Len(s) - 1 /\ was(j - 1) = j
        BY <1>1, <3>2
      <4> QED
        BY <4>1
    <3> QED
      BY <1>1, <2>1, <3>1, <3>2
  <2>2. ASSUME NEW j \in 1 .. Len(s) - 1, NEW h \in 1 .. Len(s) - 1 PROVE j > h <=> was(j) > was(h)
    <3>1. Len(s) \in Nat /\ i \in Nat
      BY <1>1
    <3> HIDE DEF s
    <3>2. was(j) = (IF j >= i THEN j + 1 ELSE j) /\ was(h) = (IF h >= i THEN h + 1 ELSE h)
      OBVIOUS
    <3> QED
      BY <3>1, <3>2
  <2> QED
    BY <2>1, <2>2
<1> HIDE DEF s, r, was
<1>3. Pending(r, k) <=> Pending(s, k)
  <2>1. Pending(r, k) => Pending(s, k)
    BY <1>1 DEF Pending
  <2>2. ASSUME Pending(s, k) PROVE Pending(r, k)
    <3>1. PICK j \in 1 .. Len(s) : s[j].kind = k /\ ~s[j].late
      BY <1>1, <2>2 DEF Pending
    <3>2. j # i
      BY <3>1 DEF s
    <3>3. PICK h \in 1 .. Len(s) - 1 : was(h) = j
      BY <1>2, <3>2
    <3> QED
      BY <1>1, <3>1, <3>3 DEF Pending
  <2> QED
    BY <2>1, <2>2
<1>4. ASSUME NEW j \in DOMAIN r, Youngest(r, k, j) PROVE Youngest(s, k, was(j))
  <2>1. j \in 1 .. Len(s) - 1 /\ s[was(j)].kind = k
    BY <1>1, <1>4 DEF Youngest
  <2>2. ASSUME NEW g \in DOMAIN s, g > was(j), s[g].kind = k PROVE FALSE
    <3>1. g # i /\ g \in 1 .. Len(s)
      BY <1>1, <2>2 DEF s
    <3>2. PICK h \in 1 .. Len(s) - 1 : was(h) = g
      BY <1>2, <3>1
    <3>3. h > j /\ r[h].kind = k /\ h \in DOMAIN r
      BY <1>1, <1>2, <2>1, <2>2, <3>2
    <3> QED
      BY <1>4, <3>3 DEF Youngest
  <2> QED
    BY <2>1, <2>2 DEF Youngest
<1>5. ASSUME NEW of, Asks(s, k, of) PROVE Asks(r, k, of)
  <2> SUFFICES ASSUME NEW j \in DOMAIN r, Youngest(r, k, j), ~r[j].late PROVE r[j].of = of
    BY DEF Asks
  <2>1. Youngest(s, k, was(j)) /\ was(j) \in DOMAIN s /\ j \in 1 .. Len(s) - 1
    BY <1>1, <1>4
  <2>2. r[j].kind = k
    BY DEF Youngest
  <2>3. s[was(j)].of = of
    BY <1>1, <1>5, <2>1, <2>2 DEF Asks
  <2> QED
    BY <1>1, <2>1, <2>3
<1> QED
  BY <1>3, <1>5 DEF s, r

(* The end of a request makes its elders late; if none is pending then,    *)
(* and it was not late itself, it was the youngest.                        *)
LEMMA EndSame ==
  ASSUME NEW c \in Panels, NEW i \in DOMAIN c.fetches, NEW bad \in BOOLEAN,
         InOrder(c.fetches), NEW of, Asks(c.fetches, c.fetches[i].kind, of)
  PROVE  LET r == Ended(c, i, bad).fetches
             k == c.fetches[i].kind IN
           /\ Asks(r, k, of)
           /\ ~Pending(r, k) /\ ~c.fetches[i].late => c.fetches[i].of = of
<1> DEFINE s == c.fetches
           r == Ended(c, i, bad).fetches
           k == s[i].kind
<1>1. /\ Len(s) \in Nat /\ DOMAIN s = 1 .. Len(s) /\ DOMAIN r = 1 .. Len(s) - 1
      /\ i \in 1 .. Len(s)
      /\ \A j \in 1 .. Len(s) - 1 :
           /\ j >= i => r[j] = s[j + 1] /\ j + 1 \in 1 .. Len(s) /\ j + 1 > i
           /\ j < i => r[j].kind = s[j].kind /\ (r[j].late <=> s[j].late \/ s[j].kind = k)
  BY EndedFetches
<1>2. \A j \in 1 .. Len(s) : j > i => j - 1 \in 1 .. Len(s) - 1 /\ r[j - 1] = s[j]
  BY <1>1
<1>3. Asks(s, k, of) /\ InOrder(s)
  OBVIOUS
<1> HIDE DEF s, r
<1>4. Asks(r, k, of)
  <2> SUFFICES ASSUME NEW j \in DOMAIN r, Youngest(r, k, j), ~r[j].late PROVE r[j].of = of
    BY DEF Asks
  <2>1. r[j].kind = k
    BY DEF Youngest
  <2>2. j >= i /\ r[j] = s[j + 1] /\ j + 1 \in DOMAIN s
    BY <1>1, <2>1
  <2>3. Youngest(s, k, j + 1)
    <3> SUFFICES ASSUME NEW g \in DOMAIN s, g > j + 1, s[g].kind = k PROVE FALSE
      BY <2>1, <2>2 DEF Youngest
    <3>1. g - 1 \in DOMAIN r /\ r[g - 1].kind = k /\ g - 1 > j
      BY <1>1, <1>2, <2>2
    <3> QED
      BY <3>1 DEF Youngest
  <2> QED
    BY <1>3, <2>2, <2>3 DEF Asks
<1>5. ASSUME ~Pending(r, k), ~s[i].late PROVE s[i].of = of
  <2>1. Youngest(s, k, i)
    <3> SUFFICES ASSUME NEW g \in DOMAIN s, g > i, s[g].kind = k PROVE FALSE
      BY DEF Youngest
    <3>1. ~s[g].late
      BY <1>1, <1>3, <1>5 DEF InOrder
    <3>2. g - 1 \in DOMAIN r /\ r[g - 1] = s[g]
      BY <1>1, <1>2
    <3> QED
      BY <1>5, <3>1, <3>2 DEF Pending
  <2> QED
    BY <1>1, <1>3, <1>5, <2>1 DEF Asks
<1> QED
  BY <1>4, <1>5 DEF s, r

LEMMA EndOrdered ==
  ASSUME NEW c \in Panels, NEW i \in DOMAIN c.fetches, NEW bad \in BOOLEAN, InOrder(c.fetches)
  PROVE  InOrder(Ended(c, i, bad).fetches)
<1> DEFINE s == c.fetches
           r == Ended(c, i, bad).fetches
<1>1. /\ Len(s) \in Nat /\ DOMAIN s = 1 .. Len(s) /\ DOMAIN r = 1 .. Len(s) - 1
      /\ i \in 1 .. Len(s)
      /\ \A j \in 1 .. Len(s) - 1 :
           /\ j >= i => r[j] = s[j + 1] /\ j + 1 \in 1 .. Len(s)
           /\ j < i => r[j].kind = s[j].kind /\ (r[j].late <=> s[j].late \/ s[j].kind = s[i].kind)
  BY EndedFetches
<1>2. InOrder(s)
  OBVIOUS
<1> HIDE DEF s, r
<1>3. InOrder(r)
  <2> SUFFICES ASSUME NEW g \in DOMAIN r, NEW h \in DOMAIN r, g < h, r[g].kind = r[h].kind,
                      ~r[g].late
               PROVE  ~r[h].late
    BY DEF InOrder
  <2>0. g \in 1 .. Len(s) - 1 /\ h \in 1 .. Len(s) - 1
    BY <1>1
  <2>1. CASE h < i
    <3>1. g < i /\ g \in DOMAIN s /\ h \in DOMAIN s
      BY <1>1, <2>0, <2>1
    <3>2. s[g].kind = s[h].kind /\ s[g].kind # s[i].kind /\ ~s[g].late
      BY <1>1, <2>0, <2>1, <3>1
    <3>3. ~s[h].late
      BY <1>2, <3>1, <3>2 DEF InOrder
    <3> QED
      BY <1>1, <2>0, <2>1, <3>2, <3>3
  <2>2. CASE g >= i
    <3>1. /\ h >= i /\ g + 1 \in DOMAIN s /\ h + 1 \in DOMAIN s /\ g + 1 < h + 1
          /\ r[g] = s[g + 1] /\ r[h] = s[h + 1]
      BY <1>1, <2>0, <2>2
    <3> QED
      BY <1>2, <3>1 DEF InOrder
  <2>3. CASE g < i /\ h >= i
    <3>1. /\ g \in DOMAIN s /\ h + 1 \in DOMAIN s /\ g < h + 1 /\ r[h] = s[h + 1]
          /\ s[g].kind = r[g].kind /\ ~s[g].late
      BY <1>1, <2>0, <2>3
    <3> QED
      BY <1>2, <3>1 DEF InOrder
  <2> QED
    BY <1>1, <2>1, <2>2, <2>3
<1> QED
  BY <1>3 DEF s, r

-----------------------------------------------------------------------------
(* Panels                                                                  *)

(* What a panel's requests and their answers do not speak of may change.   *)
LEMMA PanelKeeps ==
  ASSUME NEW c, PanelInv(c), NEW d \in Panels, d.page = c.page, d.sel = c.sel, d.data = c.data,
         d.history = c.history, d.doubtful = c.doubtful, d.fetches = c.fetches
  PROVE  PanelInv(d)
  BY DEF PanelInv, OneData, DataAsAsked, HistoryAsAsked, Decided

LEMMA WithFetchFacts ==
  ASSUME NEW c \in Panels, NEW l, NEW x, Fetch(l, x) \in Fetches
  PROVE  LET d == WithFetch(c, l, x) IN
           /\ d \in Panels /\ d.fetches = Append(c.fetches, Fetch(l, x))
           /\ d.page = c.page /\ d.user = c.user /\ d.sel = c.sel /\ d.data = c.data
           /\ d.history = c.history /\ d.doubtful = c.doubtful
<1>1. c.fetches \in Seq(Fetches) /\ Append(c.fetches, Fetch(l, x)) \in Seq(Fetches)
  BY DEF Panels
<1> QED
  BY <1>1 DEF WithFetch, Panels

(* A panel asks: for the data of its selection, for the history of its     *)
(* token, or for something else.                                           *)
LEMMA AskPanel ==
  ASSUME NEW c \in Panels, InOrder(c.fetches), OneData(c), NEW l, NEW x, Fetch(l, x) \in Fetches,
         NEW d \in Panels, d.fetches = Append(c.fetches, Fetch(l, x)), d.page = c.page,
         d.doubtful = c.doubtful,
         l \in {"token", "skills"} => l = DataOf(c.page),
         l = DataOf(c.page) => d.sel = x,
         l # DataOf(c.page) => d.sel = c.sel /\ d.data = c.data /\ DataAsAsked(c),
         l = "history" => d.data = x,
         l # "history" => d.data = c.data /\ d.history = c.history /\ HistoryAsAsked(c)
  PROVE  PanelInv(d)
<1>0. c.fetches \in Seq(Fetches)
  BY DEF Panels
<1>1. InOrder(d.fetches)
  BY <1>0, AskOrdered
<1>2. OneData(d)
  <2>1. /\ DOMAIN d.fetches = 1 .. Len(c.fetches) + 1 /\ Len(c.fetches) \in Nat
        /\ DOMAIN c.fetches = 1 .. Len(c.fetches)
        /\ \A i \in 1 .. Len(c.fetches) : d.fetches[i] = c.fetches[i]
        /\ d.fetches[Len(c.fetches) + 1].kind = l
    BY <1>0 DEF Fetch
  <2>2. l = DataOf(c.page) => x # None
    BY ConsoleAssumption DEF Fetch, Fetches, DataOf
  <2>3. /\ d.data # None => d.sel # None
        /\ c.sel # None => d.sel # None
    BY <2>2 DEF OneData
  <2>4. l \in {"token", "skills"} => d.sel # None
    BY <2>2
  <2>5. \A i \in 1 .. Len(c.fetches) : c.fetches[i].kind \in {"token", "skills"} =>
          c.fetches[i].kind = DataOf(c.page) /\ c.sel # None
    BY <2>1 DEF OneData
  <2> QED
    BY <2>1, <2>3, <2>4, <2>5 DEF OneData
<1>3. DataAsAsked(d)
  <2>1. CASE l = DataOf(c.page)
    <3>1. Pending(d.fetches, l) /\ Asks(d.fetches, l, x)
      BY <1>0, AskSame
    <3> QED
      BY <2>1, <3>1 DEF DataAsAsked, Decided
  <2>2. CASE l # DataOf(c.page)
    <3>1. /\ Pending(d.fetches, DataOf(c.page)) <=> Pending(c.fetches, DataOf(c.page))
          /\ \A of : Asks(c.fetches, DataOf(c.page), of) => Asks(d.fetches, DataOf(c.page), of)
      BY <1>0, <2>2, AskOther
    <3> QED
      BY <2>2, <3>1 DEF DataAsAsked, Decided
  <2> QED
    BY <2>1, <2>2
<1>4. HistoryAsAsked(d)
  <2>1. CASE l = "history"
    <3>1. Pending(d.fetches, l) /\ Asks(d.fetches, l, x)
      BY <1>0, AskSame
    <3> QED
      BY <2>1, <3>1 DEF HistoryAsAsked, Decided
  <2>2. CASE l # "history"
    <3>1. /\ Pending(d.fetches, "history") <=> Pending(c.fetches, "history")
          /\ \A of : Asks(c.fetches, "history", of) => Asks(d.fetches, "history", of)
      BY <1>0, <2>2, AskOther
    <3> QED
      BY <2>2, <3>1 DEF HistoryAsAsked, Decided
  <2> QED
    BY <2>1, <2>2
<1> QED
  BY <1>1, <1>2, <1>3, <1>4 DEF PanelInv

(* setEns: the selection's data is asked for.                              *)
LEMMA SelectPanel ==
  ASSUME NEW c, PanelInv(c), NEW a \in Agents
  PROVE  PanelInv(Select(c, a))
<1>1. CASE a = c.sel
  BY <1>1 DEF Select
<1>2. CASE a # c.sel
  <2> DEFINE e == [c EXCEPT !.sel = a]
             l == DataOf(c.page)
             d == WithFetch(e, l, a)
  <2>1. /\ e \in Panels /\ e.page = c.page /\ e.sel = a /\ e.fetches = c.fetches
        /\ e.doubtful = c.doubtful /\ e.data = c.data /\ e.history = c.history /\ c \in Panels
    BY DEF PanelInv, Panels
  <2>2. l \in {"token", "skills"} /\ Fetch(l, a) \in Fetches
    BY FetchTypes DEF DataOf, Kinds
  <2> HIDE DEF e, l
  <2>3. /\ d \in Panels /\ d.fetches = Append(e.fetches, Fetch(l, a))
        /\ d.page = e.page /\ d.sel = e.sel /\ d.data = e.data
        /\ d.history = e.history /\ d.doubtful = e.doubtful
    BY <2>1, <2>2, WithFetchFacts
  <2> HIDE DEF d
  <2>4. PanelInv(d)
    <3>1. InOrder(c.fetches) /\ OneData(c) /\ HistoryAsAsked(c)
      BY DEF PanelInv
    <3> QED
      BY <2>1, <2>2, <2>3, <3>1, AskPanel DEF l
  <2> QED
    BY <1>2, <2>4 DEF Select, d, e, l
<1> QED
  BY <1>1, <1>2

LEMMA EndedFacts ==
  ASSUME NEW c \in Panels, NEW i \in DOMAIN c.fetches, NEW bad \in BOOLEAN
  PROVE  LET d == Ended(c, i, bad)
             k == c.fetches[i].kind IN
           /\ d \in Panels /\ c.fetches[i] \in Fetches
           /\ d.page = c.page /\ d.user = c.user /\ d.sel = c.sel /\ d.data = c.data
           /\ d.history = c.history
           /\ k \in d.doubtful <=> bad \/ c.fetches[i].late
           /\ \A j \in Kinds : j # k => (j \in d.doubtful <=> j \in c.doubtful)
<1>1. Ended(c, i, bad).fetches \in Seq(Fetches) /\ c.fetches[i] \in Fetches
  BY EndedFetches
<1>2. c.fetches[i].kind \in Kinds
  BY <1>1 DEF Fetches, Kinds
<1> DEFINE k == c.fetches[i].kind
           f == Ended(c, i, bad).fetches
           D == IF bad \/ c.fetches[i].late THEN c.doubtful \cup {k} ELSE c.doubtful \ {k}
<1>3. Ended(c, i, bad) = [c EXCEPT !.fetches = f, !.doubtful = D]
  BY DEF Ended, Panels
<1>4. D \in SUBSET Kinds
  BY <1>2 DEF Panels
<1>5. /\ k \in D <=> bad \/ c.fetches[i].late
      /\ \A j \in Kinds : j # k => (j \in D <=> j \in c.doubtful)
  OBVIOUS
<1>6. f \in Seq(Fetches)
  BY <1>1
<1> HIDE DEF f, D, k
<1>7. LET d == [c EXCEPT !.fetches = f, !.doubtful = D] IN
        /\ d \in Panels /\ d.doubtful = D
        /\ d.page = c.page /\ d.user = c.user /\ d.sel = c.sel /\ d.data = c.data
        /\ d.history = c.history
  BY <1>4, <1>6 DEF Panels
<1> QED
  BY <1>1, <1>3, <1>5, <1>7 DEF k

(* A request is over: what it was not about is as it was; what it was      *)
(* about is decided only if the answer is to the youngest request.         *)
LEMMA EndedPanel ==
  ASSUME NEW c, PanelInv(c), NEW i \in DOMAIN c.fetches, NEW bad \in BOOLEAN
  PROVE  LET d == Ended(c, i, bad)
             k == c.fetches[i].kind
             of == c.fetches[i].of
             data == DataOf(c.page) IN
           /\ InOrder(d.fetches) /\ OneData(d)
           /\ k # data => DataAsAsked(d)
           /\ k = data => /\ Asks(d.fetches, data, c.sel)
                          /\ Decided(d, data) => ~bad /\ of = c.sel
           /\ k # "history" => HistoryAsAsked(d)
           /\ k = "history" /\ c.page = "snapshots" /\ c.data # None =>
                /\ Asks(d.fetches, "history", c.data)
                /\ Decided(d, "history") => ~bad /\ of = c.data
<1> DEFINE d == Ended(c, i, bad)
           k == c.fetches[i].kind
           of == c.fetches[i].of
           data == DataOf(c.page)
<1>0. /\ c \in Panels /\ InOrder(c.fetches) /\ OneData(c) /\ DataAsAsked(c) /\ HistoryAsAsked(c)
      /\ data \in Kinds /\ "history" \in Kinds
  BY DEF PanelInv, DataOf, Kinds
<1>1. /\ d \in Panels /\ d.page = c.page /\ d.sel = c.sel /\ d.data = c.data
      /\ d.history = c.history
      /\ k \in d.doubtful <=> bad \/ c.fetches[i].late
      /\ \A j \in Kinds : j # k => (j \in d.doubtful <=> j \in c.doubtful)
  BY <1>0, EndedFacts
<1>2. InOrder(d.fetches)
  BY <1>0, EndOrdered
<1>3. \A j : j # k => /\ Pending(d.fetches, j) <=> Pending(c.fetches, j)
                      /\ \A x : Asks(c.fetches, j, x) => Asks(d.fetches, j, x)
  BY <1>0, EndOther
<1>4. \A x : Asks(c.fetches, k, x) =>
        Asks(d.fetches, k, x) /\ (~Pending(d.fetches, k) /\ ~c.fetches[i].late => of = x)
  BY <1>0, EndSame
<1>5. OneData(d)
  <2>1. \A j \in DOMAIN d.fetches : \E h \in DOMAIN c.fetches : d.fetches[j].kind = c.fetches[h].kind
    <3> SUFFICES ASSUME NEW j \in DOMAIN d.fetches
                 PROVE  \E h \in DOMAIN c.fetches : d.fetches[j].kind = c.fetches[h].kind
      OBVIOUS
    <3>0. /\ Len(c.fetches) \in Nat /\ DOMAIN c.fetches = 1 .. Len(c.fetches)
          /\ DOMAIN d.fetches = 1 .. Len(c.fetches) - 1
          /\ \A h \in 1 .. Len(c.fetches) - 1 :
               IF h >= i THEN d.fetches[h] = c.fetches[h + 1]
                         ELSE d.fetches[h].kind = c.fetches[h].kind
      BY <1>0, EndedFetches
    <3> HIDE DEF d
    <3>1. /\ j \in 1 .. Len(c.fetches) - 1
          /\ IF j >= i THEN d.fetches[j] = c.fetches[j + 1]
                       ELSE d.fetches[j].kind = c.fetches[j].kind
      BY <3>0
    <3>2. j \in DOMAIN c.fetches /\ j + 1 \in DOMAIN c.fetches
      BY <3>0, <3>1
    <3> QED
      BY <3>1, <3>2
  <2> QED
    BY <1>0, <1>1, <2>1 DEF OneData
<1> HIDE DEF d, k, of, data
<1>6. k # data => DataAsAsked(d)
  BY <1>0, <1>1, <1>3 DEF DataAsAsked, Decided, data
<1>7. ASSUME k = data
      PROVE  Asks(d.fetches, data, c.sel) /\ (Decided(d, data) => ~bad /\ of = c.sel)
  <2>1. Asks(c.fetches, k, c.sel)
    BY <1>0, <1>7 DEF DataAsAsked, data
  <2> QED
    BY <1>1, <1>4, <1>7, <2>1 DEF Decided
<1>8. k # "history" => HistoryAsAsked(d)
  BY <1>0, <1>1, <1>3 DEF HistoryAsAsked, Decided
<1>9. ASSUME k = "history", c.page = "snapshots", c.data # None
      PROVE  /\ Asks(d.fetches, "history", c.data)
             /\ Decided(d, "history") => ~bad /\ of = c.data
  <2>1. Asks(c.fetches, k, c.data)
    BY <1>0, <1>9 DEF HistoryAsAsked
  <2> QED
    BY <1>1, <1>4, <1>9, <2>1 DEF Decided
<1> QED
  BY <1>2, <1>5, <1>6, <1>7, <1>8, <1>9 DEF d, k, of, data

(* setTokenId: the panel learns the token, and asks for its history.       *)
LEMMA SetTokenPanel ==
  ASSUME NEW c, PanelInv(c), NEW i \in DOMAIN c.fetches, c.fetches[i].kind = "token",
         NEW v \in {None, c.fetches[i].of}
  PROVE  PanelInv(SetToken(Ended(c, i, FALSE), v))
<1> DEFINE e == Ended(c, i, FALSE)
           d == [e EXCEPT !.data = v]
           g == WithFetch(d, "history", v)
<1>0. c \in Panels /\ OneData(c)
  BY DEF PanelInv
<1>1. /\ e \in Panels /\ c.fetches[i] \in Fetches
      /\ e.page = c.page /\ e.sel = c.sel /\ e.data = c.data /\ e.history = c.history
  BY <1>0, EndedFacts
<1>2. c.fetches[i].of \in Agents
  BY <1>1 DEF Fetches
<1>3. DataOf(c.page) = "token" /\ c.sel # None
  BY <1>0 DEF OneData
<1>4. /\ InOrder(e.fetches) /\ OneData(e) /\ HistoryAsAsked(e)
      /\ Asks(e.fetches, "token", c.sel)
      /\ Decided(e, "token") => c.fetches[i].of = c.sel
  BY <1>3, EndedPanel
<1> HIDE DEF e
<1>5. /\ d \in Panels /\ d.page = e.page /\ d.sel = e.sel /\ d.data = v
      /\ d.history = e.history /\ d.fetches = e.fetches /\ d.doubtful = e.doubtful
  BY <1>1, <1>2 DEF Panels
<1> HIDE DEF d
<1>6. DataAsAsked(d) /\ OneData(d) /\ InOrder(d.fetches)
  BY <1>1, <1>3, <1>4, <1>5 DEF DataAsAsked, OneData, Decided
<1>7. CASE e.page = "snapshots" /\ v # e.data /\ v # None
  <2>1. Fetch("history", v) \in Fetches
    BY <1>2, <1>7, FetchTypes DEF Kinds
  <2>2. /\ g \in Panels /\ g.fetches = Append(d.fetches, Fetch("history", v))
        /\ g.page = d.page /\ g.sel = d.sel /\ g.data = d.data
        /\ g.history = d.history /\ g.doubtful = d.doubtful
    BY <1>5, <2>1, WithFetchFacts
  <2> HIDE DEF g
  <2>3. PanelInv(g)
    BY <1>1, <1>3, <1>5, <1>6, <2>1, <2>2, AskPanel
  <2> QED
    BY <1>7, <2>3 DEF SetToken, d, g, e
<1>8. CASE ~(e.page = "snapshots" /\ v # e.data /\ v # None)
  <2>1. HistoryAsAsked(d)
    BY <1>4, <1>5, <1>8 DEF HistoryAsAsked, Decided
  <2>2. PanelInv(d)
    BY <1>5, <1>6, <2>1 DEF PanelInv
  <2> QED
    BY <1>8, <2>2 DEF SetToken, d, e
<1> QED
  BY <1>7, <1>8

(* A panel as it is mounted.                                               *)
LEMMA FreshPanel ==
  ASSUME NEW page \in Pages, NEW u \in Users \cup {None}, NEW first \in Agents \cup {None},
         first # None => page = "snapshots"
  PROVE  PanelInv(Fresh(page, u, first))
<1> DEFINE d == Fresh(page, u, first)
           s == (IF u = None THEN <<>> ELSE <<Fetch("list", u)>>)
                  \o (IF first = None THEN <<>> ELSE <<Fetch("token", first)>>)
<1>1. CASE u # None /\ first = None
  <2>1. /\ s \in Seq(Fetches) /\ DOMAIN s = {1} /\ s[1] = Fetch("list", u)
    BY <1>1, FetchTypes
  <2> HIDE DEF s
  <2>2. d \in Panels /\ d.fetches = s /\ d.data = None /\ d.page = page
    BY <2>1 DEF Fresh, Panels, s
  <2> HIDE DEF d
  <2>3. InOrder(s) /\ OneData(d) /\ HistoryAsAsked(d)
    BY <2>1, <2>2 DEF InOrder, OneData, HistoryAsAsked, Fetch
  <2>4. DataAsAsked(d)
    BY <2>1, <2>2 DEF DataAsAsked, Asks, Youngest, Fetch, DataOf
  <2> QED
    BY <2>2, <2>3, <2>4 DEF PanelInv, d
<1>2. CASE u # None /\ first # None
  <2>1. /\ s \in Seq(Fetches) /\ DOMAIN s = {1, 2}
        /\ s[1] = Fetch("list", u) /\ s[2] = Fetch("token", first)
    <3>1. Fetch("list", u) \in Fetches /\ Fetch("token", first) \in Fetches
      BY <1>2, FetchTypes DEF Kinds
    <3>2. /\ <<Fetch("list", u)>> \in Seq(Fetches) /\ Len(<<Fetch("list", u)>>) = 1
          /\ <<Fetch("token", first)>> \in Seq(Fetches) /\ Len(<<Fetch("token", first)>>) = 1
          /\ <<Fetch("list", u)>>[1] = Fetch("list", u)
          /\ <<Fetch("token", first)>>[1] = Fetch("token", first)
      BY <3>1
    <3> DEFINE l == <<Fetch("list", u)>>
               m == <<Fetch("token", first)>>
    <3>3. s = l \o m
      BY <1>2
    <3> HIDE DEF l, m, s
    <3>4. s \in Seq(Fetches) /\ Len(s) = 2 /\ s[1] = l[1] /\ s[2] = m[1]
      BY <3>2, <3>3, ConcatProperties DEF l, m
    <3>5. DOMAIN s = {1, 2}
      BY <3>4
    <3> QED
      BY <3>2, <3>4, <3>5 DEF l, m
  <2> HIDE DEF s
  <2>2. d \in Panels /\ d.fetches = s /\ d.data = None /\ d.page = page /\ d.sel = first
    BY <2>1 DEF Fresh, Panels, s
  <2> HIDE DEF d
  <2>3. InOrder(s) /\ OneData(d) /\ HistoryAsAsked(d)
    BY <1>2, <2>1, <2>2 DEF InOrder, OneData, HistoryAsAsked, Fetch, DataOf
  <2>4. DataAsAsked(d)
    BY <1>2, <2>1, <2>2 DEF DataAsAsked, Asks, Youngest, Fetch, DataOf
  <2> QED
    BY <2>2, <2>3, <2>4 DEF PanelInv, d
<1>3. CASE u = None
  <2>1. /\ s \in Seq(Fetches)
        /\ IF first = None THEN s = <<>> ELSE s = <<Fetch("token", first)>>
    BY <1>3, FetchTypes DEF Kinds
  <2> HIDE DEF s
  <2>2. d \in Panels /\ d.fetches = s /\ d.data = None /\ d.page = page /\ d.sel = first
    BY <1>3, <2>1 DEF Fresh, Panels, s
  <2> HIDE DEF d
  <2>3. DOMAIN s \subseteq {1} /\ (first # None => 1 \in DOMAIN s /\ s[1] = Fetch("token", first))
    BY <2>1
  <2>4. InOrder(s) /\ OneData(d) /\ HistoryAsAsked(d)
    BY <2>1, <2>2, <2>3 DEF InOrder, OneData, HistoryAsAsked, Fetch, DataOf
  <2>5. DataAsAsked(d)
    <3>1. CASE first = None
      BY <2>1, <2>2, <3>1 DEF DataAsAsked, Asks, Youngest, DataOf
    <3>2. CASE first # None
      <4>1. DOMAIN s = {1} /\ s[1] = Fetch("token", first)
        BY <2>1, <3>2
      <4> QED
        BY <1>3, <2>1, <2>2, <3>2, <4>1 DEF DataAsAsked, Asks, Youngest, Fetch, DataOf
    <3> QED
      BY <3>1, <3>2
  <2> QED
    BY <2>2, <2>4, <2>5 DEF PanelInv, d
<1> QED
  BY <1>1, <1>2, <1>3

-----------------------------------------------------------------------------
(* The steps of the console                                                *)

(* An answer leaves a panel in order.                                      *)
LEMMA AnsweredTab ==
  ASSUME NEW t \in Tabs, PanelInv(tab[t]), NEW i \in DOMAIN tab[t].fetches, Answered(t, i)
  PROVE  \E d : PanelInv(d) /\ SetTab(t, d)
<1> USE ConsoleAssumption
<1> DEFINE c == tab[t]
           f == c.fetches[i]
           e == Ended(c, i, FALSE)
<1>0. c \in Panels
  BY DEF PanelInv
<1>1. /\ e \in Panels /\ f \in Fetches
      /\ e.page = c.page /\ e.sel = c.sel /\ e.data = c.data /\ e.history = c.history
  BY <1>0, EndedFacts
<1>2. ASSUME f.kind \notin {"token", "skills", "history"} PROVE PanelInv(e)
  BY <1>1, <1>2, EndedPanel DEF PanelInv, DataOf
<1>3. CASE ListAnswered(t, i)
  <2> DEFINE found == FindByOwner(f.of)
             d == [e EXCEPT !.agents = found, !.loading = FALSE]
  <2>1. PanelInv(e)
    BY <1>2, <1>3 DEF ListAnswered
  <2>2. found \subseteq Agents
    BY DEF FindByOwner
  <2>3. PanelInv(d)
    <3> HIDE DEF e, found
    <3>1. /\ d \in Panels /\ d.page = e.page /\ d.sel = e.sel /\ d.data = e.data
          /\ d.history = e.history /\ d.doubtful = e.doubtful /\ d.fetches = e.fetches
      BY <1>1, <2>2 DEF Panels
    <3> QED
      BY <2>1, <3>1, PanelKeeps
  <2>4. \A a \in found : PanelInv(Select(d, a))
    BY <2>2, <2>3, SelectPanel
  <2>5. (\E a \in found : SetTab(t, Select(d, a))) \/ SetTab(t, d)
    BY <1>3 DEF ListAnswered
  <2> HIDE DEF d
  <2> QED
    BY <2>3, <2>4, <2>5
<1>4. CASE TokenAnswered(t, i)
  <2>1. TokenInCard(f.of) \in {None, f.of} /\ f.kind = "token"
    BY <1>4 DEF TokenInCard, TokenAnswered
  <2>2. PanelInv(SetToken(e, TokenInCard(f.of)))
    BY <2>1, SetTokenPanel
  <2> QED
    BY <1>4, <2>2 DEF TokenAnswered
<1>5. CASE TokenUnknown(t, i)
  <2>1. f.kind = "token"
    BY <1>5 DEF TokenUnknown
  <2>2. PanelInv(SetToken(e, None))
    BY <2>1, SetTokenPanel
  <2> QED
    BY <1>5, <2>2 DEF TokenUnknown
<1>6. CASE SkillsAnswered(t, i)
  <2> DEFINE d == [e EXCEPT !.data = f.of]
  <2>1. f.kind = "skills" /\ SetTab(t, d)
    BY <1>6 DEF SkillsAnswered
  <2>2. f.of \in Agents
    BY <1>1, <2>1 DEF Fetches
  <2>3. DataOf(c.page) = "skills" /\ c.page # "snapshots" /\ c.sel # None
    <3>1. DataOf(c.page) = "skills" /\ c.sel # None
      BY <2>1 DEF PanelInv, OneData
    <3> QED
      BY <3>1 DEF DataOf
  <2>4. /\ InOrder(e.fetches) /\ OneData(e) /\ Asks(e.fetches, "skills", c.sel)
        /\ Decided(e, "skills") => f.of = c.sel
    BY <2>1, <2>3, EndedPanel
  <2> HIDE DEF e, f, c
  <2>5. /\ d \in Panels /\ d.page = e.page /\ d.sel = e.sel /\ d.data = f.of
        /\ d.history = e.history /\ d.doubtful = e.doubtful /\ d.fetches = e.fetches
    BY <1>1, <2>2 DEF Panels
  <2> HIDE DEF d
  <2>6. PanelInv(d)
    BY <1>1, <2>3, <2>4, <2>5 DEF PanelInv, OneData, DataAsAsked, HistoryAsAsked, Decided
  <2> QED
    BY <2>1, <2>6
<1>7. CASE HistoryAnswered(t, i)
  <2> DEFINE d == [e EXCEPT !.history = f.of]
  <2>1. f.kind = "history" /\ SetTab(t, d)
    BY <1>7 DEF HistoryAnswered
  <2>2. f.of \in Agents
    BY <1>1, <2>1 DEF Fetches
  <2>3. f.kind # DataOf(c.page)
    BY <2>1 DEF DataOf
  <2>4. /\ InOrder(e.fetches) /\ OneData(e) /\ DataAsAsked(e)
        /\ c.page = "snapshots" /\ c.data # None =>
             Asks(e.fetches, "history", c.data) /\ (Decided(e, "history") => f.of = c.data)
    BY <2>1, <2>3, EndedPanel
  <2> HIDE DEF e, f, c
  <2>5. /\ d \in Panels /\ d.page = e.page /\ d.sel = e.sel /\ d.data = e.data
        /\ d.history = f.of /\ d.doubtful = e.doubtful /\ d.fetches = e.fetches
    BY <1>1, <2>2 DEF Panels
  <2> HIDE DEF d
  <2>6. PanelInv(d)
    BY <1>1, <2>4, <2>5 DEF PanelInv, OneData, DataAsAsked, HistoryAsAsked, Decided
  <2> QED
    BY <2>1, <2>6
<1>8. CASE FetchFails(t, i)
  <2> DEFINE g == Ended(c, i, TRUE)
             b == (g.loading /\ f.kind # "list")
             d == [g EXCEPT !.loading = b]
  <2>0. SetTab(t, d)
    BY <1>8 DEF FetchFails
  <2>1. g \in Panels /\ g.page = c.page /\ g.sel = c.sel /\ g.data = c.data /\ g.history = c.history
    <3>1. \A b1 \in BOOLEAN :
            LET h == Ended(c, i, b1) IN
              /\ h \in Panels /\ h.page = c.page /\ h.sel = c.sel /\ h.data = c.data
              /\ h.history = c.history
      BY <1>0, EndedFacts
    <3> QED
      BY <3>1
  <2>2. PanelInv(g)
    BY <2>1, EndedPanel DEF PanelInv, DataAsAsked, HistoryAsAsked
  <2>3. b \in BOOLEAN
    OBVIOUS
  <2> HIDE DEF b, g
  <2>4. /\ d \in Panels /\ d.page = g.page /\ d.sel = g.sel /\ d.data = g.data
        /\ d.history = g.history /\ d.doubtful = g.doubtful /\ d.fetches = g.fetches
    BY <2>1, <2>3 DEF Panels
  <2> HIDE DEF d
  <2> QED
    BY <2>0, <2>2, <2>4, PanelKeeps
<1>9. CASE ChallengeAnswered(t, i)
  <2> DEFINE d == [e EXCEPT !.busy = FALSE]
  <2>1. PanelInv(e) /\ SetTab(t, d)
    BY <1>2, <1>9 DEF ChallengeAnswered
  <2> HIDE DEF e
  <2>2. /\ d \in Panels /\ d.page = e.page /\ d.sel = e.sel /\ d.data = e.data
        /\ d.history = e.history /\ d.doubtful = e.doubtful /\ d.fetches = e.fetches
    BY <1>1 DEF Panels
  <2> HIDE DEF d
  <2> QED
    BY <2>1, <2>2, PanelKeeps
<1> QED
  BY <1>3, <1>4, <1>5, <1>6, <1>7, <1>8, <1>9 DEF Answered

(* So does what the user does.                                             *)
LEMMA UseTab ==
  ASSUME NEW t \in Tabs, PanelInv(tab[t]), Use(t)
  PROVE  \E d : PanelInv(d) /\ SetTab(t, d)
<1> USE ConsoleAssumption
<1> DEFINE c == tab[t]
<1>0. c \in Panels /\ InOrder(c.fetches) /\ OneData(c) /\ DataAsAsked(c) /\ HistoryAsAsked(c)
  BY DEF PanelInv
<1>1. ASSUME NEW page \in Pages, Open(t, page) PROVE \E d : PanelInv(d) /\ SetTab(t, d)
  <2>1. PICK first \in {None} \cup (IF page = "snapshots" THEN Agents ELSE {}) :
          SetTab(t, Fresh(page, tab[t].user, first))
    BY <1>1 DEF Open
  <2>2. /\ first \in Agents \cup {None} /\ (first # None => page = "snapshots")
        /\ tab[t].user \in Users \cup {None}
    BY <1>0 DEF Panels
  <2>3. PanelInv(Fresh(page, tab[t].user, first))
    BY <2>2, FreshPanel
  <2> QED
    BY <2>1, <2>3
<1>2. ASSUME NEW u \in Users, SwitchAccount(t, u) PROVE \E d : PanelInv(d) /\ SetTab(t, d)
  <2> DEFINE e == [c EXCEPT !.user = u, !.loading = TRUE]
             d == WithFetch(e, "list", u)
  <2>1. SetTab(t, d)
    BY <1>2 DEF SwitchAccount
  <2>2. /\ e \in Panels /\ e.page = c.page /\ e.sel = c.sel /\ e.data = c.data
        /\ e.history = c.history /\ e.doubtful = c.doubtful /\ e.fetches = c.fetches
    BY <1>0 DEF Panels
  <2>3. PanelInv(e)
    BY <2>2, PanelKeeps
  <2> HIDE DEF e
  <2>4. Fetch("list", u) \in Fetches
    BY FetchTypes
  <2>5. /\ d \in Panels /\ d.fetches = Append(e.fetches, Fetch("list", u))
        /\ d.page = e.page /\ d.sel = e.sel /\ d.data = e.data
        /\ d.history = e.history /\ d.doubtful = e.doubtful
    BY <2>2, <2>4, WithFetchFacts
  <2> HIDE DEF d
  <2>6. DataOf(e.page) # "list"
    BY DEF DataOf
  <2>7. InOrder(e.fetches) /\ OneData(e) /\ DataAsAsked(e) /\ HistoryAsAsked(e)
    BY <2>3 DEF PanelInv
  <2>8. PanelInv(d)
    BY <2>2, <2>4, <2>5, <2>6, <2>7, AskPanel
  <2> QED
    BY <2>1, <2>8
<1>3. ASSUME NEW a \in Agents, Pick(t, a) PROVE \E d : PanelInv(d) /\ SetTab(t, d)
  <2> DEFINE e == Select(c, a)
             d == [e EXCEPT !.to = None, !.tx = None]
  <2>1. PanelInv(e) /\ e \in Panels
    BY SelectPanel DEF PanelInv
  <2>2. SetTab(t, d) \/ SetTab(t, e)
    BY <1>3 DEF Pick
  <2> HIDE DEF e
  <2>3. /\ d \in Panels /\ d.page = e.page /\ d.sel = e.sel /\ d.data = e.data
        /\ d.history = e.history /\ d.doubtful = e.doubtful /\ d.fetches = e.fetches
    BY <2>1 DEF Panels
  <2> HIDE DEF d
  <2> QED
    BY <2>1, <2>2, <2>3, PanelKeeps
<1>4. ASSUME NEW u \in Users, Address(t, u) PROVE \E d : PanelInv(d) /\ SetTab(t, d)
  <2> DEFINE d == [c EXCEPT !.to = u]
  <2>1. /\ d \in Panels /\ d.page = c.page /\ d.sel = c.sel /\ d.data = c.data
        /\ d.history = c.history /\ d.doubtful = c.doubtful /\ d.fetches = c.fetches
    BY <1>0 DEF Panels
  <2>2. SetTab(t, d)
    BY <1>4 DEF Address
  <2> HIDE DEF d
  <2> QED
    BY <2>1, <2>2, PanelKeeps
<1>5. CASE Transfer(t)
  <2> DEFINE d == [c EXCEPT !.busy = TRUE, !.tx = None]
  <2>1. /\ d \in Panels /\ d.page = c.page /\ d.sel = c.sel /\ d.data = c.data
        /\ d.history = c.history /\ d.doubtful = c.doubtful /\ d.fetches = c.fetches
    BY <1>0 DEF Panels
  <2>2. SetTab(t, d)
    BY <1>5 DEF Transfer
  <2> HIDE DEF d
  <2> QED
    BY <2>1, <2>2, PanelKeeps
<1>6. CASE Refresh(t)
  <2> DEFINE d == WithFetch(c, "history", c.data)
  <2>1. SetTab(t, d) /\ c.data \in Agents
    BY <1>0, <1>6 DEF Refresh, Panels
  <2>2. Fetch("history", c.data) \in Fetches
    BY <2>1, FetchTypes DEF Kinds
  <2>3. /\ d \in Panels /\ d.fetches = Append(c.fetches, Fetch("history", c.data))
        /\ d.page = c.page /\ d.sel = c.sel /\ d.data = c.data
        /\ d.history = c.history /\ d.doubtful = c.doubtful
    BY <1>0, <2>2, WithFetchFacts
  <2> HIDE DEF d, c
  <2>4. DataOf(c.page) # "history"
    BY DEF DataOf
  <2>5. PanelInv(d)
    BY <1>0, <2>2, <2>3, <2>4, AskPanel
  <2> QED
    BY <2>1, <2>5
<1>7. CASE AskChallenge(t)
  <2> DEFINE e == WithFetch(c, "challenge", c.sel)
             d == [e EXCEPT !.busy = TRUE]
  <2>1. SetTab(t, d) /\ c.sel \in Agents
    BY <1>0, <1>7 DEF AskChallenge, CanRotate, CanEdit, Panels
  <2>2. Fetch("challenge", c.sel) \in Fetches
    BY <2>1, FetchTypes DEF Kinds
  <2>3. /\ e \in Panels /\ e.fetches = Append(c.fetches, Fetch("challenge", c.sel))
        /\ e.page = c.page /\ e.sel = c.sel /\ e.data = c.data
        /\ e.history = c.history /\ e.doubtful = c.doubtful
    BY <1>0, <2>2, WithFetchFacts
  <2> HIDE DEF e, c
  <2>4. DataOf(c.page) # "challenge"
    BY DEF DataOf
  <2>5. PanelInv(e)
    BY <1>0, <2>2, <2>3, <2>4, AskPanel
  <2>6. /\ d \in Panels /\ d.page = e.page /\ d.sel = e.sel /\ d.data = e.data
        /\ d.history = e.history /\ d.doubtful = e.doubtful /\ d.fetches = e.fetches
    BY <2>3 DEF Panels
  <2> HIDE DEF d
  <2> QED
    BY <2>1, <2>5, <2>6, PanelKeeps
<1>8. CASE DisconnectWallet(t)
  <2> DEFINE d == [c EXCEPT !.user = None, !.agents = {}]
  <2>1. /\ d \in Panels /\ d.page = c.page /\ d.sel = c.sel /\ d.data = c.data
        /\ d.history = c.history /\ d.doubtful = c.doubtful /\ d.fetches = c.fetches
    BY <1>0 DEF Panels
  <2>2. SetTab(t, d)
    BY <1>8 DEF DisconnectWallet
  <2> HIDE DEF d
  <2> QED
    BY <2>1, <2>2, PanelKeeps
<1> QED
  BY <1>1, <1>2, <1>3, <1>4, <1>5, <1>6, <1>7, <1>8 DEF Use

(* One tab changes, to a panel in order.                                   *)
LEMMA OneTab ==
  ASSUME tab \in [Tabs -> Panels], \A u \in Tabs : PanelInv(tab[u]), NEW t \in Tabs,
         NEW d, PanelInv(d), SetTab(t, d)
  PROVE  tab' \in [Tabs -> Panels] /\ \A u \in Tabs : PanelInv(tab'[u])
<1>1. d \in Panels
  BY DEF PanelInv
<1>2. \A u \in Tabs : tab'[u] = IF u = t THEN d ELSE tab[u]
  BY DEF SetTab
<1> QED
  BY <1>1, <1>2 DEF SetTab

(* Settled data is the selection's, or nothing.                            *)
LEMMA SettledData ==
  ASSUME NEW c, PanelInv(c), Settled(c)
  PROVE  c.data \in {None, c.sel}
<1>1. Decided(c, DataOf(c.page))
  BY DEF Settled, Under, Decided, Pending
<1> QED
  BY <1>1 DEF PanelInv, DataAsAsked

LEMMA UseStep ==
  ASSUME ConsoleInv, NEW t \in Tabs, Use(t)
  PROVE  ConsoleInv'
<1> USE ConsoleAssumption
<1>0. /\ ConsoleTypeOK /\ tab \in [Tabs -> Panels] /\ \A u \in Tabs : PanelInv(tab[u])
      /\ MeansToken(prompts) /\ MeansToken(mempool)
  BY DEF ConsoleInv, ConsoleTypeOK
<1>1. tab' \in [Tabs -> Panels] /\ \A u \in Tabs : PanelInv(tab'[u])
  <2>1. PICK d : PanelInv(d) /\ SetTab(t, d)
    BY <1>0, UseTab
  <2> QED
    BY <1>0, <2>1, OneTab
<1>2. UNCHANGED <<mempool, owner, asked, failures>> /\ Click
  BY DEF Use, Open, DisconnectWallet, SwitchAccount, Pick, Address, Transfer, Refresh,
      AskChallenge
<1>3. clicks' \in 0..MaxClicks /\ clicks' \in 1..MaxClicks
  BY <1>0, <1>2 DEF Click, ConsoleTypeOK
<1>4. prompts' \subseteq Transfers /\ MeansToken(prompts')
  <2>1. CASE UNCHANGED prompts
    BY <1>0, <2>1 DEF ConsoleTypeOK
  <2>2. ASSUME NEW page \in Pages, Open(t, page) PROVE prompts' \subseteq Transfers /\ MeansToken(prompts')
    <3>1. prompts' = {[p EXCEPT !.open = @ /\ p.tab # t] : p \in prompts}
      BY <2>2 DEF Open
    <3>2. ASSUME NEW p \in prompts
          PROVE  LET q == [p EXCEPT !.open = @ /\ p.tab # t] IN
                   q \in Transfers /\ q.settled = p.settled /\ q.meant = p.meant /\ q.token = p.token
      <4>1. p \in Transfers
        BY <1>0 DEF ConsoleTypeOK
      <4> DEFINE b == (p.open /\ p.tab # t)
      <4>2. b \in BOOLEAN
        OBVIOUS
      <4> HIDE DEF b
      <4>3. LET q == [p EXCEPT !.open = b] IN
              q \in Transfers /\ q.settled = p.settled /\ q.meant = p.meant /\ q.token = p.token
        BY <4>1, <4>2 DEF Transfers
      <4> QED
        BY <4>3 DEF b
    <3> DEFINE shut(p) == [p EXCEPT !.open = @ /\ p.tab # t]
    <3>3. \A p \in prompts : shut(p) \in Transfers /\ (shut(p).settled => shut(p).meant = shut(p).token)
      BY <1>0, <3>2 DEF MeansToken
    <3>4. prompts' = {shut(p) : p \in prompts}
      BY <3>1
    <3> HIDE DEF shut
    <3> QED
      BY <3>3, <3>4 DEF MeansToken
  <2>3. CASE Transfer(t)
    <3> DEFINE c == tab[t]
               p == [n |-> clicks', tab |-> t, from |-> c.user, to |-> c.to, token |-> c.data,
                     meant |-> c.sel, settled |-> Settled(c), open |-> TRUE]
    <3>1. /\ prompts' = prompts \cup {p} /\ c.page = "transfer" /\ c.data # None /\ c.to # None
          /\ c.user # None
      BY <2>3 DEF Transfer, CanTransfer, FormOpen, Connected
    <3>2. PanelInv(c) /\ c \in Panels
      BY <1>0
    <3>3. c.user \in Users /\ c.to \in Users /\ c.data \in Agents /\ c.sel \in Agents \cup {None}
      BY <3>1, <3>2 DEF Panels
    <3>4. Settled(c) \in BOOLEAN
      BY DEF Settled
    <3>5. Settled(c) => c.sel = c.data
      BY <3>1, <3>2, SettledData
    <3>6. c.sel \in Agents
      BY <3>1, <3>2, <3>3 DEF PanelInv, OneData
    <3>7. p \in Transfers /\ (p.settled => p.meant = p.token)
      BY <1>3, <3>3, <3>4, <3>5, <3>6 DEF Transfers
    <3>8. prompts \subseteq Transfers
      BY <1>0 DEF ConsoleTypeOK
    <3> HIDE DEF p, c
    <3> QED
      BY <1>0, <3>1, <3>7, <3>8 DEF MeansToken
  <2> QED
    BY <2>1, <2>2, <2>3 DEF Use, DisconnectWallet, SwitchAccount, Pick, Address, Refresh, AskChallenge
<1>5. ConsoleTypeOK'
  BY <1>0, <1>1, <1>2, <1>3, <1>4 DEF ConsoleTypeOK
<1> QED
  BY <1>0, <1>1, <1>2, <1>4, <1>5 DEF ConsoleInv

LEMMA ConsoleInvStep == ConsoleInv /\ [ConsoleNext]_consoleVars => ConsoleInv'
<1> SUFFICES ASSUME ConsoleInv, [ConsoleNext]_consoleVars PROVE ConsoleInv'
  OBVIOUS
<1>0. /\ ConsoleTypeOK /\ tab \in [Tabs -> Panels] /\ \A u \in Tabs : PanelInv(tab[u])
      /\ MeansToken(prompts) /\ MeansToken(mempool)
  BY DEF ConsoleInv, ConsoleTypeOK
<1>1. ASSUME NEW t \in Tabs, Use(t) PROVE ConsoleInv'
  BY <1>1, UseStep
<1>2. ASSUME NEW t \in Tabs, NEW i \in DOMAIN tab[t].fetches, Answered(t, i) PROVE ConsoleInv'
  <2>1. PICK d : PanelInv(d) /\ SetTab(t, d)
    BY <1>0, <1>2, AnsweredTab
  <2>2. tab' \in [Tabs -> Panels] /\ \A u \in Tabs : PanelInv(tab'[u])
    BY <1>0, <2>1, OneTab
  <2>3. UNCHANGED <<prompts, mempool, owner, clicks>>
    BY <1>2 DEF Answered, ListAnswered, TokenAnswered, TokenUnknown, SkillsAnswered,
                HistoryAnswered, FetchFails, ChallengeAnswered
  <2>4. failures' \in 0..MaxFailures
    <3>1. \/ UNCHANGED failures
          \/ failures < MaxFailures /\ failures' = failures + 1
      BY <1>2 DEF Answered, ListAnswered, TokenAnswered, TokenUnknown, SkillsAnswered,
                  HistoryAnswered, FetchFails, ChallengeAnswered
    <3> QED
      BY <1>0, <3>1, ConsoleAssumption DEF ConsoleTypeOK
  <2>5. asked' \subseteq {"snapshot", "skill-edit"} \X BOOLEAN
    <3>1. UNCHANGED asked \/ ChallengeAnswered(t, i)
      BY <1>2 DEF Answered, ListAnswered, TokenAnswered, TokenUnknown, SkillsAnswered,
                  HistoryAnswered, FetchFails
    <3>2. /\ Action(tab[t].page) \in {"snapshot", "skill-edit"}
          /\ Grants(Action(tab[t].page)) \in BOOLEAN
      BY DEF Action, Grants
    <3> QED
      BY <1>0, <3>1, <3>2 DEF ChallengeAnswered, ConsoleTypeOK
  <2>6. ConsoleTypeOK'
    BY <1>0, <2>2, <2>3, <2>4, <2>5 DEF ConsoleTypeOK
  <2> QED
    BY <1>0, <2>2, <2>3, <2>6 DEF ConsoleInv
<1>3. ASSUME NEW p \in prompts, Sign(p) \/ Decline(p) PROVE ConsoleInv'
  <2>1. p \in Transfers /\ p.tab \in Tabs /\ p.token \in Agents
    BY <1>0 DEF ConsoleTypeOK, Transfers
  <2>2. ASSUME NEW x \in Agents \cup {None}, Back(p, x)
        PROVE  tab' \in [Tabs -> Panels] /\ \A u \in Tabs : PanelInv(tab'[u])
    <3> DEFINE c == tab[p.tab]
               d == [c EXCEPT !.busy = FALSE, !.tx = x]
    <3>1. SetTab(p.tab, d) \/ UNCHANGED tab
      BY <2>2 DEF Back
    <3>2. PanelInv(c) /\ c \in Panels
      BY <1>0, <2>1
    <3> HIDE DEF c
    <3>3. /\ d \in Panels /\ d.page = c.page /\ d.sel = c.sel /\ d.data = c.data
          /\ d.history = c.history /\ d.doubtful = c.doubtful /\ d.fetches = c.fetches
      BY <3>2 DEF Panels
    <3> HIDE DEF d
    <3>4. PanelInv(d)
      BY <3>2, <3>3, PanelKeeps
    <3> QED
      BY <1>0, <2>1, <3>1, <3>4, OneTab
  <2>3. Back(p, p.token) \/ Back(p, None)
    BY <1>3 DEF Sign, Decline
  <2>4. tab' \in [Tabs -> Panels] /\ \A u \in Tabs : PanelInv(tab'[u])
    BY <2>1, <2>2, <2>3
  <2>5. /\ prompts' \subseteq prompts /\ mempool' \subseteq mempool \cup {p}
        /\ UNCHANGED <<owner, asked, clicks, failures>>
    BY <1>3 DEF Sign, Decline
  <2>6. ConsoleTypeOK'
    BY <1>0, <2>1, <2>4, <2>5 DEF ConsoleTypeOK
  <2> QED
    BY <1>0, <2>4, <2>5, <2>6 DEF ConsoleInv, MeansToken
<1>4. ASSUME NEW p \in mempool, MineTransfer(p) PROVE ConsoleInv'
  <2>1. p \in Transfers /\ p.to \in Users
    BY <1>0 DEF ConsoleTypeOK, Transfers
  <2>2. /\ UNCHANGED <<tab, prompts, asked, clicks, failures>> /\ mempool' \subseteq mempool
        /\ owner' \in [Agents -> Users]
    BY <1>0, <1>4, <2>1 DEF MineTransfer, ConsoleTypeOK
  <2>3. ConsoleTypeOK'
    BY <1>0, <2>2 DEF ConsoleTypeOK
  <2> QED
    BY <1>0, <2>2, <2>3 DEF ConsoleInv, MeansToken
<1>5. CASE UNCHANGED consoleVars
  BY <1>0, <1>5 DEF consoleVars, ConsoleInv, ConsoleTypeOK
<1> QED
  BY <1>1, <1>2, <1>3, <1>4, <1>5 DEF ConsoleNext

LEMMA ConsoleInvInit == ConsoleInit => ConsoleInv
<1> SUFFICES ASSUME ConsoleInit PROVE ConsoleInv
  OBVIOUS
<1> USE ConsoleAssumption
<1>1. \A u \in Users : PanelInv(Fresh("transfer", u, None))
  BY FreshPanel DEF Pages
<1>2. \A t \in Tabs : PanelInv(tab[t]) /\ tab[t] \in Panels
  BY <1>1 DEF ConsoleInit, PanelInv
<1>3. tab \in [Tabs -> Panels]
  BY <1>2 DEF ConsoleInit
<1>4. ConsoleTypeOK
  BY <1>3 DEF ConsoleInit, ConsoleTypeOK
<1> QED
  BY <1>2, <1>4 DEF ConsoleInit, ConsoleInv, MeansToken

(* The inductive invariant of the console.                                 *)
THEOREM ConsoleInvariance == ConsoleSpec => []ConsoleInv
  BY ConsoleInvInit, ConsoleInvStep, PTL DEF ConsoleSpec

(* Every variable of the console keeps its type.                           *)
THEOREM ConsoleTypes == ConsoleSpec => []ConsoleTypeOK
<1>1. ConsoleInv => ConsoleTypeOK
  BY DEF ConsoleInv
<1> QED
  BY <1>1, ConsoleInvariance, PTL

(* Once the answers are in, a panel shows the selected agent's token or    *)
(* skills, and its history, in every order in which requests of the panel  *)
(* can be answered (snapshots-panel.tsx:53-88, transfer-panel.tsx:39-45,   *)
(* skills-panel.tsx:53-70).                                                *)
THEOREM SelectionShown == ConsoleSpec => []DataIsSelected
<1>1. ASSUME NEW c, PanelInv(c)
      PROVE  (Settled(c) => c.data \in {None, c.sel}) /\ HistoryIsTokens(c)
  <2>1. ~Under(c, "history") /\ "history" \notin c.doubtful => Decided(c, "history")
    BY DEF Under, Decided, Pending
  <2> QED
    BY <1>1, <2>1, SettledData DEF PanelInv, HistoryAsAsked, HistoryIsTokens
<1>2. ConsoleInv => DataIsSelected
  BY <1>1 DEF ConsoleInv, DataIsSelected
<1> QED
  BY <1>2, ConsoleInvariance, PTL

(* A token moves only by a transaction of its owner, and if the panel had  *)
(* settled at the click, it is the token of the agent selected then        *)
(* (transfer-panel.tsx).                                                   *)
THEOREM PickedMoves == ConsoleSpec => MovesWhatWasPicked
<1> DEFINE A == \A a \in Agents : owner'[a] # owner[a] =>
                  \E p \in mempool \ mempool' :
                    p.token = a /\ p.from = owner[a] /\ (p.settled => p.meant = a)
<1>1. ConsoleInv /\ [ConsoleNext]_consoleVars => [A]_consoleVars
  <2> SUFFICES ASSUME ConsoleInv, ConsoleNext, NEW a \in Agents, owner'[a] # owner[a]
               PROVE  \E p \in mempool \ mempool' :
                        p.token = a /\ p.from = owner[a] /\ (p.settled => p.meant = a)
    OBVIOUS
  <2>1. PICK p \in mempool : MineTransfer(p)
    <3>1. ASSUME NEW t \in Tabs, Use(t) PROVE UNCHANGED owner
      BY <3>1 DEF Use, Open, DisconnectWallet, SwitchAccount, Pick, Address, Transfer, Refresh,
      AskChallenge
    <3>2. ASSUME NEW t \in Tabs, NEW i \in DOMAIN tab[t].fetches, Answered(t, i)
          PROVE  UNCHANGED owner
      BY <3>2 DEF Answered, ListAnswered, TokenAnswered, TokenUnknown, SkillsAnswered,
                  HistoryAnswered, FetchFails, ChallengeAnswered
    <3>3. ASSUME NEW q \in prompts, Sign(q) \/ Decline(q) PROVE UNCHANGED owner
      BY <3>3 DEF Sign, Decline
    <3> QED
      BY <3>1, <3>2, <3>3 DEF ConsoleNext
  <2>2. p.token = a /\ owner[p.token] = p.from /\ p \notin mempool'
    BY <2>1 DEF MineTransfer, ConsoleInv, ConsoleTypeOK
  <2>3. p.settled => p.meant = p.token
    BY DEF ConsoleInv, MeansToken
  <2> QED
    BY <2>2, <2>3
<1>2. ConsoleSpec => [][A]_consoleVars
  BY <1>1, ConsoleInvariance, PTL DEF ConsoleSpec
<1> QED
  BY <1>2 DEF MovesWhatWasPicked
=============================================================================
