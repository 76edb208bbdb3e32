--------------------------- MODULE CalleeRegistry ---------------------------
(***************************************************************************)
(* The web server's registry of agent runtimes (Frontend/lib/              *)
(* call-server.ts), for one ENS name.                                      *)
(*                                                                         *)
(* A call of a skill boots the agent's runtime, in TEE mode or not, unless *)
(* the registry has one; sends its request to the inbox all runtimes of    *)
(* the name share; and reports, with the answer, what it then reads from   *)
(* the runtime it was given.  Booting awaits the identity, the compute     *)
(* client and the database, so calls and edits of the skills interleave    *)
(* with it.  A runtime is named by the call that booted it.                *)
(***************************************************************************)
EXTENDS Naturals, Sequences, FiniteSets

CONSTANTS
  Calls,      \* calls of callAgentSkill
  TeeCalls,   \* those with mode.tee
  NoCall,     \* no runtime, no call
  MaxMishaps  \* bound: edits of the skills, failures and timeouts

ASSUME RegistryAssumption ==
  /\ TeeCalls \subseteq Calls /\ NoCall \notin Calls
  /\ MaxMishaps \in Nat

VARIABLES
  registry,    \* the map `runtimes`: key <ens>:tee is TRUE, key <ens> FALSE
  phase, callee,    \* each call, and the runtime it was given
  repBefore,   \* the reputation head a call compares with
  report,      \* what a call says of the TEE proof and the reputation head
  running,     \* agent.running of each runtime
  stage, serving,   \* the agent's loop: its await, the request in hand
  skills,      \* the version of prompt_skills in the runtime, 0 for built-ins
  lastTee,     \* compute.lastTeeAttestation
  head,        \* rep.head: the call attested last
  broken,      \* runtimes whose RepChain rejects every append
  inbox,       \* the LocalBus queue of the agent's key
  answer,      \* the answer on its way to each call
  version,     \* the version of prompt_skills in the database
  edits,       \* edits that have written but not yet evicted
  mishaps,     \* edits, failures and timeouts so far
  overlapped,  \* history: two boots were under way at once
  company,     \* history: calls during which another call was under way
  raced,       \* history: runtimes evicted before they were registered
  unpublished  \* history: an edit failed between its write and its eviction

registryVars == <<registry, running, skills>>
callVars == <<phase, callee, repBefore, report, inbox>>
loopVars == <<stage, serving, lastTee, head, broken, answer>>
editVars == <<version, edits, unpublished>>
history  == <<overlapped, company, raced>>
calleeVars == <<registryVars, callVars, loopVars, editVars, history, mishaps>>

ModeOf(c) == c \in TeeCalls
Booting == {c \in Calls : phase[c] \in {"loading", "building", "starting"}}
Active == {c \in Calls : phase[c] \notin {"idle", "done"}}

CalleeInit ==
  /\ registry = [m \in BOOLEAN |-> NoCall]
  /\ phase = [c \in Calls |-> "idle"] /\ callee = [c \in Calls |-> NoCall]
  /\ repBefore = [c \in Calls |-> NoCall]
  /\ report = [c \in Calls |-> [tee |-> NoCall, rep |-> NoCall]]
  /\ running = [r \in Calls |-> FALSE]
  /\ stage = [r \in Calls |-> "idle"] /\ serving = [r \in Calls |-> NoCall]
  /\ skills = [r \in Calls |-> 0]
  /\ lastTee = [r \in Calls |-> NoCall] /\ head = [r \in Calls |-> NoCall]
  /\ broken = {}
  /\ inbox = <<>> /\ answer = [c \in Calls |-> "none"]
  /\ version = 1 /\ edits = 0
  /\ mishaps = 0
  /\ overlapped = FALSE /\ company = {} /\ raced = {} /\ unpublished = FALSE

Goto(c, p) == phase' = [phase EXCEPT ![c] = p]
Mishap == mishaps < MaxMishaps /\ mishaps' = mishaps + 1

-----------------------------------------------------------------------------
(* callAgentSkill: the ENS record is read and bootCallee looks for the     *)
(* runtime, up to its first await.                                         *)
Start(c) ==
  /\ phase[c] = "idle"
  /\ callee' = [callee EXCEPT ![c] = registry[ModeOf(c)]]
  /\ Goto(c, IF registry[ModeOf(c)] = NoCall THEN "loading" ELSE "bound")
  /\ overlapped' = (overlapped \/ (registry[ModeOf(c)] = NoCall /\ Booting # {}))
  /\ company' = IF Active = {} THEN company ELSE company \cup Active \cup {c}
  /\ UNCHANGED <<registryVars, repBefore, report, inbox, loopVars, editVars, raced, mishaps>>

(* agent.stop() and runtimes.delete() of the given keys.                   *)
Drop(modes) ==
  /\ registry' = [m \in BOOLEAN |-> IF m \in modes THEN NoCall ELSE registry[m]]
  /\ running' = [r \in Calls |->
                   running[r] /\ \A m \in modes : registry[m] # r]

(* Mutation: a change of mode leaves the other variant running.            *)
LoadIdentityKeeps(c) ==
  /\ phase[c] = "loading"
  /\ Goto(c, "building")
  /\ UNCHANGED <<registryVars, callee, repBefore, report, inbox, loopVars, editVars, history, mishaps>>

(* loadIdentity returned: the variant of the other mode is torn down.      *)
LoadIdentity(c) ==
  /\ phase[c] = "loading"
  /\ Drop({~ModeOf(c)})
  /\ Goto(c, "building")
  /\ UNCHANGED <<skills, callee, repBefore, report, inbox, loopVars, editVars, history, mishaps>>

(* buildCompute returned and listPromptSkills has read the database; when  *)
(* it fails the runtime serves the built-in skills.                        *)
ListSkills(c) ==
  /\ phase[c] = "building"
  /\ \/ skills' = [skills EXCEPT ![c] = version] /\ UNCHANGED mishaps
     \/ skills' = [skills EXCEPT ![c] = 0] /\ Mishap
  /\ Goto(c, "starting")
  /\ UNCHANGED <<registry, running, callee, repBefore, report, inbox, loopVars, editVars, history>>

(* agent.start() and runtimes.set().                                       *)
Register(c) ==
  /\ phase[c] = "starting"
  /\ running' = [running EXCEPT ![c] = TRUE]
  /\ registry' = [registry EXCEPT ![ModeOf(c)] = c]
  /\ callee' = [callee EXCEPT ![c] = c]
  /\ Goto(c, "bound")
  /\ UNCHANGED <<skills, repBefore, report, inbox, loopVars, editVars, history, mishaps>>

(* buildCompute throws; the other mode's variant is torn down already.     *)
BuildFails(c) ==
  /\ phase[c] = "building"
  /\ Mishap
  /\ Goto(c, "done")
  /\ UNCHANGED <<registryVars, callee, repBefore, report, inbox, loopVars, editVars, history>>

(* The identity or its records fail.                                       *)
Fail(c) ==
  /\ phase[c] \in {"loading", "bound"}
  /\ Mishap
  /\ Goto(c, "done")
  /\ UNCHANGED <<registryVars, callee, repBefore, report, inbox, loopVars, editVars, history>>

(* makeCaller, and callSkill sends the request.                            *)
Dispatch(c) ==
  /\ phase[c] = "bound"
  /\ inbox' = Append(inbox, c)
  /\ Goto(c, "waiting")
  /\ UNCHANGED <<registryVars, callee, repBefore, report, loopVars, editVars, history, mishaps>>

(* callSkill returned: the TEE proof and the reputation head are read from *)
(* the runtime as it is now.                                               *)
Receive(c) ==
  /\ phase[c] = "waiting" /\ answer[c] = "ok"
  /\ report' = [report EXCEPT ![c].tee = lastTee[callee[c]]]
  /\ repBefore' = [repBefore EXCEPT ![c] = head[callee[c]]]
  /\ Goto(c, "reporting")
  /\ UNCHANGED <<registryVars, callee, inbox, loopVars, editVars, history, mishaps>>

(* callSkill throws: an error answer, or none within 90 s.                 *)
Throw(c) ==
  /\ phase[c] = "waiting"
  /\ \/ answer[c] = "error" /\ UNCHANGED mishaps
     \/ answer[c] = "none" /\ Mishap
  /\ Goto(c, "done")
  /\ UNCHANGED <<registryVars, callee, repBefore, report, inbox, loopVars, editVars, history>>

(* Mutation: whatever the head is counts as this call's attestation.       *)
ReportAnyHead(c) ==
  /\ phase[c] = "reporting"
  /\ report' = [report EXCEPT ![c].rep = head[callee[c]]]
  /\ Goto(c, "done")
  /\ UNCHANGED <<registryVars, callee, repBefore, inbox, loopVars, editVars, history, mishaps>>

(* The poll of the head ends: it moved, or 5 s are over.                   *)
Report(c) ==
  /\ phase[c] = "reporting"
  /\ report' = [report EXCEPT ![c].rep =
                  IF head[callee[c]] # repBefore[c] THEN head[callee[c]] ELSE NoCall]
  /\ Goto(c, "done")
  /\ UNCHANGED <<registryVars, callee, repBefore, inbox, loopVars, editVars, history, mishaps>>

Call(c) ==
  \/ Start(c) \/ LoadIdentity(c) \/ ListSkills(c) \/ Register(c) \/ BuildFails(c)
  \/ Fail(c) \/ Dispatch(c) \/ Receive(c) \/ Throw(c) \/ Report(c)

-----------------------------------------------------------------------------
(* The loop of runtime r: Agent.start and handleInbound.                   *)
Poll(r) ==
  /\ running[r] /\ stage[r] = "idle" /\ inbox # <<>>
  /\ serving' = [serving EXCEPT ![r] = Head(inbox)]
  /\ inbox' = Tail(inbox)
  /\ stage' = [stage EXCEPT ![r] = "run"]
  /\ UNCHANGED <<registryVars, phase, callee, repBefore, report, lastTee, head, broken,
                 answer, editVars, history, mishaps>>

(* The skill's inference, which every skill of the registry makes, and the *)
(* answer: a handler may also throw, before its inference or after it.     *)
Answer(r, kind) ==
  /\ stage[r] = "run"
  /\ answer' = [answer EXCEPT ![serving[r]] = kind]
  /\ stage' = [stage EXCEPT ![r] = "attest"]
  /\ UNCHANGED <<registryVars, callVars, serving, head, broken, editVars, history>>

(* Compute, of the plain mode, never holds a proof: only DirectCompute.    *)
Proves(r) == ModeOf(r)

Infer(r) ==
  lastTee' = IF Proves(r) THEN [lastTee EXCEPT ![r] = serving[r]] ELSE lastTee

ReplyOk(r) == Answer(r, "ok") /\ Infer(r) /\ UNCHANGED mishaps
HandlerThrows(r) == Answer(r, "error") /\ (Infer(r) \/ UNCHANGED lastTee) /\ Mishap

NextMessage(r) ==
  /\ stage' = [stage EXCEPT ![r] = "idle"]
  /\ serving' = [serving EXCEPT ![r] = NoCall]
  /\ UNCHANGED <<registryVars, callVars, lastTee, answer, editVars, history>>

Attest(r) ==
  /\ stage[r] = "attest" /\ r \notin broken
  /\ head' = [head EXCEPT ![r] = serving[r]]
  /\ NextMessage(r)
  /\ UNCHANGED <<broken, mishaps>>

(* A failed upload: RepChain's lock stays rejected.                        *)
AttestFails(r) ==
  /\ stage[r] = "attest"
  /\ \/ r \in broken /\ UNCHANGED <<broken, mishaps>>
     \/ r \notin broken /\ broken' = broken \cup {r} /\ Mishap
  /\ NextMessage(r)
  /\ UNCHANGED head

Loop(r) ==
  \/ Poll(r) \/ ReplyOk(r) \/ HandlerThrows(r) \/ Attest(r) \/ AttestFails(r)

-----------------------------------------------------------------------------
(* POST and DELETE of /api/skills: the database, the agent card, eviction. *)
WriteSkills ==
  /\ Mishap
  /\ version' = version + 1
  /\ edits' = edits + 1
  /\ UNCHANGED <<registryVars, callVars, loopVars, unpublished, history>>

(* republishCard throws: the route returns before it evicts.               *)
PublishFails ==
  /\ edits > 0
  /\ edits' = edits - 1
  /\ unpublished' = TRUE
  /\ UNCHANGED <<registryVars, callVars, loopVars, version, history, mishaps>>

(* Mutation: only the plain variant is evicted.                            *)
EvictRuntimePlain ==
  /\ edits > 0
  /\ Drop({FALSE})
  /\ edits' = edits - 1
  /\ raced' = raced \cup {c \in Calls : phase[c] = "starting"}
  /\ UNCHANGED <<skills, callVars, loopVars, version, unpublished, overlapped, company, mishaps>>

(* The card is published, then both variants are stopped and forgotten.    *)
EvictRuntime ==
  /\ edits > 0
  /\ Drop(BOOLEAN)
  /\ edits' = edits - 1
  /\ raced' = raced \cup {c \in Calls : phase[c] = "starting"}
  /\ UNCHANGED <<skills, callVars, loopVars, version, unpublished, overlapped, company, mishaps>>

CalleeNext ==
  \/ \E c \in Calls : Call(c) \/ Loop(c)
  \/ WriteSkills \/ PublishFails \/ EvictRuntime

CalleeSpec == CalleeInit /\ [][CalleeNext]_calleeVars

-----------------------------------------------------------------------------
CalleeTypeOK ==
  /\ registry \in [BOOLEAN -> Calls \cup {NoCall}]
  /\ phase \in [Calls -> {"idle", "loading", "building", "starting", "bound", "waiting",
                       "reporting", "done"}]
  /\ callee \in [Calls -> Calls \cup {NoCall}]
  /\ repBefore \in [Calls -> Calls \cup {NoCall}]
  /\ report \in [Calls -> [tee : Calls \cup {NoCall}, rep : Calls \cup {NoCall}]]
  /\ running \in [Calls -> BOOLEAN]
  /\ stage \in [Calls -> {"idle", "run", "attest"}]
  /\ serving \in [Calls -> Calls \cup {NoCall}]
  /\ \A r \in Calls : stage[r] = "idle" <=> serving[r] = NoCall
  /\ skills \in [Calls -> Nat]
  /\ lastTee \in [Calls -> Calls \cup {NoCall}]
  /\ head \in [Calls -> Calls \cup {NoCall}]
  /\ broken \subseteq Calls
  /\ inbox \in Seq(Calls)
  /\ answer \in [Calls -> {"none", "ok", "error"}]
  /\ version \in Nat /\ edits \in Nat /\ mishaps \in Nat
  /\ overlapped \in BOOLEAN /\ unpublished \in BOOLEAN
  /\ company \subseteq Calls /\ raced \subseteq Calls

(* A registered runtime listens, and as long as no two boots of the name   *)
(* overlap, only the registered runtime does, and it is the only one:      *)
(* "only one variant boots at a time per ENS" (call-server.ts:86-101).     *)
LoopsAreRegistered ==
  /\ \A m \in BOOLEAN : registry[m] # NoCall => running[registry[m]]
  /\ ~overlapped =>
       \A r \in Calls : running[r] => /\ registry[ModeOf(r)] = r
                                      /\ registry[~ModeOf(r)] = NoCall

(* A registered runtime has the published skills, unless an edit is under  *)
(* way or failed half-way, its own list could not be read, or an eviction  *)
(* fell between its reading of the list and its registration               *)
(* (call-server.ts:112-170, api/skills/route.ts:205-231).                  *)
FreshUnlessRaced ==
  \A m \in BOOLEAN :
    LET r == registry[m] IN
      r # NoCall => \/ skills[r] \in {version, 0}
                 \/ edits > 0 \/ unpublished \/ r \in raced

(* What a call reports of the TEE proof and of the attestation is its own, *)
(* provided no other call was under way and no boots ever overlapped: both *)
(* are read after the answer from what all calls share                     *)
(* (call-server.ts:269-293).                                               *)
ReportsOwnIfAlone ==
  ~overlapped =>
    \A c \in Calls \ company :
      report[c].tee \in {c, NoCall} /\ report[c].rep \in {c, NoCall}
=============================================================================
