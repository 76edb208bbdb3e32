---------------------------- MODULE SkillCatalog ----------------------------
(***************************************************************************)
(* Custom skills of an agent (Frontend/app/api/skills/route.ts over        *)
(* Frontend/lib/prompt-skills.ts).  An edit adds, updates or deletes one   *)
(* skill and then publishes the agent card anew with every active skill.   *)
(*                                                                         *)
(* An edit awaits between each of its reads and writes: two edits, or an   *)
(* edit and the publication of a fresh mint, interleave anywhere.  Who may *)
(* edit is decided by the owner in the identity row and by a wallet        *)
(* challenge (WalletAuth), before the first of these steps.                *)
(***************************************************************************)
EXTENDS HostedName, FiniteSets

CONSTANT MaxSkills    \* MAX_PER_HANDLE

ASSUME CatalogAssumption == MaxSkills \in Nat /\ IsFiniteSet(SkillIds)

VARIABLES
  request,   \* what each edit asks for: POST or DELETE, and of which skill
  stage,     \* where it is
  id,        \* the identity ensureOwner returned to it
  counted,   \* what countActiveSkills returned to it
  listed     \* what listPromptSkills returned to it for the card

editVars == <<request, stage, id, counted, listed>>

EditStages == {"idle", "counting", "listing", "writing", "relisting", "sending",
               "done", "failed"}
Requests == [deletes : BOOLEAN, skill : SkillIds]
Active == {s \in SkillIds : catalog[s] # Nil}

CatalogInit ==
  /\ request = [e \in Edits |-> Nil]
  /\ stage = [e \in Edits |-> "idle"]
  /\ id = [e \in Edits |-> Nil]
  /\ counted = [e \in Edits |-> 0]
  /\ listed = [e \in Edits |-> BuiltinsOnly]

-----------------------------------------------------------------------------
Target(e) == request[e].skill
Deletes(e) == request[e].deletes
StageTo(e, s) == stage' = [stage EXCEPT ![e] = s]

(* The request is well formed, ensureOwner finds the identity and its      *)
(* owner, the challenge is consumed.                                       *)
Admit(e) ==
  /\ stage[e] = "idle"
  /\ Known # Nil
  /\ memo' = Known
  /\ id' = [id EXCEPT ![e] = Known]
  /\ \E q \in Requests :
       /\ request' = [request EXCEPT ![e] = q]
       /\ StageTo(e, IF q.deletes THEN "writing" ELSE "counting")
  /\ UNCHANGED <<row, catalog, resolver, records, pool, mishaps, faults, counted, listed>>

(* Rate limit, input, an unknown handle, another owner, a bad challenge.   *)
EditRefused(e) ==
  /\ stage[e] = "idle"
  /\ memo' = Known
  /\ StageTo(e, "failed")
  /\ UNCHANGED <<row, catalog, resolver, records, pool, mishaps, faults, request, id, counted, listed>>

CountActive(e) ==
  /\ stage[e] = "counting"
  /\ counted' = [counted EXCEPT ![e] = Cardinality(Active)]
  /\ StageTo(e, "listing")
  /\ UNCHANGED <<nameVars, mishaps, faults, request, id, listed>>

(* Mutation: the cap is off by one.                                        *)
CapOffByOne(e) ==
  /\ stage[e] = "listing"
  /\ StageTo(e, IF catalog[Target(e)] = Nil /\ counted[e] > MaxSkills
                THEN "failed" ELSE "writing")
  /\ UNCHANGED <<nameVars, mishaps, faults, request, id, counted, listed>>

(* An id that is listed is an update, which the cap does not concern.      *)
CheckCap(e) ==
  /\ stage[e] = "listing"
  /\ StageTo(e, IF catalog[Target(e)] = Nil /\ counted[e] >= MaxSkills
                THEN "failed" ELSE "writing")
  /\ UNCHANGED <<nameVars, mishaps, faults, request, id, counted, listed>>

(* Edits that took their list for the card before e writes, and others     *)
(* that passed, or will pass, the cap on a count without e.                *)
Overtaken(e) ==
  (IF \E d \in Edits \ {e} : stage[d] = "sending" THEN {"overtaken"} ELSE {})
    \cup (IF ~Deletes(e) /\ \E d \in Edits \ {e} :
               stage[d] \in {"listing", "writing"} /\ ~Deletes(d)
          THEN {"capRace"} ELSE {})

(* upsertPromptSkill or deletePromptSkill.  Deleting what is not active is *)
(* an error, after the challenge was spent.                                *)
WriteSkill(e) ==
  /\ stage[e] = "writing"
  /\ \/ /\ ~Deletes(e)
        /\ catalog' = [catalog EXCEPT ![Target(e)] = e]
        /\ Note(Overtaken(e))
        /\ StageTo(e, "relisting")
     \/ /\ Deletes(e)
        /\ catalog[Target(e)] # Nil
        /\ catalog' = [catalog EXCEPT ![Target(e)] = Nil]
        /\ Note(Overtaken(e))
        /\ StageTo(e, "relisting")
     \/ /\ Deletes(e)
        /\ catalog[Target(e)] = Nil
        /\ StageTo(e, "failed")
        /\ UNCHANGED <<catalog, mishaps>>
  /\ UNCHANGED <<row, memo, resolver, records, pool, faults, request, id, counted, listed>>

(* Mutation: the card lists what was listed before the write.              *)
RelistEarly(e) ==
  /\ stage[e] = "relisting"
  /\ listed' = [listed EXCEPT ![e] = [catalog EXCEPT ![Target(e)] = Nil]]
  /\ StageTo(e, "sending")
  /\ UNCHANGED <<nameVars, mishaps, faults, request, id, counted>>

(* republishCard: list the active skills ...                               *)
Relist(e) ==
  /\ stage[e] = "relisting"
  /\ listed' = [listed EXCEPT ![e] = catalog]
  /\ StageTo(e, "sending")
  /\ UNCHANGED <<nameVars, mishaps, faults, request, id, counted>>

(* ... and send the card with them.  The registry of the call server is    *)
(* evicted in the same step (CalleeRegistry).                              *)
SendCard(e) ==
  /\ stage[e] = "sending"
  /\ SendText("card", Card(id[e], listed[e]))
  /\ StageTo(e, "done")
  /\ UNCHANGED <<row, memo, catalog, resolver, records, mishaps, faults, request, id, counted, listed>>

(* An await throws.  What was written stays written, and unpublished; the  *)
(* write or the transaction that throws may itself have been applied.      *)
EditFails(e) ==
  /\ stage[e] \in {"counting", "listing", "writing", "relisting", "sending"}
  /\ Fault
  /\ StageTo(e, "failed")
  /\ \/ UNCHANGED <<catalog, pool>>
     \/ stage[e] = "sending" /\ SendText("card", Card(id[e], listed[e])) /\ UNCHANGED catalog
     \/ /\ stage[e] = "writing"
        /\ UNCHANGED pool
        /\ catalog' = [catalog EXCEPT ![Target(e)] = IF Deletes(e) THEN Nil ELSE e]
  /\ Note((IF stage[e] \in {"relisting", "sending"} THEN {"unpublished"} ELSE {})
            \cup (IF catalog' # catalog THEN {"unpublished"} \cup Overtaken(e) ELSE {}))
  /\ UNCHANGED <<row, memo, resolver, records, request, id, counted, listed>>

(* The server process dies: every edit under way is lost where it is.      *)
CatalogCrash ==
  /\ stage' = [e \in Edits |-> IF stage[e] \in {"idle", "done"} THEN stage[e] ELSE "failed"]
  /\ Note(IF \E e \in Edits : stage[e] \in {"relisting", "sending"}
          THEN {"unpublished"} ELSE {})
  /\ UNCHANGED <<request, id, counted, listed>>

-----------------------------------------------------------------------------
Handle(e) ==
  \/ CountActive(e) \/ CheckCap(e) \/ WriteSkill(e) \/ Relist(e) \/ SendCard(e)
  \/ EditFails(e)

CatalogNext == \E e \in Edits : Admit(e) \/ EditRefused(e) \/ Handle(e)

CatalogTypeOK ==
  /\ request \in [Edits -> Requests \cup {Nil}]
  /\ stage \in [Edits -> EditStages]
  /\ id \in [Edits -> Identities \cup {Nil}]
  /\ counted \in [Edits -> Nat]
  /\ listed \in [Edits -> Catalogs]
=============================================================================
