----------------------------- MODULE Directory ------------------------------
(***************************************************************************)
(* The directory (packages/sdk/src/directory.ts) reads the records of a    *)
(* name while its owner mints, serves and publishes (CommandLine): the     *)
(* records are fetched in parallel, so an entry may mix what several       *)
(* publications wrote.  An entry is then ranked by the calls that its      *)
(* agent has attested, walking back from the published head.  The score of *)
(* the code, ok / n * min(n, lookback) / lookback, is the number of the    *)
(* calls that succeeded over lookback, since a walk returns no more than   *)
(* lookback calls: the number is what is kept here.                        *)
(***************************************************************************)
EXTENDS CommandLine, FiniteSets

CONSTANTS
  Listed,     \* the skills a published card lists
  Lookback    \* how many calls of a chain a query considers

ASSUME DirectoryAssumption == Listed \subseteq Skills /\ Lookback \in Nat \ {0}

VARIABLE
  query    \* of each directory command: the skill it asks for, and the score

vars == <<lineVars, query>>

Init ==
  /\ LineInit
  /\ query = [p \in Procs |-> [skill |-> Nil, score |-> 0, walked |-> FALSE]]

Publishing == pool # <<>> \/ \E p \in Procs : At(p, "publishing")

(* Directory.entryFor: getRecordBundle asks for every record at once.      *)
Query(p) ==
  /\ At(p, "idle")
  /\ proc' = [proc EXCEPT ![p].cmd = "directory", ![p].at = "reading"]
  /\ IF Publishing THEN Note("mixed") ELSE UNCHANGED mishaps
  /\ UNCHANGED <<file, tokens, sent, rep, records, pool, faults, query>>

(* Each answer is the record at that moment.                               *)
ReadRecord(p, k) ==
  /\ At(p, "reading") /\ k \notin proc[p].seen
  /\ proc' = [proc EXCEPT ![p].got[k] = records[k], ![p].seen = @ \cup {k}]
  /\ UNCHANGED <<file, tokens, sent, rep, records, pool, mishaps, faults, query>>

(* A name without a card, or whose card lacks the skill s of the query, is *)
(* left out ...                                                            *)
LeaveOut(p) ==
  /\ At(p, "reading") /\ proc[p].seen = Used
  /\ \E s \in Skills : proc[p].got["card"] = Nil \/ s \notin Listed
  /\ Goto(p, "failed")
  /\ UNCHANGED <<file, tokens, sent, rep, records, pool, mishaps, faults, query>>

(* ... and one that is listed has a chain to walk if it has a token and a  *)
(* head.  The skill is not looked at before.                               *)
Answer(p) ==
  LET e == proc[p].got IN
  /\ At(p, "reading") /\ proc[p].seen = Used
  /\ e["card"] # Nil
  /\ \E s \in Listed : query' = [query EXCEPT ![p].skill = s]
  /\ Goto(p, IF e["repHead"] = Nil \/ e["tokenId"] = Nil THEN "done" ELSE "ranking")
  /\ UNCHANGED <<file, tokens, sent, rep, records, pool, mishaps, faults>>

(* One record cannot be read: the name is left out.                        *)
ReadFails(p) ==
  /\ At(p, "reading")
  /\ Fault
  /\ Goto(p, "failed")
  /\ UNCHANGED <<file, tokens, sent, rep, records, pool, mishaps, query>>

(* walk: the last calls up to a head.  Those for skill s that succeeded.   *)
Window(h) == {i \in 1 .. h.n : i > h.n - Lookback}
Successes(h, s) == {i \in Window(h) : rep[h.of][i] = [skill |-> s, ok |-> TRUE]}

(* An attestation names the token of the agent that made it.               *)
Callee(h) == proc[h.of].id.token

(* scoreFor: the calls for the skill that name the token of the entry.     *)
Score(p) ==
  LET h == proc[p].got["repHead"] IN
  IF Callee(h) = proc[p].got["tokenId"] THEN Cardinality(Successes(h, query[p].skill)) ELSE 0

Rank(p) ==
  /\ At(p, "ranking")
  /\ query' = [query EXCEPT ![p].score = Score(p), ![p].walked = TRUE]
  /\ Goto(p, "done")
  /\ UNCHANGED <<file, tokens, sent, rep, records, pool, mishaps, faults>>

(* A blob of the chain cannot be read: the name is listed with score 0.    *)
WalkFails(p) ==
  /\ At(p, "ranking")
  /\ Fault
  /\ Goto(p, "done")
  /\ UNCHANGED <<file, tokens, sent, rep, records, pool, mishaps, query>>

Next ==
  \/ LineNext /\ UNCHANGED query
  \/ \E p \in Procs : Query(p) \/ LeaveOut(p) \/ Answer(p) \/ ReadFails(p) \/ Rank(p) \/ WalkFails(p)
  \/ \E p \in Procs, k \in Used : ReadRecord(p, k)

Spec == Init /\ [][Next]_vars

(* The names that are listed.                                              *)
Entries == {p \in Procs : proc[p].cmd = "directory" /\ At(p, "done")}

-----------------------------------------------------------------------------
TypeOK ==
  /\ LineTypeOK
  /\ query \in [Procs -> [skill : Skills \cup {Nil}, score : 0 .. Lookback, walked : BOOLEAN]]

Identities ==
  (IF Whole THEN {file} ELSE {})
    \cup {proc[p].id : p \in {p \in Procs : proc[p].id # Nil}}

(* A handle has one key pair and one name, for good: whatever commands     *)
(* race to create, rewrite or read its file, no two of them work with      *)
(* different ones, and tokens and records name that key ("silent ENS swap  *)
(* is always a bug", identity.ts; the "wx" flag makes creation race-safe). *)
OneIdentity ==
  /\ \A i, j \in Identities : i.pub = j.pub /\ i.ens = j.ens
  /\ \A i \in Identities :
       /\ \A t \in DOMAIN tokens : tokens[t].pub = i.pub
       /\ records["pubkey"] \in {Nil, i.pub}

MintUnderWay == sent # {} \/ \E p \in Procs : proc[p].at \in {"minting", "waiting", "saving", "rewriting"}

(* The file names the token minted for its key, unless a mint was run      *)
(* again or beside another, failed or was interrupted.                     *)
TokenKeptUnlessMishap ==
  (tokens # <<>> /\ ~MintUnderWay
     /\ mishaps \cap {"twoMints", "again", "halfway", "torn"} = {})
    => Whole /\ file.token = Len(tokens)

(* An entry is one publication: its token is the card's, its head the      *)
(* card's if that names one, unless records were written while it was      *)
(* read, by two commands at once, or by one that ended halfway.            *)
OnePublication ==
  mishaps \cap {"mixed", "twoPublishes", "halfway"} = {} =>
    \A p \in Entries :
      LET e == proc[p].got IN
      /\ e["tokenId"] = e["card"].token
      /\ e["card"].head # Nil => e["repHead"] = e["card"].head

(* However the records of an entry are mixed, its rank is earned: once the *)
(* chain was walked, the score counts the calls for the skill, among the   *)
(* last ones up to the head, that succeeded, all of them or none; and it   *)
(* counts them if the agent bears the token of the entry, as it does       *)
(* unless it was started before the handle had its token, or the handle    *)
(* minted twice or in part.  Records that are rewritten and chains that    *)
(* grow meanwhile change nothing of it.                                    *)
RankIsEarned ==
  \A p \in Entries : query[p].walked =>
    LET h == proc[p].got["repHead"]
        earned == Cardinality(Successes(h, query[p].skill))
    IN  /\ query[p].score = IF Callee(h) = proc[p].got["tokenId"] THEN earned ELSE 0
        /\ mishaps \cap {"early", "again", "twoMints", "halfway"} = {} => query[p].score = earned

(* What the directory lists, while the owner of a name mints, serves and   *)
(* publishes beside it: the records of an entry belong together except in  *)
(* the cases named, and whether they do or not, its rank is never made of  *)
(* calls of another agent than the one it shows ("ranked candidates        *)
(* serving `skill`", directory.ts).                                        *)
EntryCoherent == OnePublication /\ RankIsEarned
=============================================================================
