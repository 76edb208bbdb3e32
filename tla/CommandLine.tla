---------------------------- MODULE CommandLine -----------------------------
(***************************************************************************)
(* The commands of the agentdir CLI and the agent process (packages/cli,   *)
(* packages/agent/src/run.ts) for one handle: they share the identity file *)
(* ~/.agentdir/<handle>/identity.json (packages/agent/src/identity.ts),    *)
(* the tokens minted on 0G Chain, and the text records of one ENS name.    *)
(*                                                                         *)
(* Every command is a process of its own.  A file is written by opening it *)
(* (which creates it, or truncates it) and then filling it, and a process  *)
(* can be interrupted anywhere.  A key pair bears the name of the process  *)
(* that generated it.                                                      *)
(***************************************************************************)
EXTENDS Naturals, Sequences

CONSTANTS
  Procs,       \* command invocations
  Names,       \* ENS names given with --ens
  Skills,      \* skills that agents are called for
  Attested,    \* calls that agents attest: the skill, and whether it succeeded
  Nil,
  Absent,      \* no file
  Torn,        \* a file that is not (yet) JSON
  MaxCalls,    \* bound: calls one agent process serves
  MaxFaults    \* bound: failures and interruptions

VARIABLES
  file,      \* the identity file
  tokens,    \* minted tokens, by id: the key pair and who sent the mint
  sent,      \* mint transactions not mined yet
  rep,       \* the calls each agent process has attested, a chain of its own each
  records,   \* text records of the ENS name
  pool,      \* record transactions not mined yet
  proc,      \* what each command is doing
  mishaps,   \* history: what happened that can leave things inconsistent
  faults

lineVars == <<file, tokens, sent, rep, records, pool, proc, mishaps, faults>>

Ids == [pub : Procs, ens : Names, token : Nat]      \* token 0: none yet
Whole == file \notin {Absent, Torn}

(* ENS_RECORD_KEYS, as far as publish writes them, in that order.          *)
Keys == <<"card", "pubkey", "tokenId", "repHead">>
KeySet == {Keys[i] : i \in DOMAIN Keys}
Used == KeySet \ {"pubkey"}    \* by the directory
Heads == [of : Procs, n : Nat]     \* the n-th blob of a chain
Cards == [pub : Procs, token : Nat, head : Heads \cup {Nil}]

ASSUME CommandLineAssumption ==
  /\ Nil \notin Procs \cup Names \cup Nat \cup Cards
  /\ Attested \subseteq [skill : Skills, ok : BOOLEAN]
  /\ Absent # Torn
  /\ {Nil, Absent, Torn} \cap Ids = {}
  /\ MaxCalls \in Nat /\ MaxFaults \in Nat

\* "show" is whoami, call, snapshot or state-history: here they only read.
Commands == {"mint", "publish", "agent", "show", "directory"}
\* Where each command goes on once it has its identity.
Work == [mint |-> "minting", publish |-> "publishing", agent |-> "serving", show |-> "done"]
Creates(cmd) == cmd \in {"mint", "agent"}     \* the others pass ensName = null
EnsName(cmd) == IF Creates(cmd) THEN Names ELSE {Nil}

Idle == [at |-> "idle", cmd |-> Nil, ens |-> Nil, id |-> Nil, card |-> Nil, next |-> 1,
         got |-> [k \in Used |-> Nil], seen |-> {}]

LineInit ==
  /\ file = Absent
  /\ tokens = <<>>
  /\ sent = {}
  /\ rep = [p \in Procs |-> <<>>]
  /\ records = [k \in KeySet |-> Nil]
  /\ pool = <<>>
  /\ proc = [p \in Procs |-> Idle]
  /\ mishaps = {}
  /\ faults = 0

-----------------------------------------------------------------------------
At(p, s) == proc[p].at = s
Goto(p, s) == proc' = [proc EXCEPT ![p].at = s]
Fault == faults < MaxFaults /\ faults' = faults + 1
Note(m) == mishaps' = mishaps \cup {m}
Holds(p, i) == proc' = [proc EXCEPT ![p].id = i, ![p].at = Work[proc[p].cmd]]

Running(cmd) == \E p \in Procs : proc[p].cmd = cmd /\ proc[p].at \notin {"done", "failed"}

Overlap == [mint |-> "twoMints", publish |-> "twoPublishes"]

Start(p) ==
  /\ At(p, "idle")
  /\ \E cmd \in Commands \ {"directory"} : \E n \in EnsName(cmd) :
       /\ proc' = [proc EXCEPT ![p].cmd = cmd, ![p].ens = n, ![p].at = "loading"]
       /\ IF cmd \in DOMAIN Overlap /\ Running(cmd) THEN Note(Overlap[cmd]) ELSE UNCHANGED mishaps
  /\ UNCHANGED <<file, tokens, sent, rep, records, pool, faults>>

(* loadOrCreate: the file is there and is for this name, ...               *)
Load(p) ==
  /\ At(p, "loading") /\ Whole
  /\ Creates(proc[p].cmd) => file.ens = proc[p].ens
  /\ IF proc[p].cmd = "publish" /\ file.token = 0 THEN Goto(p, "failed")
                                                  ELSE Holds(p, file)
  /\ IF proc[p].cmd = "agent" /\ file.token = 0 THEN Note("early") ELSE UNCHANGED mishaps
  /\ UNCHANGED <<file, tokens, sent, rep, records, pool, faults>>

(* ... or it is not, and the command has a name for a new one, ...         *)
LoadNothing(p) ==
  /\ At(p, "loading") /\ file = Absent
  /\ Goto(p, IF Creates(proc[p].cmd) THEN "creating" ELSE "failed")
  /\ UNCHANGED <<file, tokens, sent, rep, records, pool, mishaps, faults>>

(* ... or it is for another name, or is no JSON: every command refuses.    *)
LoadRefused(p) ==
  /\ At(p, "loading")
  /\ \/ file = Torn
     \/ Whole /\ Creates(proc[p].cmd) /\ file.ens # proc[p].ens
  /\ Goto(p, "failed")
  /\ UNCHANGED <<file, tokens, sent, rep, records, pool, mishaps, faults>>

(* Mutation: the "wx" flag is missing.                                     *)
CreateFileOver(p) ==
  /\ At(p, "creating")
  /\ file' = Torn /\ Goto(p, "filling")
  /\ UNCHANGED <<tokens, sent, rep, records, pool, mishaps, faults>>

(* writeFile with flag "wx": fails if the file appeared since the read.    *)
CreateFile(p) ==
  /\ At(p, "creating")
  /\ IF file = Absent THEN file' = Torn /\ Goto(p, "filling")
                      ELSE Goto(p, "failed") /\ UNCHANGED file
  /\ UNCHANGED <<tokens, sent, rep, records, pool, mishaps, faults>>

FillFile(p) ==
  LET fresh == [pub |-> p, ens |-> proc[p].ens, token |-> 0] IN
  /\ At(p, "filling")
  /\ file' = fresh
  /\ Holds(p, fresh)
  /\ IF proc[p].cmd = "agent" THEN Note("early") ELSE UNCHANGED mishaps
  /\ UNCHANGED <<tokens, sent, rep, records, pool, faults>>

-----------------------------------------------------------------------------
(* mint                                                                    *)

(* Whether the identity has a token already is not asked.                  *)
SendMint(p) ==
  /\ At(p, "minting")
  /\ sent' = sent \cup {p}
  /\ Goto(p, "waiting")
  /\ IF proc[p].id.token # 0 THEN Note("again") ELSE UNCHANGED mishaps
  /\ UNCHANGED <<file, tokens, rep, records, pool, faults>>

MineMint(p) ==
  /\ p \in sent
  /\ sent' = sent \ {p}
  /\ tokens' = Append(tokens, [pub |-> proc[p].id.pub, by |-> p])
  /\ UNCHANGED <<file, rep, records, pool, proc, mishaps, faults>>

(* The token id in the Transfer event of its own receipt.                  *)
GetReceipt(p) ==
  /\ At(p, "waiting") /\ p \notin sent
  /\ \E i \in DOMAIN tokens :
       /\ tokens[i].by = p
       /\ proc' = [proc EXCEPT ![p].id.token = i, ![p].at = "saving"]
  /\ UNCHANGED <<file, tokens, sent, rep, records, pool, mishaps, faults>>

(* The transaction is refused, or its receipt does not come.               *)
MintFails(p) ==
  /\ At(p, "minting") \/ At(p, "waiting")
  /\ Fault
  /\ Note("halfway")
  /\ Goto(p, "failed")
  /\ UNCHANGED <<file, tokens, sent, rep, records, pool>>

(* Mutation: the write is not awaited, and the process exits.              *)
TruncateUnawaited(p) ==
  /\ At(p, "saving")
  /\ file' = Torn /\ Goto(p, "done")
  /\ UNCHANGED <<tokens, sent, rep, records, pool, mishaps, faults>>

(* saveIdentity: writeFile truncates the file ...                          *)
TruncateFile(p) ==
  /\ At(p, "saving")
  /\ file' = Torn /\ Goto(p, "rewriting")
  /\ UNCHANGED <<tokens, sent, rep, records, pool, mishaps, faults>>

(* ... and writes the identity that was loaded, with the token.  Over the  *)
(* content of another writer that has filled it meanwhile, a shorter text  *)
(* leaves the other's tail.                                                *)
RewriteFile(p) ==
  /\ At(p, "rewriting")
  /\ file' \in {proc[p].id} \cup (IF Whole THEN {Torn} ELSE {})
  /\ Goto(p, "done")
  /\ UNCHANGED <<tokens, sent, rep, records, pool, mishaps, faults>>

-----------------------------------------------------------------------------
(* publish                                                                 *)

(* Mutation: the token is left in the card only.                           *)
BundleTokenless(card) ==
  [k \in KeySet |-> CASE k = "card" -> card
                      [] k = "pubkey" -> card.pub
                      [] k = "tokenId" -> Nil
                      [] k = "repHead" -> card.head]

(* buildAgentCard and bundleFromCard, with a --rep-head the user has at    *)
(* hand, or none.                                                          *)
Bundle(card) ==
  [k \in KeySet |-> CASE k = "card" -> card
                      [] k = "pubkey" -> card.pub
                      [] k = "tokenId" -> card.token
                      [] k = "repHead" -> card.head]

BuildCard(p) ==
  /\ At(p, "publishing") /\ proc[p].card = Nil
  /\ \E h \in {Nil} \cup {[of |-> q, n |-> Len(rep[q])] : q \in {q \in Procs : rep[q] # <<>>}} :
       proc' = [proc EXCEPT ![p].card =
                  [pub |-> proc[p].id.pub, token |-> proc[p].id.token, head |-> h]]
  /\ UNCHANGED <<file, tokens, sent, rep, records, pool, mishaps, faults>>

(* publishBundle: one transaction per record, without waiting for them.    *)
SendRecord(p) ==
  LET c == proc[p]
      val == Bundle(c.card)[Keys[c.next]] IN
  /\ At(p, "publishing") /\ c.card # Nil
  /\ pool' = IF val = Nil THEN pool ELSE Append(pool, [key |-> Keys[c.next], val |-> val])
  /\ proc' = [proc EXCEPT ![p].next = @ + 1,
                          ![p].at = IF c.next = Len(Keys) THEN "done" ELSE @]
  /\ UNCHANGED <<file, tokens, sent, rep, records, mishaps, faults>>

PublishFails(p) ==
  /\ At(p, "publishing") /\ proc[p].card # Nil
  /\ Fault
  /\ Note("halfway")
  /\ Goto(p, "failed")
  /\ UNCHANGED <<file, tokens, sent, rep, records, pool>>

MineRecord ==
  /\ pool # <<>>
  /\ records' = [records EXCEPT ![Head(pool).key] = Head(pool).val]
  /\ pool' = Tail(pool)
  /\ IF \E p \in Procs : At(p, "reading") THEN Note("mixed") ELSE UNCHANGED mishaps
  /\ UNCHANGED <<file, tokens, sent, rep, proc, faults>>

-----------------------------------------------------------------------------
(* The agent process attests every call on a chain that begins with it.    *)

Serve(p) ==
  /\ At(p, "serving") /\ Len(rep[p]) < MaxCalls
  /\ \E a \in Attested : rep' = [rep EXCEPT ![p] = Append(@, a)]
  /\ UNCHANGED <<file, tokens, sent, records, pool, proc, mishaps, faults>>

StopAgent(p) ==
  /\ At(p, "serving")
  /\ Goto(p, "done")
  /\ UNCHANGED <<file, tokens, sent, rep, records, pool, mishaps, faults>>

(* Interrupted between the opening and the filling of the file, a process  *)
(* leaves it torn.                                                         *)
Interrupt(p) ==
  /\ proc[p].at \in {"filling", "waiting", "saving", "rewriting", "publishing"}
  /\ Fault
  /\ Note(IF proc[p].at \in {"filling", "rewriting"} THEN "torn" ELSE "halfway")
  /\ Goto(p, "failed")
  /\ UNCHANGED <<file, tokens, sent, rep, records, pool>>

LineNext ==
  \/ \E p \in Procs :
       \/ Start(p) \/ Load(p) \/ LoadNothing(p) \/ LoadRefused(p)
       \/ CreateFile(p) \/ FillFile(p)
       \/ SendMint(p) \/ MineMint(p) \/ GetReceipt(p) \/ MintFails(p)
       \/ TruncateFile(p) \/ RewriteFile(p)
       \/ BuildCard(p) \/ SendRecord(p) \/ PublishFails(p)
       \/ Serve(p) \/ StopAgent(p) \/ Interrupt(p)
  \/ MineRecord

LineTypeOK ==
  /\ file \in Ids \cup {Absent, Torn}
  /\ tokens \in Seq([pub : Procs, by : Procs])
  /\ sent \subseteq Procs
  /\ rep \in [Procs -> Seq(Attested)]
  /\ \A p \in Procs : Len(rep[p]) <= MaxCalls
  /\ DOMAIN records = KeySet
  /\ \A p \in Procs : /\ proc[p].id \in Ids \cup {Nil}
                      /\ proc[p].card \in Cards \cup {Nil}
                      /\ proc[p].next \in 1..(Len(Keys) + 1)
  /\ faults \in 0..MaxFaults
=============================================================================
