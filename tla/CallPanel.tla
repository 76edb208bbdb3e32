------------------------------ MODULE CallPanel ------------------------------
(***************************************************************************)
(* A call from the web page: the form of call-panel.tsx, the route         *)
(* POST /api/call with its rate limit and input checks, the steps that     *)
(* callAgentSkill and callAgentSkillStream take around the dispatch, and   *)
(* the reader that turns the SSE frames back into what the page shows.     *)
(*                                                                         *)
(* The stretch between dispatch and final event of a streaming call is     *)
(* SkillStream, composed here: its page is what the generator has yielded  *)
(* to the route.  An instance makes one streaming call, beside calls       *)
(* answered in one piece and calls that are refused.                       *)
(***************************************************************************)
EXTENDS SkillStream, FiniteSets

CONSTANTS
  Skills,    \* the skills of the agent's card
  Limit,     \* calls of one address in a window (10 in the code)
  MaxCalls,  \* bound: times the button is pressed
  Nil

ASSUME PanelAssumption ==
  Limit \in Nat /\ MaxCalls \in Nat /\ Skills # {} /\ Nil \notin Skills

VARIABLES
  skill, stream,     \* the form: selected skill, mode.stream
  running,           \* a call is under way and the form is disabled
  text, traceShown,  \* streamText, streamTrace
  result, notice,    \* result, error
  calls,             \* times the button was pressed
  hits,              \* count in the address's bucket
  request,           \* what was fired last
  stage,             \* where the handler of the request is
  trace,             \* the server's trace of the call
  wire,              \* frames and answers on their way to the page
  conn               \* the response: "none", "open", "ended", or "cut"

form    == <<skill, stream>>
shown   == <<text, traceShown, result, notice>>
handler == <<hits, stage, trace>>
link    == <<wire, conn>>
talk    == vars
panelVars == <<form, running, shown, calls, handler, request, link, talk>>

Before == <<"resolve-ens", "verify-identity", "boot-callee", "build-request">>
After  == <<"dispatch + sign", "compute-result", "verify-response-sig", "tee-attest",
            "rep-attestation">>

(* skills[0] of the card.                                                  *)
First == CHOOSE s \in Skills : TRUE

PanelInit ==
  /\ Init
  /\ skill = First /\ stream = FALSE /\ running = FALSE
  /\ text = <<>> /\ traceShown = <<>> /\ result = Nil /\ notice = FALSE
  /\ calls = 0 /\ hits = 0 /\ request = Nil
  /\ stage = "idle" /\ trace = <<>> /\ wire = <<>> /\ conn = "none"

-----------------------------------------------------------------------------
(* The form: onSkillChange, the toggle, and the first half of fire().      *)
Cleared == text' = <<>> /\ traceShown' = <<>> /\ result' = Nil /\ notice' = FALSE

(* Skill, input and modes can be changed while no call is under way.       *)
FormEnabled == ~running

Choose(s) ==
  /\ FormEnabled
  /\ skill' = s /\ Cleared
  /\ UNCHANGED <<stream, running, calls, handler, request, link, talk>>

ToggleStream ==
  /\ FormEnabled
  /\ stream' = ~stream
  /\ UNCHANGED <<skill, running, shown, calls, handler, request, link, talk>>

(* The button: disabled while a call is under way.                         *)
Button == ~running /\ calls < MaxCalls

(* The input is not JSON: nothing is sent.                                 *)
FireInvalid ==
  /\ Button
  /\ calls' = calls + 1
  /\ text' = <<>> /\ traceShown' = <<>> /\ result' = Nil /\ notice' = TRUE
  /\ UNCHANGED <<form, running, handler, request, link, talk>>

(* After a broken connection an instance waits for the handler behind it   *)
(* before the next call: two handlers would share the bucket only.         *)
Fire ==
  /\ Button
  /\ stage = "idle"
  /\ stream => relay # "closed"
  /\ calls' = calls + 1
  /\ Cleared /\ running' = TRUE
  /\ request' = [skill |-> skill, stream |-> stream]
  /\ stage' = "route" /\ trace' = <<>> /\ wire' = <<>> /\ conn' = "open"
  /\ UNCHANGED <<form, hits, talk>>

-----------------------------------------------------------------------------
(* The route.  A bucket that is collected has expired, and an expired      *)
(* bucket counts as none: the table is the counts of its live buckets, and *)
(* this address's may have expired since its last request.                 *)
Refused == [kind |-> "refused"]
Answer(ok) == [kind |-> "final", ok |-> ok, skill |-> request.skill,
               stream |-> request.stream, trace |-> trace]

Refuse ==
  /\ stage' = "idle" /\ trace' = trace
  /\ wire' = Append(wire, Refused) /\ conn' = "ended"

RateLimit == \E count \in {0, hits} : hits' = count + 1

(* 429, or 400: the body, the name, the skill or the input is unacceptable.*)
Gate ==
  /\ stage = "route"
  /\ RateLimit
  /\ \/ Refuse
     \/ /\ hits' <= Limit
        /\ stage' = Before[1] /\ trace' = trace /\ UNCHANGED link
  /\ UNCHANGED <<form, running, shown, calls, request, talk>>

(* tick(): the step joins the trace and, in a streaming call, is yielded.  *)
(* The route's enqueue throws once the connection is gone.                 *)
Sent(frames) == wire' = IF conn = "open" THEN wire \o frames ELSE wire

(* Mutation: the step joins the trace but is not yielded.                  *)
TickSilent(step) == trace' = Append(trace, step) /\ Sent(<<>>)

Tick(step) ==
  /\ trace' = Append(trace, step)
  /\ Sent(IF request.stream THEN <<[kind |-> "trace", step |-> step]>> ELSE <<>>)

Broken == conn = "cut" /\ request.stream

(* verifyIdentity: the name's address resolves back to another name, or    *)
(* its key record or its card names another key; a card that cannot be     *)
(* read is an error as well, but no mismatch, and the call goes on.        *)
VerifyIdentity == {"null", "mismatch", "unreadable"}
IsHardFail(verdict) == verdict = "mismatch"

Prepare ==
  \E i \in DOMAIN Before, verdict \in VerifyIdentity :
    /\ stage = Before[i] /\ ~Broken
    /\ stage = "verify-identity" => ~IsHardFail(verdict)
    /\ Tick(Before[i])
    /\ stage' = IF i < Len(Before) THEN Before[i + 1] ELSE "dispatch"
    /\ UNCHANGED <<form, running, shown, calls, hits, request, conn, talk>>

(* The records are missing, or the key of the server's identity is not the *)
(* recorded one.                                                           *)
Rejects(verdict) ==
  \/ stage \in {"resolve-ens", "boot-callee"}
  \/ stage = "verify-identity" /\ IsHardFail(verdict)

(* A failed step, or an exception, then finish(false).                     *)
PrepareFails ==
  /\ stage \in {Before[i] : i \in DOMAIN Before} /\ ~Broken
  /\ \/ \E verdict \in VerifyIdentity : Rejects(verdict) /\ Tick(stage)
     \/ Tick("error")
  /\ stage' = "finish"
  /\ UNCHANGED <<form, running, shown, calls, hits, request, conn, talk>>

(* callSkill of a call that is answered in one piece.                      *)
Dispatch ==
  /\ stage = "dispatch" /\ ~request.stream
  /\ \/ stage' = After[1] /\ UNCHANGED trace
     \/ stage' = "finish" /\ trace' = Append(trace, "error")
  /\ UNCHANGED <<form, running, shown, calls, hits, request, link, talk>>

(* The generator has left its loop: trace steps of an answer, or `error`.  *)
Resume ==
  /\ stage = "dispatch" /\ request.stream /\ ~Broken
  /\ relay = "final"
  /\ \/ caller = "ok" /\ stage' = After[1] /\ UNCHANGED <<trace, wire>>
     \/ caller = "error" /\ Tick("error") /\ stage' = "finish"
  /\ UNCHANGED <<form, running, shown, calls, hits, request, conn, talk>>

(* A call outside the enclave, or one without an attestation, has no       *)
(* tee-attest step.                                                        *)
Report ==
  \E i \in DOMAIN After :
    /\ stage = After[i] /\ ~Broken
    /\ Tick(After[i]) \/ (stage = "tee-attest" /\ UNCHANGED <<trace, wire>>)
    /\ stage' = IF i < Len(After) THEN After[i + 1] ELSE "finish"
    /\ UNCHANGED <<form, running, shown, calls, hits, request, conn, talk>>

Succeeded == After[Len(After)] = trace[Len(trace)]

(* The final event or the JSON answer, and the end of the response.        *)
Finishes ==
  /\ stage = "finish" /\ ~Broken
  /\ trace' = trace
  /\ Sent(<<Answer(Succeeded)>>)
  /\ stage' = "idle"
  /\ conn' = IF conn = "open" THEN "ended" ELSE conn
  /\ IF relay = "final" /\ request.stream THEN Finish ELSE UNCHANGED talk
  /\ UNCHANGED <<form, running, shown, calls, hits, request>>

(* enqueue throws: `for await` closes the generator wherever it is.        *)
Abandon ==
  /\ stage \notin {"idle", "route"} /\ Broken
  /\ IF stage = "dispatch" \/ relay = "final"
       THEN Disconnect ELSE UNCHANGED talk
  /\ stage' = "idle"
  /\ UNCHANGED <<form, running, shown, calls, hits, trace, request, link>>

-----------------------------------------------------------------------------
(* The stream itself, once dispatched.  What goes on behind a response     *)
(* that has ended reaches nobody and is not followed.                      *)
Dispatched == stage = "dispatch" /\ request.stream

Talk(A) ==
  /\ Dispatched
  /\ A
  /\ UNCHANGED <<form, running, shown, calls, handler, request, link>>

PullNext == ~Broken /\ Talk(Pull)

YieldChunk ==
  /\ Dispatched
  /\ Yield
  /\ Sent(<<[kind |-> "chunk", seq |-> Head(buffer)]>>)
  /\ UNCHANGED <<form, running, shown, calls, handler, request, conn>>

-----------------------------------------------------------------------------
(* The reader: a frame at a time; a read that ends inside a frame leaves   *)
(* its first part in `buf` and shows nothing.                              *)
Frame == Head(wire)

ShowTrace ==
  /\ Frame.kind = "trace"
  /\ traceShown' = Append(traceShown, Frame.step)
  /\ UNCHANGED <<text, result, notice>>

ShowChunk ==
  /\ Frame.kind = "chunk"
  /\ text' = Append(text, Frame.seq)
  /\ UNCHANGED <<traceShown, result, notice>>

ShowFinal ==
  /\ Frame.kind = "final"
  /\ result' = Frame /\ notice' = ~Frame.ok
  /\ UNCHANGED <<text, traceShown>>

ShowRefusal ==
  /\ Frame.kind = "refused"
  /\ notice' = TRUE
  /\ UNCHANGED <<text, traceShown, result>>

Read ==
  /\ running /\ wire # <<>>
  /\ ShowTrace \/ ShowChunk \/ ShowFinal \/ ShowRefusal
  /\ wire' = Tail(wire)
  /\ UNCHANGED <<form, running, calls, handler, request, conn, talk>>

ReadEnd ==
  /\ running /\ wire = <<>> /\ conn = "ended"
  /\ running' = FALSE /\ conn' = "none"
  /\ UNCHANGED <<form, shown, calls, handler, request, wire, talk>>

(* fetch or read() rejects: the connection broke.                          *)
ReadFails ==
  /\ running /\ conn = "open"
  /\ Fault
  /\ running' = FALSE /\ notice' = TRUE
  /\ conn' = "cut" /\ wire' = <<>>
  /\ UNCHANGED <<form, text, traceShown, result, calls, handler, request,
                 responder, emitted, inbox, mishap, server, page, pageEnd>>

-----------------------------------------------------------------------------
Typing == (\E s \in Skills : Choose(s)) \/ ToggleStream \/ FireInvalid \/ Fire

Serving == Gate \/ Prepare \/ Dispatch \/ Resume \/ Report \/ Finishes \/ Abandon

PanelNext ==
  \/ Typing
  \/ Serving \/ PrepareFails
  \/ Talk(EmitChunk) \/ (\E kind \in {"ok", "error"} : Talk(Reply(kind)))
  \/ Talk(Receive) \/ Talk(Timeout) \/ Talk(Settle)
  \/ YieldChunk \/ Talk(Sleep) \/ Talk(Leave) \/ PullNext
  \/ Talk(Faulty)
  \/ Read \/ ReadEnd \/ ReadFails

(* The handler, its promises and its timers run, and the browser reads.    *)
PanelFairness ==
  /\ WF_panelVars(Serving)
  /\ WF_panelVars(Talk(Timeout)) /\ WF_panelVars(Talk(Settle))
  /\ WF_panelVars(YieldChunk) /\ WF_panelVars(Talk(Sleep))
  /\ WF_panelVars(Talk(Leave)) /\ WF_panelVars(PullNext)
  /\ WF_panelVars(Read) /\ WF_panelVars(ReadEnd)

PanelSpec == PanelInit /\ [][PanelNext]_panelVars /\ PanelFairness

-----------------------------------------------------------------------------
PanelTypeOK ==
  /\ TypeOK
  /\ skill \in Skills /\ {stream, running, notice} \subseteq BOOLEAN
  /\ calls \in 0 .. MaxCalls /\ hits \in 0 .. MaxCalls
  /\ request \in {Nil} \union [skill : Skills, stream : BOOLEAN]
  /\ stage \in {"idle", "route", "dispatch", "finish"}
                \union {Before[i] : i \in DOMAIN Before}
                \union {After[i] : i \in DOMAIN After}
  /\ conn \in {"none", "open", "ended", "cut"}

Chunks(frames) == {i \in DOMAIN frames : frames[i].kind = "chunk"}

(* The trace on the page: the streamed one until a result brings its own.  *)
TraceOnPage == IF result = Nil THEN traceShown ELSE result.trace

(* The live stream, and the panels of a result: only of a good one.        *)
StreamOnPage == text
ResultOnPage == IF result # Nil /\ result.ok THEN result ELSE Nil

(* What the page shows is one call: the result is of the selected skill;   *)
(* of a streaming call the text is every chunk the route was given, the    *)
(* trace shown so far is the one in the result, and success is claimed     *)
(* only of a stream that ended so; while chunks are on their way the text  *)
(* is those before them (call-panel.tsx:56-145, call-server.ts:335-523).   *)
ShowsOneCall ==
  /\ result # Nil =>
       /\ result.skill = skill
       /\ result.stream => /\ StreamOnPage = page /\ TraceOnPage = traceShown
                          /\ ResultOnPage # Nil <=> pageEnd = "ok"
  /\ running /\ request.stream =>
       /\ Len(text) + Cardinality(Chunks(wire)) = Len(page)
       /\ \A i \in DOMAIN StreamOnPage : StreamOnPage[i] = page[i]

(* Every call fired from the page ends, and with something to see: no      *)
(* wake-up of the generator is lost, the deadline ends a silent call, and  *)
(* a broken connection is reported (call-server.ts:407-455,                *)
(* call-panel.tsx:101-144).                                                *)
CallsEnd == running ~> (~running /\ (result # Nil \/ notice))
=============================================================================
