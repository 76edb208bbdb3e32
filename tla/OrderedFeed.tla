---------------------------- MODULE OrderedFeed ----------------------------
(***************************************************************************)
(* What a page that watches a streaming call may see: the chunks of the    *)
(* answer from the first on, each once and in order, then one outcome and  *)
(* nothing after it.                                                       *)
(***************************************************************************)
EXTENDS Naturals, Sequences

CONSTANT Outcomes

VARIABLES
  seen,      \* sequence numbers of the chunks shown so far
  outcome    \* "open", or how the stream ended

Init == seen = <<>> /\ outcome = "open"

Show ==
  /\ outcome = "open"
  /\ seen' = Append(seen, Len(seen))
  /\ UNCHANGED outcome

Close ==
  /\ outcome = "open"
  /\ outcome' \in Outcomes
  /\ UNCHANGED seen

Next == Show \/ Close

Spec == Init /\ [][Next]_<<seen, outcome>>
=============================================================================
