--------------------------- MODULE AppendOnlyLog ---------------------------
(***************************************************************************)
(* What a reputation chain and a memory-snapshot chain promise to their    *)
(* readers: the history behind the head grows at its end, by one accepted  *)
(* entry at a time, and nothing that was ever read from it changes, moves  *)
(* or disappears.                                                          *)
(***************************************************************************)
EXTENDS Sequences

CONSTANT Entries   \* the entries that may be appended, each at most once

VARIABLE log       \* the history, oldest first

Init == log = <<>>

Accept(e) ==
  /\ \A i \in DOMAIN log : log[i] # e
  /\ log' = Append(log, e)

Next == \E e \in Entries : Accept(e)

Spec == Init /\ [][Next]_log
=============================================================================
