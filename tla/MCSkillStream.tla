--------------------------- MODULE MCSkillStream ---------------------------
(* Two chunks are enough for a gap, an exchange and a tail; two faults     *)
(* for a repeat of a message that was itself delayed or overtaken, or for  *)
(* one beside a broken connection.  Two presses of the button let one call *)
(* be refused by the limit of one, or follow another.                      *)
EXTENDS CallPanel
=============================================================================
