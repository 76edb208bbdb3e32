----------------------------- MODULE SingleUse -----------------------------
(***************************************************************************)
(* What a login challenge promises the routes that rely on it: whatever is *)
(* presented, in whatever order and by however many server processes at    *)
(* once, a challenge authorizes one request and then never another.        *)
(***************************************************************************)
CONSTANTS
  Challenges,
  Requesters

VARIABLE granted   \* <<c, r>>: challenge c has authorized request r

Init == granted = {}

Authorize(c, r) ==
  /\ \A q \in Requesters : <<c, q>> \notin granted
  /\ granted' = granted \cup {<<c, r>>}

Next == \E c \in Challenges, r \in Requesters : Authorize(c, r)

Spec == Init /\ [][Next]_granted
=============================================================================
