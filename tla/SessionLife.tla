---------------------------- MODULE SessionLife -----------------------------
(***************************************************************************)
(* What a session promises its owner: it is opened once, ends once, and    *)
(* whoever holds a token of an ended session has no access, ever.  Sessions *)
(* implements it.                                                          *)
(***************************************************************************)

CONSTANT Families   \* the sessions

VARIABLES
    life,    \* "new", "open" or "ended"
    access   \* sessions whose access token is accepted

Open == {f \in Families : life[f] = "open"}

Init ==
    /\ life = [f \in Families |-> "new"]
    /\ access = {}

\* One transaction may begin some sessions and end others; a session takes its
\* steps in one direction, and access never outlives it.
Next ==
    /\ life' \in [Families -> {"new", "open", "ended"}]
    /\ \A f \in Families :
          \/ life'[f] = life[f]
          \/ life[f] = "new" /\ life'[f] = "open"
          \/ life[f] = "open" /\ life'[f] = "ended"
    /\ access' \subseteq Open'

Spec == Init /\ [][Next]_<<life, access>>
=============================================================================
