----------------------------- MODULE Engagement -----------------------------
(***************************************************************************)
(* What a booking promises its two parties, without handlers, stale reads  *)
(* or deaths: a proposal is answered or called off, once; an accepted one  *)
(* is held or called off; nothing leaves an end; and a party is told of a  *)
(* change only while it still stands.                                      *)
(***************************************************************************)

CONSTANT Bookings

VARIABLES booking, told

Init == booking = [b \in Bookings |-> "none"] /\ told = {}

Turns(b, from, to) ==
    /\ booking[b] \in from
    /\ booking' = [booking EXCEPT ![b] = to]
    /\ UNCHANGED told

Propose(b) == Turns(b, {"none"}, "pending")
Accept(b)  == Turns(b, {"pending"}, "accepted")
Decline(b) == Turns(b, {"pending"}, "declined")
CallOff(b) == Turns(b, {"pending", "accepted"}, "cancelled")

\* The date is over: every engagement that was accepted is held.
Hold ==
    /\ booking' = [b \in Bookings |-> IF booking[b] = "accepted" THEN "completed" ELSE booking[b]]
    /\ UNCHANGED told

\* An answer may be told late: an acceptance after the engagement was called
\* off or held, a proposal after its answer.  An end is told while it lasts.
Tell(b, s) ==
    /\ \/ booking[b] = s
       \/ s = "accepted" /\ booking[b] \in {"cancelled", "completed"}
       \/ s = "pending" /\ booking[b] # "none"
    /\ told' = told \cup {<<b, s>>}
    /\ UNCHANGED booking

Next ==
    \/ \E b \in Bookings : Propose(b) \/ Accept(b) \/ Decline(b) \/ CallOff(b)
    \/ Hold
    \/ \E b \in Bookings, s \in {"pending", "accepted", "declined", "cancelled"} : Tell(b, s)

Spec == Init /\ [][Next]_<<booking, told>>
=============================================================================
