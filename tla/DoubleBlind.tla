----------------------------- MODULE DoubleBlind ----------------------------
(***************************************************************************)
(* What the two parties of a booking are promised of their reviews,        *)
(* without handlers, jobs or deaths: a review is sealed when it is         *)
(* written; seals are broken for the whole booking at once, when both      *)
(* have written or the days for it are over; and what was written is never *)
(* unwritten nor written again.                                            *)
(*                                                                         *)
(* An administrator seals a review again.  The program keeps no other      *)
(* record of it, so the next Open shows that review too.                   *)
(***************************************************************************)

CONSTANTS Bookings, Roles

VARIABLES
    review,   \* of each booking and role: "none", "hidden" or "visible"
    over      \* bookings for which the days to write are over

Reviews == Bookings \X Roles

Complete(b) == \A role \in Roles : review[<<b, role>>] # "none"

Init == review = [id \in Reviews |-> "none"] /\ over = {}

Write(id) ==
    /\ review[id] = "none"
    /\ review' = [review EXCEPT ![id] = "hidden"]
    /\ UNCHANGED over

\* Both sides of each booking, in one step.
Open(which) ==
    /\ \A b \in which : Complete(b) \/ b \in over
    /\ review' = [id \in Reviews |->
           IF id[1] \in which /\ review[id] # "none" THEN "visible" ELSE review[id]]
    /\ UNCHANGED over

Remove(id) ==
    /\ review[id] # "none"
    /\ review' = [review EXCEPT ![id] = "hidden"]
    /\ UNCHANGED over

DaysEnd(b) ==
    /\ over' = over \cup {b}
    /\ UNCHANGED review

Next ==
    \/ \E which \in SUBSET Bookings : Open(which)
    \/ \E id \in Reviews : Write(id) \/ Remove(id)
    \/ \E b \in Bookings : DaysEnd(b)

Spec == Init /\ [][Next]_<<review, over>>
=============================================================================
