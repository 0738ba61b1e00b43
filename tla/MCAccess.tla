------------------------------ MODULE MCAccess ------------------------------
(***************************************************************************)
(* What is paid for and what a pass lets its holder do: Subscriptions and  *)
(* Messaging, which share no state, side by side.  A behaviour is of one   *)
(* `part`, chosen at the start, and the other rests.                       *)
(***************************************************************************)
EXTENDS Subscriptions, Messaging, TLC

CONSTANTS u1, p1, p2

VARIABLE part   \* "subscriptions" or "messaging"

\* One buyer: a day pass, and a dated plan twice over.
OneBuyer   == [p \in Payments |-> u1]
DayMonth   == [p \in Payments |-> IF p = p1 THEN "day" ELSE "month"]
OneThenTwo == [p \in Payments |-> IF p = p2 THEN 2 ELSE 1]

\* Handlers of Messaging are interchangeable, and no other part names them.
Symmetry == Permutations(Handlers)

AccessInit == Init /\ MessagingInit /\ part \in {"subscriptions", "messaging"}

\* Conversations may come to rest, subscriptions never do.
AccessNext ==
    \/ part = "subscriptions" /\ Next /\ UNCHANGED <<messagingVars, part>>
    \/ part = "messaging" /\ MessagingNext /\ UNCHANGED <<vars, part>>
    \/ part = "messaging" /\ UNCHANGED <<vars, messagingVars, part>>

AccessSpec == AccessInit /\ [][AccessNext]_<<vars, messagingVars, part>>
=============================================================================
