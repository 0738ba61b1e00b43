----------------------------- MODULE Settlement -----------------------------
(***************************************************************************)
(* What a payment comes to, without handlers, transactions, stale reads or *)
(* deaths: its provider is asked once; it is confirmed in the step that    *)
(* grants the purchase; only an online provider that was asked disputes or *)
(* ends it; and what waits is let go, unless the buyer has reported a      *)
(* transfer.                                                               *)
(*                                                                         *)
(* A word may fall on another, the later one stands: two may decide at     *)
(* once, and the answer to the question may come after the decision.  What *)
(* was granted stays granted, and nobody is told of a grant before it.     *)
(***************************************************************************)

CONSTANT Payments

VARIABLES
    word,       \* the status of each payment
    manual,     \* those without an online provider
    reported,   \* those whose buyer says that he has paid
    asked,      \* those whose provider has issued an intent
    granted, told

Undecided == {"pending", "awaiting_provider"}

Init ==
    /\ word = [p \in Payments |-> "none"]
    /\ manual = {} /\ reported = {} /\ asked = {}
    /\ granted = {} /\ told = {}

Says(p, s) == word' = [word EXCEPT ![p] = s]

Open(p) ==
    /\ word[p] = "none"
    /\ Says(p, "pending")
    /\ manual' \in {manual, manual \cup {p}}
    /\ reported' \in {reported, reported \cup {p}}
    /\ UNCHANGED <<asked, granted, told>>

Ask(p) ==
    /\ word[p] # "none" /\ p \notin asked
    /\ Says(p, "awaiting_provider")
    /\ asked' = asked \cup {p}
    /\ UNCHANGED <<manual, reported, granted, told>>

Report(p) ==
    /\ word[p] \in Undecided
    /\ reported' = reported \cup {p}
    /\ UNCHANGED <<word, manual, asked, granted, told>>

Confirm(p) ==
    /\ word[p] # "none"
    /\ Says(p, "confirmed")
    /\ granted' = granted \cup {p}
    /\ UNCHANGED <<manual, reported, asked, told>>

Reject(p) ==
    /\ word[p] # "none"
    /\ Says(p, "rejected")
    /\ UNCHANGED <<manual, reported, asked, granted, told>>

\* The word of an online provider that was asked.
Object(p, s) ==
    /\ p \in asked \ manual
    /\ Says(p, s)
    /\ UNCHANGED <<manual, reported, asked, granted, told>>

LetGo(which) ==
    /\ \A p \in which : word[p] = "awaiting_provider" /\ p \notin manual \cap reported
    /\ word' = [p \in Payments |-> IF p \in which THEN "expired" ELSE word[p]]
    /\ UNCHANGED <<manual, reported, asked, granted, told>>

Tell(p, s) ==
    /\ \/ s = "confirmed" /\ p \in granted
       \/ s = "rejected"  /\ word[p] # "none"
       \/ s = "disputed"  /\ p \in asked \ manual
    /\ told' = told \cup {<<p, s>>}
    /\ UNCHANGED <<word, manual, reported, asked, granted>>

Next ==
    \/ \E p \in Payments :
          \/ Open(p) \/ Ask(p) \/ Report(p) \/ Confirm(p) \/ Reject(p)
          \/ \E s \in {"disputed", "expired"} : Object(p, s)
          \/ \E s \in {"confirmed", "rejected", "disputed"} : Tell(p, s)
    \/ \E which \in SUBSET Payments : LetGo(which)

Spec == Init /\ [][Next]_<<word, manual, reported, asked, granted, told>>
=============================================================================
