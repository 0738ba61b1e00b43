------------------------------- MODULE MCTrust ------------------------------
(***************************************************************************)
(* What lets users trust one another: Reviews (with the bookings they are  *)
(* about) and Identity, which share no state, side by side.  A behaviour   *)
(* is of one `part`, chosen at the start, and the other rests.             *)
(***************************************************************************)
EXTENDS Reviews, MCIdentity

VARIABLE part   \* "reviews" or "identity"

trustVars == <<vars, identityVars, part>>

\* The booking has been proposed and accepted, and both parties know it: the
\* way there is checked with Bookings.
Accepted ==
    /\ booking = [b \in Bookings |-> "accepted"]
    /\ told = Bookings \X {"pending", "accepted"}
    /\ blocked = FALSE /\ past = FALSE
    /\ request = [r \in Requests |-> Idle]
    /\ deaths = 0

TrustInit ==
    /\ Accepted /\ ReviewInit
    /\ IdentityInit
    /\ part \in {"reviews", "identity"}

TrustNext ==
    \/ part = "reviews" /\ Next /\ UNCHANGED <<identityVars, part>>
    \/ part = "identity" /\ IdentityNext /\ UNCHANGED <<vars, part>>

\* Fairness of Reviews and IdentityFairness, each where its part is the one
\* that runs.
TrustFairness ==
    /\ \A b \in Bookings : WF_vars(part = "reviews" /\ WindowCloses(b))
    /\ WF_vars(part = "reviews" /\ UnlockSelect)
    /\ WF_vars(part = "reviews" /\ UnlockPublish)
    /\ WF_vars(part = "reviews" /\ UnlockRates)
    /\ WF_identityVars(part = "identity" /\ PruneStep)
    /\ WF_identityVars(part = "identity" /\ \E w \in Reviewers : ReviewCheck(w) \/ ReviewCommit(w))

TrustSpec == TrustInit /\ [][TrustNext]_trustVars /\ TrustFairness
=============================================================================
