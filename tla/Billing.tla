------------------------------ MODULE Billing ------------------------------
(***************************************************************************)
(* Payments and Subscriptions as one system.  They meet in one place: the  *)
(* transaction in which reviewPayment or the webhook updates the payments  *)
(* row and calls mintForPayment with its own executor.  The transaction of *)
(* worker w is job[w] on the one side and tx[w] on the other; its first    *)
(* statement and its end are joint steps, and what it reads in between is  *)
(* a step of Subscriptions alone.                                          *)
(***************************************************************************)
EXTENDS Naturals, FiniteSets

CONSTANTS
    Users, Payments, Owner, Plan, Quantity, Providers,
    Workers,      \* concurrent reviews and callbacks
    Activators, Sweepers,
    MaxDeaths,    \* bound on the handlers that die half-way
    NoPayment, NoRow

VARIABLES
    payment, granted, job, poll, told, deaths,              \* Payments
    subs, older, tx, request, sweep, notices, crashes       \* Subscriptions

P == INSTANCE Payments
S == INSTANCE Subscriptions WITH Confirmers <- Workers, MaxCrashes <- MaxDeaths

pvars == <<payment, granted, job, poll, told, deaths>>
svars == <<subs, older, tx, request, sweep, notices, crashes>>
vars  == <<pvars, svars>>

ASSUME BillingAssumption ==
    P!ProviderAssumption /\ P!DeathAssumption
        /\ S!PurchaseAssumption /\ S!CrashAssumption

-----------------------------------------------------------------------------
Init == P!Init /\ S!Init

\* UPDATE payments ... inside the transaction, then mintForPayment's first read.
Begin(w) == P!BeginConfirm(w) /\ S!MintBegin(w, job[w].payment)

\* The reads of mintForPayment.
MintReads(w) ==
    /\ S!MintCheck(w) \/ S!MintReadActive(w) \/ S!MintReadQueued(w)
    /\ UNCHANGED pvars

\* (mutant: mintForPayment with its default executor, outside the transaction)
CommitMintOutside(w) ==
    /\ P!CommitConfirm(w) \/ P!RollBack(w)
    /\ S!MintSkip(w) \/ S!MintCredits(w) \/ S!MintBehind(w) \/ S!MintStart(w)

\* The inserts, if any, and the new status commit together.
Commit(w) ==
    /\ P!CommitConfirm(w)
    /\ S!MintSkip(w) \/ S!MintCredits(w) \/ S!MintBehind(w) \/ S!MintStart(w)

\* (mutant: the conflict is caught and the status committed)
ConflictCaught(w) == P!CommitConfirm(w) /\ S!MintConflict(w)

\* 23505 inside the transaction undoes the status as well, and the handler
\* throws: reviewPayment to the admin, process to the webhook controller.
Conflict(w) == P!RollBack(w) /\ S!MintConflict(w)

\* A worker that dies takes its transaction with it.
Dies(w) ==
    /\ P!JobDies(w)
    /\ IF job[w].pc = "tx" THEN S!TxDies(w) ELSE UNCHANGED svars

\* Everything else is one side's alone.
PaymentsAlone ==
    /\ \/ \E p \in Payments : P!BuyerStep(p) \/ P!Age(p)
       \/ \E w \in Workers : P!DecideStep(w) \/ P!WriteDecision(w) \/ P!Notify(w)
       \/ P!ReconcileStep \/ P!PollDies
    /\ UNCHANGED svars

SubscriptionsAlone ==
    /\ \/ \E a \in Activators : S!ActivateStep(a) \/ S!RequestDies(a)
       \/ \E s \in Sweepers : S!SweepStep(s) \/ S!SweepDies(s)
       \/ \E id \in DOMAIN subs : S!Lapse(id)
    /\ UNCHANGED pvars

Next ==
    \/ \E w \in Workers : Begin(w) \/ MintReads(w) \/ Commit(w) \/ Conflict(w) \/ Dies(w)
    \/ PaymentsAlone
    \/ SubscriptionsAlone

Spec == Init /\ [][Next]_vars

\* The maintenance cron keeps firing and a paid period ends.
Fairness ==
    /\ \A s \in Sweepers : WF_vars(S!SweepStep(s) /\ UNCHANGED pvars)
    /\ \A p \in Payments : \A n \in 1 .. Quantity[p] :
          WF_vars(<<p, n>> \in DOMAIN subs /\ S!Lapse(<<p, n>>) /\ UNCHANGED pvars)

FairSpec == Spec /\ Fairness

-----------------------------------------------------------------------------
\* Properties.

\* "Either both land or neither does": a payment that reads 'confirmed' has
\* exactly the rows it bought, whoever confirmed it and however often.
ConfirmedIsMinted ==
    \A p \in Payments :
        payment[p].status = "confirmed" => S!RowsOf(p) = S!Purchase(p)

\* And no rows exist for a payment that no committed confirmation granted.
MintedIsGranted ==
    \A p \in Payments : S!RowsOf(p) # {} <=> p \in granted

\* Neither side does in company what it would not do alone.
PaymentsSpec      == P!Spec
SubscriptionsSpec == S!Spec

\* Money taken becomes access: once a dated plan is confirmed each of its periods
\* runs in the end, however many are stacked before it and whoever dies.
ConfirmedEventuallyRuns ==
    \A p \in Payments : \A n \in 1 .. Quantity[p] :
        payment[p].status = "confirmed" /\ Plan[p] # "day"
            ~> S!Status(<<p, n>>) \in {"active", "expired"}

\* A buyer hears of every period that ended, alone or as a rollover, unless a
\* run died half-way.
EveryEndAnnounced == S!EveryEndAnnounced
=============================================================================
