----------------------------- MODULE MCBilling -----------------------------
(***************************************************************************)
(* Concrete purchases for checking Billing, all of one buyer, two settings *)
(* in one run: either two periods of a dated plan, which a sweep carries   *)
(* along; or a month and a day pass, which is being started while the      *)
(* month is confirmed.  What a setting leaves out rests.                   *)
(***************************************************************************)
EXTENDS Billing

CONSTANTS u1, p1, p2, p3

VARIABLE setting   \* "periods" or "day pass"

OneBuyer  == [p \in Payments |-> u1]
Bought    == [p \in Payments |-> IF p = p1 THEN "year" ELSE IF p = p2 THEN "month" ELSE "day"]
TwoOrOne  == [p \in Payments |-> IF p = p1 THEN 2 ELSE 1]

MCInit == Init /\ setting \in {"periods", "day pass"}

MCNext ==
    /\ Next
    /\ UNCHANGED setting
    /\ setting = "periods"  => UNCHANGED <<payment[p2], payment[p3], request>>
    /\ setting = "day pass" => UNCHANGED <<payment[p1], sweep, deaths, crashes>>

\* Fairness of Billing, for the setting that has a sweep.
MCFairness ==
    /\ \A s \in Sweepers : WF_vars(setting = "periods" /\ S!SweepStep(s) /\ UNCHANGED pvars)
    /\ \A p \in Payments : \A n \in 1 .. Quantity[p] :
          WF_vars(setting = "periods" /\ <<p, n>> \in DOMAIN subs /\ S!Lapse(<<p, n>>) /\ UNCHANGED pvars)

MCSpec == MCInit /\ [][MCNext]_<<vars, setting>> /\ MCFairness

\* ConfirmedEventuallyRuns and EveryEndAnnounced of Billing, where there is
\* a sweep.
PeriodsEventuallyRun == setting = "periods" => ConfirmedEventuallyRuns
PeriodEndsAnnounced  == setting = "periods" => EveryEndAnnounced
=============================================================================
