---------------------------- MODULE Entitlements ----------------------------
(***************************************************************************)
(* What the subscription tables promise a buyer, without transactions,     *)
(* sweeps or stale reads: a payment grants all of the periods it bought,   *)
(* once; a period is held, then runs until its time is out and then, some  *)
(* time later, is over; and a user never has two periods in use.           *)
(***************************************************************************)
EXTENDS Naturals

CONSTANTS Users, Payments, Owner, Quantity

VARIABLE period

Periods == UNION {{p} \X (1 .. Quantity[p]) : p \in Payments}

Bought(p) == {q \in Periods : q[1] = p}

\* A period that is due blocks the next one until it is ended.
InUse(u) == {q \in Periods : Owner[q[1]] = u /\ period[q] \in {"running", "due"}}

Init == period = [q \in Periods |-> "none"]

\* The whole purchase or nothing; its first period may start at once.
Grant(p) ==
    /\ \A q \in Bought(p) : period[q] = "none"
    /\ \/ period' = [q \in Periods |-> IF q \in Bought(p) THEN "held" ELSE period[q]]
       \/ /\ InUse(Owner[p]) = {}
          /\ period' = [q \in Periods |->
                          IF q = <<p, 1>> THEN "running"
                          ELSE IF q \in Bought(p) THEN "held" ELSE period[q]]

Start(q) ==
    /\ period[q] = "held"
    /\ InUse(Owner[q[1]]) = {}
    /\ period' = [period EXCEPT ![q] = "running"]

\* Its time is out.
ComesDue(q) ==
    /\ period[q] = "running"
    /\ period' = [period EXCEPT ![q] = "due"]

\* Any number of periods may be ended by one sweep, and none before its time.
End(over) ==
    /\ \A q \in over : period[q] = "due"
    /\ period' = [q \in Periods |-> IF q \in over THEN "over" ELSE period[q]]

Next ==
    \/ \E over \in SUBSET Periods : End(over)
    \/ \E p \in Payments : Grant(p)
    \/ \E q \in Periods : Start(q) \/ ComesDue(q)

Spec == Init /\ [][Next]_period
=============================================================================
