\* One payment for a plan of two periods, and a handler may die; or a month
\* confirmed while a banked day pass is being started (see MCBilling).
SPECIFICATION MCSpec
CONSTANTS
    u1 = u1
    p1 = p1
    p2 = p2
    p3 = p3
    NoPayment = NoPayment
    NoRow = NoRow
    Users = {u1}
    Payments = {p1, p2, p3}
    Owner <- OneBuyer
    Plan <- Bought
    Quantity <- TwoOrOne
    Providers = {"manual"}
    Workers = {w1}
    Activators = {a1}
    Sweepers = {s1}
    MaxDeaths = 1
INVARIANTS ConfirmedIsMinted MintedIsGranted
PROPERTIES PeriodsEventuallyRun PeriodEndsAnnounced
