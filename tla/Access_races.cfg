\* Subscriptions and Messaging, one at a time (see MCAccess).
SPECIFICATION AccessSpec
CONSTANTS
    \* Subscriptions: a confirmation, two activations and two overlapping
    \* sweeps race; one may die.
    u1 = u1
    p1 = p1
    p2 = p2
    NoPayment = NoPayment
    NoRow = NoRow
    Users = {u1}
    Payments = {p1, p2}
    Owner <- OneBuyer
    Plan <- DayMonth
    Quantity <- OneThenTwo
    Confirmers = {c1}
    Activators = {a1, a2}
    Sweepers = {s1, s2}
    MaxCrashes = 1
    \* Messaging: two requests at once, one of which may die, at both caps.
    Nobody = Nobody
    Artists = {singer}
    Planners = {n1, n2}
    PaidPlanners = {n1}
    Handlers = {h1, h2}
    RequestCap = 1
    MessageCap = 1
    MaxDeaths = 1
    MaxPasses = 2
SYMMETRY Symmetry
INVARIANTS
    TypeOK
    OneActivePerUser
    MintedOnce
    NoticesTrue
    MessagingTypeOK
    CapsHold
    NoSilentMessage
PROPERTIES
    KeepsPromise
    NoReplyWhilePending
