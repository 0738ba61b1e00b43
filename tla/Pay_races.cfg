\* Two deciders, the buyer and reconciliation race for one payment of either kind.
SPECIFICATION FairSpec
CONSTANTS
    NoPayment = NoPayment
    Payments = {p1}
    Providers <- EitherKind
    Workers = {w1, w2}
    MaxDeaths = 1
INVARIANTS TypeOK ConfirmedIsGranted ReportedManualKept
PROPERTIES SettlesAsAgreed AwaitingSettles
