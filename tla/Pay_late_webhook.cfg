\* Two callbacks for one payment overlap.
SPECIFICATION Spec
CONSTANTS
    NoPayment = NoPayment
    Payments = {p1}
    Providers <- OnlineOnly
    Workers = {w1, w2}
    MaxDeaths = 0
PROPERTIES LateWebhookIsNoOp
