\* Two people register at once, one as a person and one as a company.
SPECIFICATION AccountSpec
CONSTANTS
    Accounts = {u1, u2}
    Addresses = {a1, a2}
    Kinds = {"individual", "company"}
    SignUps = {s1, s2}
    Clicks = {c1}
    LinkIds = {l1, l2}
    AccountDeaths = 0
    NoAccount = NoAccount
    NoAddress = NoAddress
SYMMETRY Symmetry
INVARIANT NumbersDiffer
CHECK_DEADLOCK FALSE
