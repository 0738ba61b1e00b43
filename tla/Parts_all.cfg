\* Eleven parts that share no state, one at a time (see MCParts).
SPECIFICATION Spec
CONSTANTS
    x1 = x1
    x2 = x2
    x3 = x3
    y1 = y1
    y2 = y2
    z1 = z1
    z2 = z2
    yearly = yearly
    daily = daily
    \* Bookings: two proposals for one date, three handlers.
    NoBooking = NoBooking
    Bookings = {y1, y2}
    Requests = {x1, x2, x3}
    MaxDeaths = 1
    \* Otp: two verifications at once.
    Verifiers = {y1, y2}
    MaxCodes = 2
    OtpLife = 2
    MaxOtpAttempts = 2
    OtpDeaths = 1
    \* Throttling: two ticks a second.
    Second = 2
    Ttl = 4
    Limit = 3
    BlockDuration = 5
    \* Media: two files, three rows, two handlers.
    Keys = {y1, y2}
    MediaRows = {x1, x2, x3}
    MediaRequests = {z1, z2}
    MaxMediaItems = 2
    MaxSort = 2
    NoMedia = NoMedia
    \* Reminders: two instances, a year and a day pass.
    Runners = {y1, y2}
    Plans = {yearly, daily}
    RemindAt <- RemindThreeOne
    ExpiresAt <- EndsOnSeven
    DayLength = 2
    LockLosses = 1
    \* Accounts: two sign-ups and two addresses.
    Accounts = {u1}
    Addresses = {z1, z2}
    Kinds = {"individual"}
    SignUps = {y1, y2}
    Clicks = {c1}
    LinkIds = {l1}
    AccountDeaths = 1
    NoAccount = NoAccount
    NoAddress = NoAddress
    \* Sessions: two handlers, a reset link and two seconds.
    Callers = {y1, y2}
    ResetLinks = {l1}
    MaxSeconds = 2
    MaxPasswords = 2
    SessionDeaths = 1
    \* Directory: two artists, a price below a boundary, on it and above it.
    Artists = {y1, y2}
    Bookers = {k1}
    Texts = {t1}
    Amounts = {2, 3, 4}
    BandEdges = {3}
    Unset = Unset
    \* Catalog: two categories, two groups, two administrators.
    Categories = {z1, z2}
    Groups = {g1, g2}
    Names = {"DJ", "dj!", "Band"}
    Slugify <- SlugOf
    Editors = {y1, y2}
    Pickers = {p1}
    MaxPicks = 1
    NoCategory = NoCategory
    \* Consent: one mandatory document, two senders.
    Mandatory = {"terms"}
    Campaigns = {y1, y2}
    MaxConsents = 4
    MaxVersions = 2
    MaxSecrets = 2
    \* Support: one ticket, two handlers.
    Tickets = {q1}
    Desks = {y1, y2}
    MaxReplies = 1
    MaxClock = 2
    SupportDeaths = 1
SYMMETRY Symmetry
INVARIANTS
    PartsTypeOK
    ToldTheTruth
    GuessBudget
    LimitIsFair
    GalleryInOrder
    WarnedOnce
    SignUpWhole
    EndedStaysEnded
    OnlyTheEdgeSeparates
    PickerIsComplete
    ConsentStands
    TablesFirst
PROPERTIES
    KeepsItsWord
CHECK_DEADLOCK FALSE
