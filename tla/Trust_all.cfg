\* Reviews and Identity, one at a time (see MCTrust).
SPECIFICATION TrustSpec
CONSTANTS
    \* Reviews: one booking from its acceptance on: submits, removals, the pair,
    \* the cron, one death.
    NoBooking = NoBooking
    Bookings = {b1}
    Requests = {r1}
    Handlers = {h1, h2}
    MaxDeaths = 1
    \* Identity: two reviewers, an activation, a replacement of the ID
    \* document and the retention job.
    NoKind = NoKind
    Kinds = {"id_document", "selfie"}
    Reviewers = {w1, w2}
    MaxUploads <- ReplaceOne
    MaxFaults = 1
INVARIANTS
    TypeOK
    NoAnswering
    PairIsPublished
    IdentityTypeOK
    LiveIsVerified
    PendingFileKept
PROPERTIES
    IsDoubleBlind
    ReviewIsPublished
    DueIsPurged
CHECK_DEADLOCK FALSE
