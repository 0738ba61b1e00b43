\* Two admins approve the two documents at once.
SPECIFICATION IdentitySpec
CONSTANTS
    NoKind = NoKind
    Kinds = {"id_document", "selfie"}
    Reviewers = {w1, w2}
    MaxUploads <- ReplaceOne
    MaxFaults = 0
INVARIANTS ApprovedIsVerified
CHECK_DEADLOCK FALSE
