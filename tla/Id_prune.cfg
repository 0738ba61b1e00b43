\* A document is replaced while the retention job deletes the old file.
SPECIFICATION IdentitySpec
CONSTANTS
    NoKind = NoKind
    Kinds = {"id_document", "selfie"}
    Reviewers = {w1, w2}
    MaxUploads <- ReplaceOne
    MaxFaults = 0
INVARIANTS PendingHasFile
CHECK_DEADLOCK FALSE
