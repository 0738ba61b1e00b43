------------------------------ MODULE Identity ------------------------------
(***************************************************************************)
(* The identity documents of one artist: their upload and replacement      *)
(* (IdentityDocumentsService.confirm), the admin's review of each          *)
(* (AdminService.reviewDocument) and of the account (updateUserStatus),    *)
(* and the retention job that deletes the files (pruneExpiredDocuments).   *)
(*                                                                         *)
(* A review reads the row, then in one transaction writes it, looks        *)
(* whether every required kind is approved and sets is_verified; the row   *)
(* stays locked from its update to the commit, and what is not committed   *)
(* no other transaction sees.  Object storage and the clock are external.  *)
(* A file is named by its kind and the number of its upload.               *)
(***************************************************************************)
EXTENDS Naturals, FiniteSets

CONSTANTS
    Kinds,        \* requiredKindsFor the artist
    Reviewers,    \* slots for concurrent reviews
    MaxUploads,   \* bound on the uploads of each kind
    MaxFaults,    \* bound on deaths and failed deletions
    NoKind

ASSUME IdentityAssumption ==
    MaxUploads \in [Kinds -> Nat] /\ MaxFaults \in Nat /\ NoKind \notin Kinds

VARIABLES
    doc,        \* id_documents: status, key (0 for null), whether its window is over
    uploads,    \* files uploaded so far, of each kind
    bucket,     \* files in object storage
    verified,   \* artist_profiles.is_verified
    live,       \* users.status is 'active'; of the others none differs here
    closed,     \* users.deleted_at is set
    reviewing,     \* reviews in progress
    activation, \* updateUserStatus to 'active', in progress
    prune,      \* the retention job: the rows it selected, with their keys
    approved,   \* kinds of which some document was approved, ever
    faults

identityVars == <<doc, uploads, bucket, verified, live, closed, reviewing, activation,
                  prune, approved, faults>>

Decided == {"approved", "rejected"}
NoDoc == [status |-> "none", key |-> 0, old |-> FALSE]
FreeReview == [pc |-> "idle", kind |-> NoKind, decision |-> "none", verified |-> FALSE]
NoPrune == [pc |-> "idle", kind |-> NoKind, todo |-> {}]

\* The row of k is locked by a transaction that has updated it.
Locked(k) == \E w \in Reviewers : reviewing[w].kind = k /\ reviewing[w].pc \in {"check", "commit"}

-----------------------------------------------------------------------------
\* The artist uploads a file and confirms it: one row per kind, upserted.

\* (mutant: the name of a file has no random part, so an upload overwrites)
ConfirmSameName(k) ==
    /\ ~closed /\ ~Locked(k)
    /\ bucket' = bucket \cup {<<k, uploads[k] + 1>>}
    /\ doc' = [doc EXCEPT ![k] = [status |-> "pending", key |-> uploads[k] + 1, old |-> FALSE]]
    /\ UNCHANGED <<uploads, verified, live, closed, reviewing, activation, prune, approved, faults>>

Confirm(k) ==
    /\ ~closed
    /\ uploads[k] < MaxUploads[k]
    /\ ~Locked(k)
    /\ uploads' = [uploads EXCEPT ![k] = @ + 1]
    /\ bucket' = bucket \cup {<<k, uploads[k] + 1>>}
    /\ doc' = [doc EXCEPT ![k] = [status |-> "pending", key |-> uploads[k] + 1, old |-> FALSE]]
    /\ UNCHANGED <<verified, live, closed, reviewing, activation, prune, approved, faults>>

\* The row stays, with status 'banned'.
CloseAccount ==
    /\ ~closed
    /\ closed' = TRUE
    /\ live' = FALSE
    /\ UNCHANGED <<doc, uploads, bucket, verified, reviewing, activation, prune, approved, faults>>

\* RETENTION_DAYS_APPROVED or RETENTION_DAYS_REJECTED go by, longer than any
\* review takes.
WindowEnds(k) ==
    /\ doc[k].status \in Decided
    /\ ~doc[k].old
    /\ \A w \in Reviewers : reviewing[w].kind # k
    /\ doc' = [doc EXCEPT ![k].old = TRUE]
    /\ UNCHANGED <<uploads, bucket, verified, live, closed, reviewing, activation, prune, approved, faults>>

-----------------------------------------------------------------------------
\* reviewDocument.

ReviewRead(w, k) ==
    /\ reviewing[w] = FreeReview
    /\ doc[k].status = "pending"
    /\ \E decision \in Decided :
           reviewing' = [reviewing EXCEPT ![w] = [FreeReview EXCEPT !.pc = "update", !.kind = k, !.decision = decision]]
    /\ UNCHANGED <<doc, uploads, bucket, verified, live, closed, activation, prune, approved, faults>>

\* UPDATE ... WHERE id: takes the lock of the row, whatever it says by now.
ReviewUpdate(w) ==
    /\ reviewing[w].pc = "update"
    /\ ~Locked(reviewing[w].kind)
    /\ reviewing' = [reviewing EXCEPT ![w].pc = "check"]
    /\ UNCHANGED <<doc, uploads, bucket, verified, live, closed, activation, prune, approved, faults>>

\* (mutant: the flag follows the first approval)
FirstApproved(w) == reviewing[w].kind \in Kinds

\* hasRequiredApproved: its own update, and of the others what is committed.
AllApproved(w) == \A k \in Kinds \ {reviewing[w].kind} : doc[k].status = "approved"

ReviewCheck(w) ==
    /\ reviewing[w].pc = "check"
    /\ reviewing' = [reviewing EXCEPT ![w].pc = "commit",
                                ![w].verified = reviewing[w].decision = "approved" /\ AllApproved(w)]
    /\ UNCHANGED <<doc, uploads, bucket, verified, live, closed, activation, prune, approved, faults>>

\* is_verified, and the commit.
ReviewCommit(w) ==
    LET k == reviewing[w].kind IN
    /\ reviewing[w].pc = "commit"
    /\ doc' = [doc EXCEPT ![k].status = reviewing[w].decision, ![k].old = FALSE]
    /\ verified' = reviewing[w].verified
    /\ approved' = IF reviewing[w].decision = "approved" THEN approved \cup {k} ELSE approved
    /\ reviewing' = [reviewing EXCEPT ![w] = FreeReview]
    /\ UNCHANGED <<uploads, bucket, live, closed, activation, prune, faults>>

ReviewDies(w) ==
    /\ reviewing[w] # FreeReview
    /\ faults < MaxFaults
    /\ faults' = faults + 1
    /\ reviewing' = [reviewing EXCEPT ![w] = FreeReview]
    /\ UNCHANGED <<doc, uploads, bucket, verified, live, closed, activation, prune, approved>>

-----------------------------------------------------------------------------
\* updateUserStatus.

\* (mutant: hasCompleteVerification looks for some document, not each)
CompleteAny == \E k \in Kinds : doc[k].status = "approved"

\* hasCompleteVerification.
CompleteVerification == \A k \in Kinds : doc[k].status = "approved"

ActivateCheck ==
    /\ activation = "idle"
    /\ live \/ CompleteVerification
    /\ activation' = "write"
    /\ UNCHANGED <<doc, uploads, bucket, verified, live, closed, reviewing, prune, approved, faults>>

ActivateWrite ==
    /\ activation = "write"
    /\ live' = TRUE
    /\ activation' = "idle"
    /\ UNCHANGED <<doc, uploads, bucket, verified, closed, reviewing, prune, approved, faults>>

\* 'suspended' or 'banned'.
Suspend ==
    /\ live
    /\ live' = FALSE
    /\ UNCHANGED <<doc, uploads, bucket, verified, closed, reviewing, activation, prune, approved, faults>>

-----------------------------------------------------------------------------
\* pruneExpiredDocuments: select, then for each row the object, then the key.

\* (mutant: pending documents are selected as well)
DueByAge(k) == doc[k].key # 0 /\ (closed \/ doc[k].old \/ doc[k].status = "pending")

Due(k) == doc[k].key # 0 /\ (closed \/ (doc[k].status \in Decided /\ doc[k].old))

PruneSelect ==
    /\ prune = NoPrune
    /\ \E k \in Kinds : Due(k)
    /\ prune' = [pc |-> "delete", kind |-> NoKind, todo |-> {<<k, doc[k].key>> : k \in {i \in Kinds : Due(i)}}]
    /\ UNCHANGED <<doc, uploads, bucket, verified, live, closed, reviewing, activation, approved, faults>>

\* The loop after the row f: its end is the end of the run.
AfterRow(f) ==
    prune' = IF prune.todo = {f} THEN NoPrune ELSE [pc |-> "delete", kind |-> NoKind, todo |-> prune.todo \ {f}]

\* (mutant: the key is cleared first, and the object deleted afterwards)
RowFirst(f) ==
    /\ prune.pc = "delete"
    /\ f \in prune.todo
    /\ ~Locked(f[1])
    /\ doc' = [doc EXCEPT ![f[1]].key = 0]
    /\ \/ bucket' = bucket \ {f} /\ UNCHANGED faults
       \/ faults < MaxFaults /\ faults' = faults + 1 /\ UNCHANGED bucket
    /\ AfterRow(f)
    /\ UNCHANGED <<uploads, verified, live, closed, reviewing, activation, approved>>

PruneDelete(f) ==
    /\ prune.pc = "delete"
    /\ f \in prune.todo
    /\ \/ /\ bucket' = bucket \ {f}
          /\ prune' = [prune EXCEPT !.pc = "clear", !.kind = f[1]]
          /\ UNCHANGED faults
       \/ /\ faults < MaxFaults                    \* counted as failed
          /\ faults' = faults + 1
          /\ AfterRow(f)
          /\ UNCHANGED bucket
    /\ UNCHANGED <<doc, uploads, verified, live, closed, reviewing, activation, approved>>

PruneClear(f) ==
    /\ prune.pc = "clear"
    /\ f \in prune.todo
    /\ f[1] = prune.kind
    /\ \/ /\ ~Locked(f[1])
          /\ doc' = [doc EXCEPT ![f[1]].key = 0]
          /\ UNCHANGED faults
       \/ /\ faults < MaxFaults                    \* counted as failed
          /\ faults' = faults + 1
          /\ UNCHANGED doc
    /\ AfterRow(f)
    /\ UNCHANGED <<uploads, bucket, verified, live, closed, reviewing, activation, approved>>

PruneDies ==
    /\ prune # NoPrune
    /\ faults < MaxFaults
    /\ faults' = faults + 1
    /\ prune' = NoPrune
    /\ UNCHANGED <<doc, uploads, bucket, verified, live, closed, reviewing, activation, approved>>

PruneStep == PruneSelect \/ \E f \in prune.todo : PruneDelete(f) \/ PruneClear(f)

IdentityInit ==
    /\ doc = [k \in Kinds |-> NoDoc]
    /\ uploads = [k \in Kinds |-> 0]
    /\ bucket = {}
    /\ verified = FALSE
    /\ live = FALSE
    /\ closed = FALSE
    /\ reviewing = [w \in Reviewers |-> FreeReview]
    /\ activation = "idle"
    /\ prune = NoPrune
    /\ approved = {}
    /\ faults = 0

IdentityNext ==
    \/ \E k \in Kinds : Confirm(k) \/ WindowEnds(k)
    \/ CloseAccount
    \/ \E w \in Reviewers :
           \/ \E k \in Kinds : ReviewRead(w, k)
           \/ ReviewUpdate(w) \/ ReviewCheck(w) \/ ReviewCommit(w) \/ ReviewDies(w)
    \/ ActivateCheck \/ ActivateWrite \/ Suspend
    \/ PruneStep \/ PruneDies

IdentitySpec == IdentityInit /\ [][IdentityNext]_identityVars

\* The job runs every day to its end, and transactions end.
IdentityFairness ==
    /\ WF_identityVars(PruneStep)
    /\ WF_identityVars(\E w \in Reviewers : ReviewCheck(w) \/ ReviewCommit(w))

IdentityFairSpec == IdentitySpec /\ IdentityFairness

-----------------------------------------------------------------------------
IdentityTypeOK ==
    /\ doc \in [Kinds -> [status : {"none", "pending"} \cup Decided, key : Nat, old : BOOLEAN]]
    /\ \A k \in Kinds : doc[k].key <= uploads[k] /\ uploads[k] \in 0..MaxUploads[k]
    /\ \A f \in bucket : f[1] \in Kinds /\ f[2] \in 1..uploads[f[1]]
    /\ verified \in BOOLEAN /\ live \in BOOLEAN /\ closed \in BOOLEAN
    /\ \A w \in Reviewers : reviewing[w].pc = "idle" <=> reviewing[w].kind = NoKind
    /\ faults \in 0..MaxFaults

\* Nobody goes live, or is marked verified, before an admin has approved a
\* document of each required kind: however reviews, replacements and
\* activations interleave.
LiveIsVerified ==
    /\ live => approved = Kinds
    /\ verified => approved = Kinds

\* "PENDING documents are never touched" (pruneExpiredDocuments): as far as
\* the object goes, the retention job never deletes the file that a pending
\* document of an open account names.
PendingFileKept ==
    \A k \in Kinds :
        doc[k].status = "pending" /\ doc[k].key # 0 /\ ~closed => <<k, doc[k].key>> \in bucket

\* A file whose window is over, or whose owner has left, leaves the bucket in
\* the end, though deletions fail and runs die.  Except when a running job
\* holds an older key of that row: it will clear the new one (PendingHasFile).
DueIsPurged ==
    \A k \in Kinds : \A n \in 1..MaxUploads[k] :
        Due(k) /\ doc[k].key = n /\ (\A f \in prune.todo : f[1] = k => f[2] = n)
            ~> <<k, n>> \notin bucket \/ doc[k].key > n

\* "deleting the file would leave a reviewer with a decision to make and
\* nothing to make it on": a pending document of an open account has a file.
PendingHasFile ==
    \A k \in Kinds : doc[k].status = "pending" /\ ~closed => doc[k].key # 0

\* "is_verified means 'identity confirmed', which takes every artefact"
\* (reviewDocument): when no review is under way and each required document
\* is approved, the flag is set.
ApprovedIsVerified ==
    CompleteVerification /\ (\A w \in Reviewers : reviewing[w] = FreeReview) => verified
=============================================================================
