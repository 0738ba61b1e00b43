--------------------------- MODULE IdentityProofs ---------------------------
(***************************************************************************)
(* Identity for any kinds of documents, uploads and reviewers: nobody goes *)
(* live unverified, and retention keeps the file of a pending document.    *)
(*                                                                         *)
(* Going live looks at the documents in one statement and writes in        *)
(* another, and so does a review that sets the flag; by then a document    *)
(* may have been replaced.  What holds both is that `approved` only grows: *)
(* whoever has looked and is about to write is known to have seen every    *)
(* kind in it.  Retention deletes by the keys it selected; a row it has    *)
(* selected may be replaced meanwhile, but never by the same key.          *)
(***************************************************************************)
EXTENDS Identity, TLAPS

DocState == [status : {"none", "pending"} \cup Decided, key : Nat, old : BOOLEAN]
ReviewState == [pc : {"idle", "update", "check", "commit"}, kind : Kinds \cup {NoKind},
                decision : Decided \cup {"none"}, verified : BOOLEAN]
PruneState == [pc : {"idle", "delete", "clear"}, kind : Kinds \cup {NoKind},
               todo : SUBSET (Kinds \X Nat)]

Types ==
    /\ doc \in [Kinds -> DocState]
    /\ uploads \in [Kinds -> Nat] /\ \A k \in Kinds : uploads[k] <= MaxUploads[k]
    /\ bucket \subseteq Kinds \X Nat
    /\ verified \in BOOLEAN /\ live \in BOOLEAN /\ closed \in BOOLEAN
    /\ reviewing \in [Reviewers -> ReviewState]
    /\ activation \in {"idle", "write"}
    /\ prune \in PruneState
    /\ approved \subseteq Kinds
    /\ faults \in 0..MaxFaults

\* Files are numbered as they are uploaded.
Numbered ==
    /\ \A k \in Kinds : doc[k].key <= uploads[k]
    /\ \A f \in bucket : f[2] \in 1..uploads[f[1]]
    /\ \A f \in prune.todo : f[2] \in 1..uploads[f[1]]

\* A review in progress is of a document, and the verdict it is about to
\* commit is "verified" only if it is the last approval that was missing.
Judging == \A w \in Reviewers :
    /\ reviewing[w].pc = "idle" => reviewing[w] = FreeReview
    /\ reviewing[w].pc # "idle" => reviewing[w].kind \in Kinds /\ reviewing[w].decision \in Decided
    /\ reviewing[w].pc = "commit" /\ reviewing[w].verified =>
           reviewing[w].decision = "approved" /\ Kinds \ {reviewing[w].kind} \subseteq approved

\* What was seen approved has been, and an activation has seen everything.
Recorded ==
    /\ \A k \in Kinds : doc[k].status = "approved" => k \in approved
    /\ activation = "write" => approved = Kinds

\* Retention has not selected the file that a pending document names.
Spared == \A f \in prune.todo :
    \/ closed
    \/ doc[f[1]].status # "pending"
    \/ doc[f[1]].key # f[2]

IInv == Types /\ Numbered /\ Judging /\ Recorded /\ Spared /\ LiveIsVerified /\ PendingFileKept

-----------------------------------------------------------------------------
LEMMA Initially == IdentityInit => IInv
  <1> SUFFICES ASSUME IdentityInit
               PROVE  IInv
    OBVIOUS
  <1>1. NoDoc \in DocState /\ FreeReview \in ReviewState /\ NoPrune \in PruneState
    BY DEF NoDoc, DocState, FreeReview, ReviewState, NoPrune, PruneState
  <1>2. /\ \A k \in Kinds : MaxUploads[k] \in Nat
        /\ MaxFaults \in Nat
    BY IdentityAssumption
  <1>3. Types
    <2>1. doc \in [Kinds -> DocState] /\ reviewing \in [Reviewers -> ReviewState] /\ prune \in PruneState
      BY <1>1 DEF IdentityInit
    <2>2. uploads \in [Kinds -> Nat] /\ \A k \in Kinds : uploads[k] <= MaxUploads[k]
      BY <1>2 DEF IdentityInit
    <2>3. /\ bucket = {} /\ verified = FALSE /\ live = FALSE /\ closed = FALSE
          /\ activation = "idle" /\ approved = {} /\ faults = 0
      BY DEF IdentityInit
    <2>4. bucket \subseteq Kinds \X Nat /\ approved \subseteq Kinds
      BY <2>3
    <2>5. faults \in 0..MaxFaults
      BY <1>2, <2>3
    <2>6. verified \in BOOLEAN /\ live \in BOOLEAN /\ closed \in BOOLEAN /\ activation \in {"idle", "write"}
      BY <2>3
    <2> QED BY <2>1, <2>2, <2>4, <2>5, <2>6 DEF Types
  <1>4. Numbered /\ Spared
    BY DEF IdentityInit, Numbered, Spared, NoDoc, NoPrune
  <1>5. Judging
    BY DEF IdentityInit, Judging, FreeReview
  <1>6. Recorded /\ LiveIsVerified /\ PendingFileKept
    BY DEF IdentityInit, Recorded, LiveIsVerified, PendingFileKept, NoDoc
  <1> QED BY <1>3, <1>4, <1>5, <1>6 DEF IInv

-----------------------------------------------------------------------------
\* The artist and the clock.

LEMMA ConfirmStep ==
    ASSUME IInv, NEW k \in Kinds, Confirm(k)
    PROVE  IInv'
  <1> DEFINE n == uploads[k] + 1
             d == [status |-> "pending", key |-> n, old |-> FALSE]
  <1>1. /\ uploads' = [uploads EXCEPT ![k] = n] /\ doc' = [doc EXCEPT ![k] = d]
        /\ bucket' = bucket \cup {<<k, n>>}
        /\ UNCHANGED <<verified, live, closed, reviewing, activation, prune, approved, faults>>
    BY DEF Confirm
  <1>2. uploads[k] \in Nat /\ n \in Nat \ {0} /\ n <= MaxUploads[k] /\ d \in DocState
    <2>1. uploads[k] \in Nat /\ MaxUploads[k] \in Nat /\ uploads[k] < MaxUploads[k]
      BY IdentityAssumption DEF Confirm, IInv, Types
    <2> QED BY <2>1 DEF DocState
  <1>3. d.status = "pending" /\ d.key = n
    OBVIOUS
  <1> HIDE DEF d
  <1>4. \A i \in Kinds : /\ uploads'[i] = IF i = k THEN n ELSE uploads[i]
                         /\ doc'[i] = IF i = k THEN d ELSE doc[i]
    BY <1>1 DEF IInv, Types
  <1>5. Types'
    BY <1>1, <1>2, <1>4 DEF IInv, Types
  <1>6. Numbered'
    <2>1. \A i \in Kinds : doc'[i].key <= uploads'[i]
      BY <1>2, <1>3, <1>4 DEF IInv, Numbered
    <2>2. \A f \in Kinds \X Nat : f[2] \in 1..uploads[f[1]] => f[2] \in 1..uploads'[f[1]]
      BY <1>2, <1>4 DEF IInv, Types
    <2>3. \A f \in bucket' : f[2] \in 1..uploads'[f[1]]
      BY <1>1, <1>2, <1>4, <2>2 DEF IInv, Types, Numbered
    <2>4. \A f \in prune'.todo : f[2] \in 1..uploads'[f[1]]
      BY <1>1, <2>2 DEF IInv, Types, PruneState, Numbered
    <2> QED BY <2>1, <2>3, <2>4 DEF Numbered
  <1>7. Judging' /\ LiveIsVerified'
    BY <1>1 DEF IInv, Judging, LiveIsVerified
  <1>8. Recorded'
    BY <1>1, <1>3, <1>4 DEF IInv, Recorded
  <1>9. Spared'
    <2> SUFFICES ASSUME NEW f \in prune.todo, ~closed, f[1] = k
                 PROVE  f[2] # n
      BY <1>1, <1>3, <1>4 DEF IInv, Spared, Types, PruneState
    <2> QED BY <1>2 DEF IInv, Numbered
  <1>10. PendingFileKept'
    BY <1>1, <1>3, <1>4 DEF IInv, PendingFileKept
  <1> QED BY <1>5, <1>6, <1>7, <1>8, <1>9, <1>10 DEF IInv

LEMMA CloseStep ==
    ASSUME IInv, CloseAccount
    PROVE  IInv'
  BY DEF IInv, CloseAccount, Types, Numbered, Judging, Recorded, Spared, LiveIsVerified, PendingFileKept

\* A document is given another status, or a mark of age, and keeps its key:
\* never back to pending, and approved only as it is recorded.
LEMMA DocJudged ==
    ASSUME IInv, NEW k \in Kinds, NEW d \in DocState, doc' = [doc EXCEPT ![k] = d],
           d.key = doc[k].key, d.status \in Decided,
           approved \subseteq approved', approved' \subseteq Kinds,
           d.status = "approved" => k \in approved',
           UNCHANGED <<uploads, bucket, closed, activation, prune>>
    PROVE  /\ doc' \in [Kinds -> DocState]
           /\ Numbered' /\ Recorded' /\ Spared' /\ PendingFileKept'
  <1>1. \A i \in Kinds : doc'[i] = IF i = k THEN d ELSE doc[i]
    BY DEF IInv, Types
  <1>2. doc' \in [Kinds -> DocState]
    BY DEF IInv, Types
  <1>3. Numbered'
    BY <1>1 DEF IInv, Numbered
  <1>4. Recorded'
    BY <1>1 DEF IInv, Recorded, Types
  <1>5. Spared'
    <2>1. prune.todo \subseteq Kinds \X Nat
      BY DEF IInv, Types, PruneState
    <2> QED BY <1>1, <2>1 DEF IInv, Spared, Decided
  <1>6. PendingFileKept'
    BY <1>1 DEF IInv, PendingFileKept, Decided
  <1> QED BY <1>2, <1>3, <1>4, <1>5, <1>6

LEMMA WindowStep ==
    ASSUME IInv, NEW k \in Kinds, WindowEnds(k)
    PROVE  IInv'
  <1> DEFINE d == [doc[k] EXCEPT !.old = TRUE]
  <1>1. doc[k] \in DocState /\ doc[k].status \in Decided
    BY DEF IInv, Types, WindowEnds
  <1>2. d \in DocState /\ d.key = doc[k].key /\ d.status = doc[k].status
    BY <1>1 DEF DocState
  <1>3. doc' = [doc EXCEPT ![k] = d]
        /\ UNCHANGED <<uploads, bucket, verified, live, closed, reviewing, activation, prune, approved, faults>>
    BY DEF WindowEnds
  <1> HIDE DEF d
  <1>4. approved \subseteq Kinds /\ (d.status = "approved" => k \in approved)
    BY <1>2 DEF IInv, Types, Recorded
  <1>5. /\ doc' \in [Kinds -> DocState]
        /\ Numbered' /\ Recorded' /\ Spared' /\ PendingFileKept'
    BY <1>1, <1>2, <1>3, <1>4, DocJudged
  <1> QED BY <1>3, <1>5 DEF IInv, Types, Judging, LiveIsVerified

-----------------------------------------------------------------------------
\* Reviews.

\* A review that steps on, with no document touched.
LEMMA ReviewMoves ==
    ASSUME IInv, NEW w \in Reviewers, NEW x \in ReviewState,
           reviewing' = [reviewing EXCEPT ![w] = x],
           x.pc = "idle" => x = FreeReview,
           x.pc # "idle" => x.kind \in Kinds /\ x.decision \in Decided,
           x.pc = "commit" /\ x.verified =>
               x.decision = "approved" /\ Kinds \ {x.kind} \subseteq approved,
           UNCHANGED <<doc, uploads, bucket, verified, live, closed, activation, prune, approved>>,
           faults' \in 0..MaxFaults
    PROVE  IInv'
  <1>1. \A v \in Reviewers : reviewing'[v] = IF v = w THEN x ELSE reviewing[v]
    BY DEF IInv, Types
  <1>2. Types'
    BY DEF IInv, Types
  <1>3. Judging'
    BY <1>1 DEF IInv, Judging
  <1>4. Numbered' /\ Recorded' /\ Spared' /\ LiveIsVerified' /\ PendingFileKept'
    BY DEF IInv, Numbered, Recorded, Spared, LiveIsVerified, PendingFileKept
  <1> QED BY <1>2, <1>3, <1>4 DEF IInv

LEMMA ReviewStep ==
    ASSUME IInv, NEW w \in Reviewers,
           \/ \E k \in Kinds : ReviewRead(w, k)
           \/ ReviewUpdate(w) \/ ReviewCheck(w) \/ ReviewDies(w)
    PROVE  IInv'
  <1>1. reviewing[w] \in ReviewState /\ faults \in 0..MaxFaults
    BY DEF IInv, Types
  <1>2. FreeReview \in ReviewState /\ FreeReview.pc = "idle"
    BY DEF FreeReview, ReviewState
  <1>3. reviewing[w].pc # "idle" => reviewing[w].kind \in Kinds /\ reviewing[w].decision \in Decided
    BY DEF IInv, Judging
  <1>4. ASSUME NEW k \in Kinds, ReviewRead(w, k) PROVE IInv'
    <2>1. PICK decision \in Decided :
             reviewing' = [reviewing EXCEPT ![w] =
                              [FreeReview EXCEPT !.pc = "update", !.kind = k, !.decision = decision]]
      BY <1>4 DEF ReviewRead
    <2> DEFINE x == [FreeReview EXCEPT !.pc = "update", !.kind = k, !.decision = decision]
    <2>2. x \in ReviewState /\ x.pc = "update" /\ x.kind = k /\ x.decision = decision
      BY DEF FreeReview, ReviewState
    <2>3. reviewing' = [reviewing EXCEPT ![w] = x]
      BY <2>1
    <2> HIDE DEF x
    <2> QED BY <1>1, <1>4, <2>2, <2>3, ReviewMoves DEF ReviewRead
  <1>5. CASE ReviewUpdate(w)
    <2> DEFINE x == [reviewing[w] EXCEPT !.pc = "check"]
    <2>1. /\ x \in ReviewState /\ x.pc = "check"
          /\ x.kind = reviewing[w].kind /\ x.decision = reviewing[w].decision
      BY <1>1 DEF ReviewState
    <2>2. reviewing' = [reviewing EXCEPT ![w] = x] /\ reviewing[w].pc # "idle"
      BY <1>5 DEF ReviewUpdate
    <2> HIDE DEF x
    <2> QED BY <1>1, <1>3, <1>5, <2>1, <2>2, ReviewMoves DEF ReviewUpdate
  <1>6. CASE ReviewCheck(w)
    <2> DEFINE v == reviewing[w].decision = "approved" /\ AllApproved(w)
               x == [reviewing[w] EXCEPT !.pc = "commit", !.verified = v]
    <2>1. v \in BOOLEAN
      OBVIOUS
    <2>2. v => reviewing[w].decision = "approved" /\ Kinds \ {reviewing[w].kind} \subseteq approved
      BY DEF AllApproved, IInv, Recorded
    <2>3. reviewing' = [reviewing EXCEPT ![w] = x] /\ reviewing[w].pc # "idle"
      BY <1>6 DEF ReviewCheck
    <2> HIDE DEF v
    <2>4. /\ x \in ReviewState /\ x.pc = "commit" /\ x.verified = v
          /\ x.kind = reviewing[w].kind /\ x.decision = reviewing[w].decision
      BY <1>1, <2>1 DEF ReviewState
    <2> HIDE DEF x
    <2> QED BY <1>1, <1>3, <1>6, <2>2, <2>3, <2>4, ReviewMoves DEF ReviewCheck
  <1>7. CASE ReviewDies(w)
    <2>1. faults' \in 0..MaxFaults
      BY <1>1, <1>7, IdentityAssumption DEF ReviewDies
    <2> QED BY <1>2, <1>7, <2>1, ReviewMoves DEF ReviewDies
  <1> QED BY <1>4, <1>5, <1>6, <1>7

\* The commit: the verdict on the document and the flag at once.
LEMMA CommitStep ==
    ASSUME IInv, NEW w \in Reviewers, ReviewCommit(w)
    PROVE  IInv'
  <1> DEFINE k == reviewing[w].kind
             d == [doc[k] EXCEPT !.status = reviewing[w].decision, !.old = FALSE]
  <1>1. /\ reviewing[w].pc = "commit" /\ k \in Kinds /\ reviewing[w].decision \in Decided
        /\ reviewing[w] \in ReviewState
    BY DEF ReviewCommit, IInv, Judging, Types
  <1>2. doc[k] \in DocState
    BY <1>1 DEF IInv, Types
  <1>3. d \in DocState /\ d.key = doc[k].key /\ d.status = reviewing[w].decision
    BY <1>1, <1>2 DEF DocState
  <1>4. doc' = [doc EXCEPT ![k] = d]
    BY DEF ReviewCommit
  <1>5. /\ approved' = IF reviewing[w].decision = "approved" THEN approved \cup {k} ELSE approved
        /\ verified' = reviewing[w].verified
        /\ reviewing' = [reviewing EXCEPT ![w] = FreeReview]
        /\ UNCHANGED <<uploads, bucket, live, closed, activation, prune, faults>>
    BY DEF ReviewCommit
  <1>6. approved \subseteq approved' /\ approved' \subseteq Kinds
    BY <1>1, <1>5 DEF IInv, Types
  <1> HIDE DEF d
  <1>7. /\ doc' \in [Kinds -> DocState]
        /\ Numbered' /\ Recorded' /\ Spared' /\ PendingFileKept'
    BY <1>1, <1>3, <1>4, <1>5, <1>6, DocJudged
  <1>8. FreeReview \in ReviewState /\ FreeReview.pc = "idle"
    BY DEF FreeReview, ReviewState
  <1>9. \A v \in Reviewers : reviewing'[v] = IF v = w THEN FreeReview ELSE reviewing[v]
    BY <1>5 DEF IInv, Types
  <1>10. Types'
    <2>1. reviewing' \in [Reviewers -> ReviewState]
      BY <1>5, <1>8 DEF IInv, Types
    <2>2. verified' \in BOOLEAN
      BY <1>1, <1>5 DEF ReviewState
    <2> QED BY <1>5, <1>6, <1>7, <2>1, <2>2 DEF IInv, Types
  <1>11. Judging'
    BY <1>6, <1>8, <1>9 DEF IInv, Judging
  <1>12. LiveIsVerified'
    <2>1. live' => approved' = Kinds
      BY <1>5, <1>6 DEF IInv, LiveIsVerified
    <2>2. ASSUME verified' PROVE approved' = Kinds
      <3>1. reviewing[w].decision = "approved" /\ Kinds \ {k} \subseteq approved
        BY <1>1, <1>5, <2>2 DEF IInv, Judging
      <3> QED BY <1>1, <1>5, <1>6, <3>1
    <2> QED BY <2>1, <2>2 DEF LiveIsVerified
  <1> QED BY <1>7, <1>10, <1>11, <1>12 DEF IInv

\* The account: an activation that has seen every document approved.
LEMMA AccountStep ==
    ASSUME IInv, ActivateCheck \/ ActivateWrite \/ Suspend
    PROVE  IInv'
  <1>1. UNCHANGED <<doc, uploads, bucket, verified, closed, reviewing, prune, approved, faults>>
    BY DEF ActivateCheck, ActivateWrite, Suspend
  <1>2. Numbered' /\ Judging' /\ Spared' /\ PendingFileKept'
    BY <1>1 DEF IInv, Numbered, Judging, Spared, PendingFileKept
  <1>3. Types'
    BY <1>1 DEF IInv, Types, ActivateCheck, ActivateWrite, Suspend
  <1>4. Recorded' /\ LiveIsVerified'
    <2>1. CASE ActivateCheck
      <3>1. approved = Kinds
        BY <2>1 DEF ActivateCheck, CompleteVerification, IInv, Recorded, LiveIsVerified, Types
      <3> QED BY <1>1, <2>1, <3>1 DEF ActivateCheck, IInv, Recorded, LiveIsVerified
    <2>2. CASE ActivateWrite
      BY <1>1, <2>2 DEF ActivateWrite, IInv, Recorded, LiveIsVerified
    <2>3. CASE Suspend
      BY <1>1, <2>3 DEF Suspend, IInv, Recorded, LiveIsVerified
    <2> QED BY <2>1, <2>2, <2>3
  <1> QED BY <1>2, <1>3, <1>4 DEF IInv

-----------------------------------------------------------------------------
\* Retention.

LEMMA SelectStep ==
    ASSUME IInv, PruneSelect
    PROVE  IInv'
  <1> DEFINE due == {i \in Kinds : Due(i)}
             todo == {<<k, doc[k].key>> : k \in due}
  <1>1. /\ prune' = [pc |-> "delete", kind |-> NoKind, todo |-> todo]
        /\ UNCHANGED <<doc, uploads, bucket, verified, live, closed, reviewing, activation, approved, faults>>
    BY DEF PruneSelect
  <1>2. ASSUME NEW f \in todo
        PROVE  /\ f \in Kinds \X Nat /\ f[2] \in 1..uploads[f[1]]
               /\ closed \/ doc[f[1]].status # "pending"
    <2>1. PICK k \in due : f = <<k, doc[k].key>>
      OBVIOUS
    <2>2. k \in Kinds /\ doc[k] \in DocState /\ uploads[k] \in Nat /\ doc[k].key <= uploads[k]
      BY <2>1 DEF IInv, Types, Numbered
    <2>3. doc[k].key # 0 /\ (closed \/ doc[k].status \in Decided)
      BY <2>1 DEF Due
    <2> QED BY <2>1, <2>2, <2>3 DEF DocState, Decided
  <1>3. prune'.todo = todo /\ prune' \in PruneState
    BY <1>1, <1>2 DEF PruneState
  <1> HIDE DEF todo
  <1>4. Types'
    BY <1>1, <1>3 DEF IInv, Types
  <1>5. Numbered'
    BY <1>1, <1>2, <1>3 DEF IInv, Numbered
  <1>6. Spared'
    BY <1>1, <1>2, <1>3 DEF Spared
  <1>7. Judging' /\ Recorded' /\ LiveIsVerified' /\ PendingFileKept'
    BY <1>1 DEF IInv, Judging, Recorded, LiveIsVerified, PendingFileKept
  <1> QED BY <1>4, <1>5, <1>6, <1>7 DEF IInv

\* After its selection the job only works the list off.
LEMMA PruneMoves ==
    ASSUME IInv, prune' \in PruneState, prune'.todo \subseteq prune.todo,
           NEW f \in prune.todo,
           \/ bucket' = bucket \/ bucket' = bucket \ {f},
           \/ doc' = doc \/ doc' = [doc EXCEPT ![f[1]].key = 0],
           faults' \in 0..MaxFaults,
           UNCHANGED <<uploads, verified, live, closed, reviewing, activation, approved>>
    PROVE  IInv'
  <1>1. f[1] \in Kinds /\ f[2] \in Nat /\ f = <<f[1], f[2]>> /\ f[2] # 0
    BY DEF IInv, Types, PruneState, Numbered
  <1>2. /\ doc' \in [Kinds -> DocState]
        /\ \A k \in Kinds : doc'[k].status = doc[k].status /\ doc'[k].key \in {0, doc[k].key}
    <2>1. doc \in [Kinds -> DocState]
      BY DEF IInv, Types
    <2>2. CASE doc' = doc
      BY <2>1, <2>2
    <2>3. CASE doc' = [doc EXCEPT ![f[1]].key = 0]
      <3>1. PICK x : x = [doc[f[1]] EXCEPT !.key = 0]
        OBVIOUS
      <3>2. doc[f[1]] \in DocState
        BY <1>1, <2>1
      <3>3. x \in DocState /\ x.status = doc[f[1]].status /\ x.key = 0
        BY <3>1, <3>2 DEF DocState
      <3>4. doc' = [doc EXCEPT ![f[1]] = x]
        BY <1>1, <2>1, <2>3, <3>1
      <3> QED BY <1>1, <2>1, <3>3, <3>4
    <2> QED BY <2>2, <2>3
  <1>3. Types'
    BY <1>2 DEF IInv, Types
  <1>4. Numbered'
    <2>1. \A k \in Kinds : doc'[k].key <= uploads[k]
      BY <1>2 DEF IInv, Types, Numbered
    <2> QED BY <2>1 DEF IInv, Numbered
  <1>5. Judging' /\ Recorded' /\ LiveIsVerified'
    BY <1>2 DEF IInv, Judging, Recorded, LiveIsVerified
  <1>6. Spared'
    <2> SUFFICES ASSUME NEW g \in prune.todo, ~closed, doc[g[1]].status = "pending"
                 PROVE  doc'[g[1]].key # g[2]
      BY <1>2 DEF Spared, IInv, Types, PruneState
    <2>1. g[1] \in Kinds /\ g[2] # 0 /\ doc[g[1]].key # g[2]
      BY DEF IInv, Types, PruneState, Numbered, Spared
    <2> QED BY <1>2, <2>1
  <1>7. PendingFileKept'
    <2> SUFFICES ASSUME NEW k \in Kinds, doc[k].status = "pending", doc'[k].key # 0, ~closed
                 PROVE  <<k, doc'[k].key>> \in bucket'
      BY <1>2 DEF PendingFileKept
    <2>1. doc'[k].key = doc[k].key /\ <<k, doc[k].key>> \in bucket
      BY <1>2 DEF IInv, PendingFileKept
    <2>2. <<k, doc[k].key>> # f
      BY DEF IInv, Spared
    <2> QED BY <2>1, <2>2
  <1> QED BY <1>3, <1>4, <1>5, <1>6, <1>7 DEF IInv

\* The job ends, or dies, and forgets its list.
LEMMA PruneEnds ==
    ASSUME IInv, prune' = NoPrune, faults' \in 0..MaxFaults,
           UNCHANGED <<doc, uploads, bucket, verified, live, closed, reviewing, activation, approved>>
    PROVE  IInv'
  <1>1. NoPrune \in PruneState /\ NoPrune.todo = {}
    BY DEF NoPrune, PruneState
  <1>2. Types'
    BY <1>1 DEF IInv, Types
  <1>3. Numbered' /\ Spared'
    BY <1>1 DEF IInv, Numbered, Spared
  <1>4. Judging' /\ Recorded' /\ LiveIsVerified' /\ PendingFileKept'
    BY DEF IInv, Judging, Recorded, LiveIsVerified, PendingFileKept
  <1> QED BY <1>2, <1>3, <1>4 DEF IInv

LEMMA RetentionStep ==
    ASSUME IInv, PruneStep \/ PruneDies
    PROVE  IInv'
  <1>1. faults \in 0..MaxFaults /\ prune \in PruneState /\ MaxFaults \in Nat
    BY IdentityAssumption DEF IInv, Types
  <1>2. ASSUME NEW f \in prune.todo, AfterRow(f)
        PROVE  prune' \in PruneState /\ prune'.todo \subseteq prune.todo
    <2>1. prune.todo \in SUBSET (Kinds \X Nat)
      BY <1>1 DEF PruneState
    <2>2. CASE prune' = NoPrune
      BY <2>2 DEF NoPrune, PruneState
    <2>3. CASE prune' = [pc |-> "delete", kind |-> NoKind, todo |-> prune.todo \ {f}]
      BY <2>1, <2>3 DEF PruneState
    <2> QED BY <1>2, <2>2, <2>3 DEF AfterRow
  <1>3. ASSUME NEW f \in prune.todo, PruneDelete(f) PROVE IInv'
    <2>1. CASE bucket' = bucket \ {f} /\ prune' = [prune EXCEPT !.pc = "clear", !.kind = f[1]] /\ UNCHANGED faults
      <3>1. f[1] \in Kinds
        BY <1>1 DEF PruneState
      <3>2. prune' \in PruneState /\ prune'.todo = prune.todo
        BY <1>1, <2>1, <3>1 DEF PruneState
      <3> QED BY <1>1, <1>3, <2>1, <3>2, PruneMoves DEF PruneDelete
    <2>2. CASE faults < MaxFaults /\ faults' = faults + 1 /\ AfterRow(f) /\ UNCHANGED bucket
      BY <1>1, <1>2, <1>3, <2>2, PruneMoves DEF PruneDelete
    <2> QED BY <1>3, <2>1, <2>2 DEF PruneDelete
  <1>4. ASSUME NEW f \in prune.todo, PruneClear(f) PROVE IInv'
    <2>1. faults' \in 0..MaxFaults /\ AfterRow(f)
      BY <1>1, <1>4 DEF PruneClear
    <2>2. doc' = doc \/ doc' = [doc EXCEPT ![f[1]].key = 0]
      BY <1>4 DEF PruneClear
    <2> QED BY <1>2, <1>4, <2>1, <2>2, PruneMoves DEF PruneClear
  <1>5. CASE PruneDies
    BY <1>1, <1>5, PruneEnds DEF PruneDies
  <1> QED BY <1>3, <1>4, <1>5, SelectStep DEF PruneStep

-----------------------------------------------------------------------------
LEMMA EveryStep == IInv /\ [IdentityNext]_identityVars => IInv'
  <1> SUFFICES ASSUME IInv, [IdentityNext]_identityVars
               PROVE  IInv'
    OBVIOUS
  <1>1. CASE \E k \in Kinds : Confirm(k) \/ WindowEnds(k)
    BY <1>1, ConfirmStep, WindowStep
  <1>2. CASE CloseAccount
    BY <1>2, CloseStep
  <1>3. ASSUME NEW w \in Reviewers,
               \/ \E k \in Kinds : ReviewRead(w, k)
               \/ ReviewUpdate(w) \/ ReviewCheck(w) \/ ReviewDies(w)
        PROVE  IInv'
    BY <1>3, ReviewStep
  <1>4. ASSUME NEW w \in Reviewers, ReviewCommit(w) PROVE IInv'
    BY <1>4, CommitStep
  <1>5. CASE ActivateCheck \/ ActivateWrite \/ Suspend
    BY <1>5, AccountStep
  <1>6. CASE PruneStep \/ PruneDies
    BY <1>6, RetentionStep
  <1>7. CASE UNCHANGED identityVars
    BY <1>7 DEF identityVars, IInv, Types, Numbered, Judging, Recorded, Spared, LiveIsVerified, PendingFileKept
  <1> QED BY <1>1, <1>2, <1>3, <1>4, <1>5, <1>6, <1>7 DEF IdentityNext

\* The inductive invariant: what a reviewer, an activation or the retention job
\* has read or recorded still holds when it is used, however the others write.
THEOREM Inductive == IdentitySpec => []IInv
  BY Initially, EveryStep, PTL DEF IdentitySpec

\* Every row and every handler has its shape, and files are numbered as they
\* were uploaded.
THEOREM IdentityHasItsShape == IdentitySpec => []IdentityTypeOK
  <1>1. ASSUME IInv PROVE IdentityTypeOK
    <2>1. /\ doc \in [Kinds -> [status : {"none", "pending"} \cup Decided, key : Nat, old : BOOLEAN]]
          /\ \A k \in Kinds : doc[k].key <= uploads[k] /\ uploads[k] \in 0..MaxUploads[k]
      BY <1>1, IdentityAssumption DEF IInv, Types, DocState, Numbered
    <2>2. \A f \in bucket : f[1] \in Kinds /\ f[2] \in 1..uploads[f[1]]
      BY <1>1 DEF IInv, Types, Numbered
    <2>3. \A w \in Reviewers : reviewing[w].pc = "idle" <=> reviewing[w].kind = NoKind
      BY <1>1, IdentityAssumption DEF IInv, Judging, FreeReview
    <2> QED BY <1>1, <2>1, <2>2, <2>3 DEF IInv, Types, IdentityTypeOK
  <1> QED BY <1>1, Inductive, PTL

\* However many reviewers, replacements and activations interleave, nobody goes
\* live, and nobody is marked verified, before each required document has been
\* approved (hasCompleteVerification, hasRequiredApproved).
THEOREM NobodyLiveUnverified == IdentitySpec => []LiveIsVerified
  <1>1. IInv => LiveIsVerified
    BY DEF IInv
  <1> QED BY <1>1, Inductive, PTL

\* pruneExpiredDocuments, wherever it stops and whatever is uploaded while it
\* runs, never deletes the file that a pending document of an open account names.
THEOREM RetentionSparesPending == IdentitySpec => []PendingFileKept
  <1>1. IInv => PendingFileKept
    BY DEF IInv
  <1> QED BY <1>1, Inductive, PTL
=============================================================================
