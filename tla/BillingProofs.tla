--------------------------- MODULE BillingProofs ----------------------------
(***************************************************************************)
(* Payments and Subscriptions in one transaction: neither side does in     *)
(* company what it would not do alone, so what was proved of each holds of *)
(* both together; and the status of a payment and the rows it bought agree *)
(* in every state, for every set of payments and workers.                  *)
(***************************************************************************)
EXTENDS Billing, FiniteSetTheorems, TLAPS

Pay == INSTANCE PaymentsProofs
Sub == INSTANCE SubscriptionsProofs WITH Confirmers <- Workers, MaxCrashes <- MaxDeaths

LEMMA Assumed ==
    /\ Pay!ProviderAssumption /\ Pay!DeathAssumption
    /\ Sub!PurchaseAssumption /\ Sub!CrashAssumption
  BY BillingAssumption
  DEF P!ProviderAssumption, Pay!ProviderAssumption, P!DeathAssumption, Pay!DeathAssumption, S!PurchaseAssumption,
      Sub!PurchaseAssumption, S!CrashAssumption, Sub!CrashAssumption

-----------------------------------------------------------------------------
(* The proofs speak of their own instances of the two modules, which are   *)
(* those of Billing.                                                       *)

LEMMA SamePayments == (Pay!Init <=> P!Init) /\ (Pay!Next <=> P!Next)
  BY DEF P!Init, Pay!Init, P!Next, Pay!Next, P!NewPayment, Pay!NewPayment, P!Idle, Pay!Idle, P!IdlePoll, Pay!IdlePoll,
         P!Locked, Pay!Locked, P!SetStatus, Pay!SetStatus, P!Unsettled, Pay!Unsettled, P!Step, Pay!Step, P!EndJob,
         Pay!EndJob, P!BuyerStep, Pay!BuyerStep, P!CreatePayment, Pay!CreatePayment, P!IntentRefused,
         Pay!IntentRefused, P!IntentIssued, Pay!IntentIssued, P!ReportTransfer, Pay!ReportTransfer, P!Age, Pay!Age,
         P!DecideStep, Pay!DecideStep, P!Review, Pay!Review, P!Webhook, Pay!Webhook, P!WebhookDecision,
         Pay!WebhookDecision, P!Decide, Pay!Decide, P!WriteDecision, Pay!WriteDecision, P!BeginConfirm,
         Pay!BeginConfirm, P!EndTx, Pay!EndTx, P!CommitConfirm, Pay!CommitConfirm, P!RollBack, Pay!RollBack, P!Notify,
         Pay!Notify, P!JobDies, Pay!JobDies, P!Dies, Pay!Dies, P!ReconcileStep, Pay!ReconcileStep, P!ExpireIntents,
         Pay!ExpireIntents, P!ExpireAbandoned, Pay!ExpireAbandoned, P!Expire, Pay!Expire, P!StaleIntents,
         Pay!StaleIntents, P!AbandonedIntents, Pay!AbandonedIntents, P!PollSelect, Pay!PollSelect, P!PollAsk,
         Pay!PollAsk, P!PollWrite, Pay!PollWrite, P!PollDone, Pay!PollDone, P!PollDies, Pay!PollDies, P!Report,
         Pay!Report

LEMMA SameRows == \A p : Sub!RowsOf(p) = S!RowsOf(p) /\ (Sub!AlreadyMinted(p) <=> S!AlreadyMinted(p))
  BY DEF Sub!RowsOf, S!RowsOf, Sub!AlreadyMinted, S!AlreadyMinted

LEMMA SameInsert == \A p, first, rest : Sub!Insert(p, first, rest) <=> S!Insert(p, first, rest)
  <1>1. \A rows : Sub!Cardinality(rows) = S!Cardinality(rows)
    BY DEF Sub!Cardinality, S!Cardinality
  <1>2. \A p : Sub!FirstId(p) = S!FirstId(p) /\ Sub!NewIds(p) = S!NewIds(p)
    BY <1>1, SameRows DEF Sub!FirstId, S!FirstId, Sub!NewIds, S!NewIds
  <1> QED BY <1>2 DEF Sub!Insert, S!Insert

LEMMA SameMint == \A c : Sub!MintStep(c) <=> S!MintStep(c)
  <1> SUFFICES ASSUME NEW c PROVE Sub!MintStep(c) <=> S!MintStep(c)
    OBVIOUS
  <1>1. \A p : Sub!MintBegin(c, p) <=> S!MintBegin(c, p)
    BY SameRows DEF S!MintBegin, Sub!MintBegin, S!Locked, Sub!Locked
  <1>2. Sub!MintSkip(c) <=> S!MintSkip(c)
    BY SameRows DEF S!MintSkip, Sub!MintSkip, S!EndTx, Sub!EndTx, S!IdleTx, Sub!IdleTx
  <1>3. Sub!MintCredits(c) <=> S!MintCredits(c)
    BY SameRows, SameInsert DEF S!MintCredits, Sub!MintCredits, S!EndTx, Sub!EndTx, S!IdleTx, Sub!IdleTx
  <1>4. Sub!MintCheck(c) <=> S!MintCheck(c)
    BY SameRows DEF S!MintCheck, Sub!MintCheck, S!AdvanceTx, Sub!AdvanceTx
  <1>5. Sub!MintReadActive(c) <=> S!MintReadActive(c)
    BY DEF S!MintReadActive, Sub!MintReadActive, S!AdvanceTx, Sub!AdvanceTx, S!Holding, Sub!Holding, S!UserOf,
           Sub!UserOf
  <1>6. Sub!MintReadQueued(c) <=> S!MintReadQueued(c)
    BY DEF S!MintReadQueued, Sub!MintReadQueued, S!AdvanceTx, Sub!AdvanceTx, S!Holding, Sub!Holding, S!UserOf,
           Sub!UserOf
  <1>7. Sub!MintBehind(c) <=> S!MintBehind(c)
    BY SameInsert DEF S!MintBehind, Sub!MintBehind, S!EndTx, Sub!EndTx, S!IdleTx, Sub!IdleTx
  <1>8. Sub!MintStart(c) <=> S!MintStart(c)
    BY SameInsert DEF S!MintStart, Sub!MintStart, S!IndexAdmits, Sub!IndexAdmits, S!Holding, Sub!Holding, S!UserOf, Sub!UserOf,
           S!EndTx, Sub!EndTx, S!IdleTx, Sub!IdleTx
  <1>9. Sub!MintConflict(c) <=> S!MintConflict(c)
    BY DEF S!MintConflict, Sub!MintConflict, S!IndexAdmits, Sub!IndexAdmits, S!Holding, Sub!Holding, S!UserOf,
           Sub!UserOf, S!EndTx, Sub!EndTx, S!IdleTx, Sub!IdleTx
  <1> QED BY <1>1, <1>2, <1>3, <1>4, <1>5, <1>6, <1>7, <1>8, <1>9 DEF S!MintStep, Sub!MintStep

LEMMA SameActivation == \A a : Sub!ActivateStep(a) <=> S!ActivateStep(a)
  BY DEF S!ActivateStep, Sub!ActivateStep, S!ActivateRead, Sub!ActivateRead, S!ActivateCheck, Sub!ActivateCheck,
         S!ActivateSpend, Sub!ActivateSpend, S!ActivateUsed, Sub!ActivateUsed, S!ActivateConflict,
         Sub!ActivateConflict, S!EndRequest, Sub!EndRequest, S!IdleRequest, Sub!IdleRequest, S!Running, Sub!Running,
         S!Holding, Sub!Holding, S!UserOf, Sub!UserOf, S!IndexAdmits, Sub!IndexAdmits, S!SetActive, Sub!SetActive

LEMMA SameSweep == \A s : Sub!SweepStep(s) <=> S!SweepStep(s)
  BY DEF S!SweepStep, Sub!SweepStep, S!SweepExpire, Sub!SweepExpire, S!SweepWaiting, Sub!SweepWaiting, S!PromotePick,
         Sub!PromotePick, S!Promote, Sub!Promote, S!PromoteFails, Sub!PromoteFails, S!SweepBuild, Sub!SweepBuild,
         S!SweepNotify, Sub!SweepNotify, S!SweepDone, Sub!SweepDone, S!Lapsed, Sub!Lapsed, S!Waiting, Sub!Waiting,
         S!OldestQueued, Sub!OldestQueued, S!StillQueued, Sub!StillQueued, S!MaintenanceNotices,
         Sub!MaintenanceNotices, S!RolledOver, Sub!RolledOver, S!EndedAlone, Sub!EndedAlone, S!StartedAlone,
         Sub!StartedAlone, S!IdleSweep, Sub!IdleSweep, S!IndexAdmits, Sub!IndexAdmits, S!SetActive, Sub!SetActive,
         S!Holding, Sub!Holding, S!UserOf, Sub!UserOf

LEMMA SameCrash == (Sub!Crash <=> S!Crash) /\ \A id : Sub!Lapse(id) <=> S!Lapse(id)
  BY DEF S!Crash, Sub!Crash, S!TxDies, Sub!TxDies, S!RequestDies, Sub!RequestDies, S!SweepDies, Sub!SweepDies, S!Dies,
         Sub!Dies, S!EndTx, Sub!EndTx, S!IdleTx, Sub!IdleTx, S!EndRequest, Sub!EndRequest, S!IdleRequest,
         Sub!IdleRequest, S!IdleSweep, Sub!IdleSweep, S!Lapse, Sub!Lapse

LEMMA SameSubscriptions == (Sub!Init <=> S!Init) /\ (Sub!Next <=> S!Next)
  <1>1. Sub!Init <=> S!Init
    BY DEF S!Init, Sub!Init, S!IdleTx, Sub!IdleTx, S!IdleRequest, Sub!IdleRequest, S!IdleSweep, Sub!IdleSweep
  <1>2. Sub!Next <=> S!Next
    BY SameMint, SameActivation, SameSweep, SameCrash DEF S!Next, Sub!Next
  <1> QED BY <1>1, <1>2

-----------------------------------------------------------------------------
(* Each side by itself.                                                    *)

LEMMA PaymentsSide == Next => [P!Next]_pvars
  <1>1. ASSUME NEW w \in Workers, Begin(w) \/ Commit(w) \/ Conflict(w) \/ Dies(w)
        PROVE  P!Next
    BY <1>1 DEF Begin, Commit, Conflict, Dies, P!Next, P!EndTx
  <1>2. ASSUME NEW w \in Workers, MintReads(w) PROVE UNCHANGED pvars
    BY <1>2 DEF MintReads
  <1>3. CASE PaymentsAlone
    BY <1>3 DEF PaymentsAlone, P!Next
  <1> QED BY <1>1, <1>2, <1>3 DEF Next, SubscriptionsAlone

\* The payment a transaction is begun for is one of the table's.
LEMMA SubscriptionsSide == Pay!IInv /\ Next => [S!Next]_svars
  <1> SUFFICES ASSUME Pay!IInv, Next PROVE [S!Next]_svars
    OBVIOUS
  <1>1. ASSUME NEW w \in Workers, Begin(w) PROVE S!Next
    <2>1. job[w].pc = "decided" /\ S!MintBegin(w, job[w].payment)
      BY <1>1 DEF Begin, P!BeginConfirm
    <2>2. job[w].payment \in Payments
      BY <2>1 DEF Pay!IInv, Pay!Meant
    <2>3. S!MintStep(w)
      BY <2>1, <2>2 DEF S!MintStep
    <2> QED BY <2>3 DEF S!Next
  <1>2. ASSUME NEW w \in Workers, MintReads(w) \/ Commit(w) \/ Conflict(w) PROVE S!Next
    <2>1. S!MintStep(w)
      BY <1>2 DEF MintReads, Commit, Conflict, S!MintStep
    <2> QED BY <2>1 DEF S!Next
  <1>3. ASSUME NEW w \in Workers, Dies(w) PROVE [S!Next]_svars
    BY <1>3 DEF Dies, S!Next, S!Crash
  <1>4. CASE SubscriptionsAlone
    BY <1>4 DEF SubscriptionsAlone, S!Next, S!Crash
  <1> QED BY <1>1, <1>2, <1>3, <1>4 DEF Next, PaymentsAlone

\* The payments do nothing that they would not do alone.
THEOREM PaymentsInCompany == Spec => PaymentsSpec
  <1>1. Init => P!Init
    BY DEF Init
  <1>2. [Next]_vars => [P!Next]_P!vars
    BY PaymentsSide DEF vars, pvars, P!vars
  <1> QED BY <1>1, <1>2, PTL DEF Spec, PaymentsSpec, P!Spec

LEMMA PaymentsHold == Spec => []Pay!IInv
  <1>2. P!Init => Pay!IInv
    BY Assumed, SamePayments, Pay!Initially
  <1>3. Pay!IInv /\ [Pay!Next]_Pay!vars => Pay!IInv'
    BY Assumed, Pay!EveryStep
  <1>4. [P!Next]_P!vars => [Pay!Next]_Pay!vars
    BY SamePayments DEF Pay!vars, P!vars
  <1> QED BY <1>2, <1>3, <1>4, PaymentsInCompany, PTL DEF PaymentsSpec, P!Spec

\* Nor do the subscriptions.
THEOREM SubscriptionsInCompany == Spec => SubscriptionsSpec
  <1>1. Init => S!Init
    BY DEF Init
  <1>2. Pay!IInv /\ [Next]_vars => [S!Next]_S!vars
    BY SubscriptionsSide DEF vars, svars, S!vars
  <1> QED BY <1>1, <1>2, PaymentsHold, PTL DEF Spec, SubscriptionsSpec, S!Spec

LEMMA SubscriptionsHold == Spec => []Sub!IInv
  <1>2. S!Init => Sub!IInv
    BY Assumed, SameSubscriptions, Sub!InitIInv
  <1>3. Sub!IInv /\ [Sub!Next]_Sub!vars => Sub!IInv'
    BY Assumed, Sub!NextIInv
  <1>4. [S!Next]_S!vars => [Sub!Next]_Sub!vars
    BY SameSubscriptions DEF Sub!vars, S!vars
  <1> QED BY <1>2, <1>3, <1>4, SubscriptionsInCompany, PTL DEF SubscriptionsSpec, S!Spec

-----------------------------------------------------------------------------
(* Where they meet.                                                        *)

\* The transaction of a worker is one on both sides, and for one payment.
Meets(j, x) == /\ j.pc = "tx" <=> x.pc # "idle"
               /\ x.pc # "idle" => x.payment = j.payment
Met == \A w \in Workers : Meets(job[w], tx[w])

Joint == Met /\ MintedIsGranted

Types == job \in [Workers -> Pay!JobState] /\ tx \in [Workers -> Sub!TxState]

LEMMA Typed == Pay!IInv /\ Sub!IInv => Types
  BY DEF Pay!IInv, Pay!TypeOK, Sub!IInv, Sub!TypeOK, Types

LEMMA OneMeets ==
    ASSUME Types, Met, NEW w \in Workers, NEW j, NEW x, Meets(j, x),
           job' = [job EXCEPT ![w] = j], tx' = [tx EXCEPT ![w] = x]
    PROVE  Met'
  <1>1. \A v \in Workers : /\ job'[v] = IF v = w THEN j ELSE job[v]
                           /\ tx'[v] = IF v = w THEN x ELSE tx[v]
    BY DEF Types
  <1> QED BY <1>1 DEF Met, Meets

LEMMA SameGrants ==
    ASSUME MintedIsGranted, granted' = granted, DOMAIN subs' = DOMAIN subs
    PROVE  MintedIsGranted'
  BY DEF MintedIsGranted, S!RowsOf

LEMMA BeginMeets ==
    ASSUME Types, Joint, NEW w \in Workers, Begin(w)
    PROVE  Joint'
  <1>1. PICK j, x : /\ j = [job[w] EXCEPT !.pc = "tx"]
                    /\ x = [pc |-> "check", payment |-> job[w].payment, behind |-> FALSE]
    OBVIOUS
  <1>2. job' = [job EXCEPT ![w] = j] /\ tx' = [tx EXCEPT ![w] = x] /\ UNCHANGED <<subs, granted>>
    BY <1>1 DEF Begin, P!BeginConfirm, P!Step, S!MintBegin
  <1>3. j.pc = "tx" /\ j.payment = job[w].payment
    BY <1>1 DEF Types, Pay!JobState
  <1>4. Meets(j, x)
    BY <1>1, <1>3 DEF Meets
  <1> QED BY <1>2, <1>4, OneMeets, SameGrants DEF Joint

LEMMA ReadsMeet ==
    ASSUME Types, Joint, NEW w \in Workers, MintReads(w)
    PROVE  Joint'
  <1>1. PICK pc, behind : /\ tx[w].pc # "idle" /\ pc # "idle"
                          /\ tx' = [tx EXCEPT ![w] = [pc |-> pc, payment |-> tx[w].payment, behind |-> behind]]
    BY DEF MintReads, S!MintCheck, S!MintReadActive, S!MintReadQueued, S!AdvanceTx
  <1>2. PICK j, x : j = job[w] /\ x = [pc |-> pc, payment |-> tx[w].payment, behind |-> behind]
    OBVIOUS
  <1>3. UNCHANGED <<subs, job, granted>>
    BY DEF MintReads, pvars, S!MintCheck, S!MintReadActive, S!MintReadQueued
  <1>4. job' = [job EXCEPT ![w] = j]
    BY <1>2, <1>3 DEF Types
  <1>5. Meets(j, x)
    BY <1>1, <1>2 DEF Joint, Met, Meets
  <1> QED BY <1>1, <1>2, <1>3, <1>4, <1>5, OneMeets, SameGrants DEF Joint

\* Both sides end the transaction.
LEMMA EndMeets ==
    ASSUME Types, Met, NEW w \in Workers, NEW j, j.pc # "tx", job' = [job EXCEPT ![w] = j], S!EndTx(w)
    PROVE  Met'
  <1>1. PICK x : x = S!IdleTx
    OBVIOUS
  <1>2. tx' = [tx EXCEPT ![w] = x] /\ x.pc = "idle"
    BY <1>1 DEF S!EndTx, S!IdleTx
  <1>3. Meets(j, x)
    BY <1>2 DEF Meets
  <1> QED BY <1>2, <1>3, OneMeets

\* A commit mints what it grants: its payment has the rows already or gets
\* them now, and no other payment does.
LEMMA CommitMeets ==
    ASSUME Types, Joint, Sub!IInv, NEW w \in Workers, Commit(w)
    PROVE  Joint'
  <1>1. PICK j : j = [job[w] EXCEPT !.pc = "notify"]
    OBVIOUS
  <1>2. j.pc = "notify" /\ job[w].pc = "tx"
    BY <1>1 DEF Types, Pay!JobState, Commit, P!CommitConfirm
  <1>3. job' = [job EXCEPT ![w] = j] /\ granted' = granted \cup {job[w].payment}
    BY <1>1 DEF Commit, P!CommitConfirm, P!Step
  <1>4. S!EndTx(w)
    BY DEF Commit, S!MintSkip, S!MintCredits, S!MintBehind, S!MintStart
  <1>5. Met'
    BY <1>2, <1>3, <1>4, EndMeets DEF Joint
  <1>6. PICK p \in Payments : p = job[w].payment /\ p = tx[w].payment
    <2>1. tx[w].pc # "idle" /\ tx[w].payment = job[w].payment
      BY <1>2 DEF Joint, Met, Meets
    <2> QED BY <2>1 DEF Sub!IInv, Sub!TxInv
  <1>7. S!RowsOf(p)' # {} /\ \A q \in Payments \ {p} : S!RowsOf(q)' = S!RowsOf(q)
    <2>1. CASE S!MintSkip(w)
      BY <1>6, <2>1 DEF S!MintSkip, S!AlreadyMinted, S!RowsOf
    <2>2. ASSUME NEW first \in {"ready", "active", "queued", "expired"},
                 NEW rest \in {"ready", "active", "queued", "expired"},
                 S!Insert(p, first, rest), Sub!RowsOf(p) = {}
          PROVE  S!RowsOf(p)' # {} /\ \A q \in Payments \ {p} : S!RowsOf(q)' = S!RowsOf(q)
      <3>1. S!Cardinality(S!RowsOf(p)) = 0
        <4>1. S!Cardinality({}) = Cardinality({})
          BY DEF S!Cardinality, Cardinality
        <4> QED BY <2>2, <4>1, SameRows, FS_EmptySet
      <3>2. S!NewIds(p) = Sub!Purchase(p)
        <4>1. Quantity[p] \in Nat \ {0}
          BY Assumed DEF Sub!PurchaseAssumption
        <4> QED BY <3>1, <4>1 DEF S!NewIds, Sub!Purchase
      <3>4. DOMAIN subs' = DOMAIN subs \cup Sub!Purchase(p)
        BY <2>2, <3>2 DEF S!Insert
      <3>3. <<p, 1>> \in Sub!Purchase(p) /\ \A id \in Sub!Purchase(p) : id[1] = p
        BY Assumed DEF Sub!Purchase, Sub!PurchaseAssumption
      <3> QED BY <3>4, <3>3 DEF S!RowsOf
    <2>3. CASE S!MintCredits(w)
      <3>1. S!Insert(tx[w].payment, "ready", "ready") /\ ~S!AlreadyMinted(tx[w].payment)
        BY <2>3 DEF S!MintCredits
      <3>2. S!Insert(p, "ready", "ready") /\ Sub!RowsOf(p) = {}
        BY <1>6, <3>1, SameRows DEF S!AlreadyMinted, S!Insert, S!NewIds, S!FirstId, S!RowsOf
      <3> QED BY <2>2, <3>2
    <2>4. CASE S!MintBehind(w)
      <3>1. S!Insert(tx[w].payment, "queued", "queued") /\ tx[w].pc = "insert"
        BY <2>4 DEF S!MintBehind
      <3>2. S!Insert(p, "queued", "queued") /\ Sub!RowsOf(p) = {}
        BY <1>6, <3>1 DEF S!Insert, S!NewIds, S!FirstId, S!RowsOf, Sub!IInv, Sub!TxInv, Sub!RowsOf
      <3> QED BY <2>2, <3>2
    <2>5. CASE S!MintStart(w)
      <3>1. S!Insert(tx[w].payment, "active", "queued") /\ tx[w].pc = "insert"
        BY <2>5 DEF S!MintStart
      <3>2. S!Insert(p, "active", "queued") /\ Sub!RowsOf(p) = {}
        BY <1>6, <3>1 DEF S!Insert, S!NewIds, S!FirstId, S!RowsOf, Sub!IInv, Sub!TxInv, Sub!RowsOf
      <3> QED BY <2>2, <3>2
    <2> QED BY <2>1, <2>3, <2>4, <2>5 DEF Commit
  <1>8. MintedIsGranted'
    <2>1. ASSUME NEW q \in Payments PROVE S!RowsOf(q)' # {} <=> q \in granted'
      BY <1>3, <1>6, <1>7 DEF Joint, MintedIsGranted
    <2> QED BY <2>1 DEF MintedIsGranted
  <1> QED BY <1>5, <1>8 DEF Joint

LEMMA ConflictMeets ==
    ASSUME Types, Joint, NEW w \in Workers, Conflict(w)
    PROVE  Joint'
  <1>1. PICK j : j = P!Idle
    OBVIOUS
  <1>2. job' = [job EXCEPT ![w] = j] /\ j.pc # "tx" /\ S!EndTx(w) /\ UNCHANGED <<subs, granted>>
    BY <1>1 DEF Conflict, P!RollBack, P!EndJob, P!Idle, S!MintConflict
  <1> QED BY <1>2, EndMeets, SameGrants DEF Joint

LEMMA DiesMeets ==
    ASSUME Types, Joint, NEW w \in Workers, Dies(w)
    PROVE  Joint'
  <1>1. PICK j : j = P!Idle
    OBVIOUS
  <1>2. job' = [job EXCEPT ![w] = j] /\ j.pc = "idle" /\ UNCHANGED granted
    BY <1>1 DEF Dies, P!JobDies, P!EndJob, P!Idle
  <1>3. CASE job[w].pc = "tx"
    <2>1. S!EndTx(w) /\ UNCHANGED subs
      BY <1>3 DEF Dies, S!TxDies
    <2> QED BY <1>2, <2>1, EndMeets, SameGrants DEF Joint
  <1>4. CASE job[w].pc # "tx"
    <2>1. PICK x : x = tx[w]
      OBVIOUS
    <2>2. tx' = [tx EXCEPT ![w] = x] /\ UNCHANGED subs
      BY <1>4, <2>1 DEF Dies, svars, Types
    <2>3. Meets(j, x)
      BY <1>2, <1>4, <2>1 DEF Joint, Met, Meets
    <2> QED BY <1>2, <2>2, <2>3, OneMeets, SameGrants DEF Joint
  <1> QED BY <1>3, <1>4

\* No step of the payments alone is inside a transaction.
LEMMA PaymentsAloneMeets ==
    ASSUME Types, Joint, PaymentsAlone
    PROVE  Joint'
  <1>1. UNCHANGED <<subs, tx>>
    BY DEF PaymentsAlone, svars
  <1>2. CASE UNCHANGED <<job, granted>>
    BY <1>1, <1>2, SameGrants DEF Joint, Met
  <1>3. ASSUME NEW w \in Workers, NEW j, job' = [job EXCEPT ![w] = j], j.pc # "tx", job[w].pc # "tx",
               UNCHANGED granted
        PROVE  Joint'
    <2>1. PICK x : x = tx[w]
      OBVIOUS
    <2>2. tx' = [tx EXCEPT ![w] = x] /\ Meets(j, x)
      BY <1>1, <1>3, <2>1 DEF Types, Joint, Met, Meets
    <2> QED BY <1>1, <1>3, <2>2, OneMeets, SameGrants DEF Joint
  <1>4. ASSUME NEW w \in Workers, P!DecideStep(w) PROVE Joint'
    <2>1. PICK p, d, by : P!Decide(w, p, d, by)
      BY <1>4 DEF P!DecideStep, P!Review, P!Webhook
    <2>2. PICK j : j = [pc |-> "decided", payment |-> p, decision |-> d, by |-> by]
      OBVIOUS
    <2>3. job' = [job EXCEPT ![w] = j] /\ j.pc # "tx" /\ job[w].pc # "tx" /\ UNCHANGED granted
      BY <2>1, <2>2 DEF P!Decide
    <2> QED BY <1>3, <2>3
  <1>5. ASSUME NEW w \in Workers, P!WriteDecision(w) PROVE Joint'
    <2>1. job[w].pc = "decided" /\ UNCHANGED granted /\ (P!Step(w, "notify") \/ P!EndJob(w))
      BY <1>5 DEF P!WriteDecision
    <2>2. PICK i, n : i = P!Idle /\ n = [job[w] EXCEPT !.pc = "notify"]
      OBVIOUS
    <2>3. i.pc # "tx" /\ n.pc # "tx"
      BY <2>2 DEF P!Idle, Types, Pay!JobState
    <2>4. job' = [job EXCEPT ![w] = i] \/ job' = [job EXCEPT ![w] = n]
      BY <2>1, <2>2 DEF P!Step, P!EndJob
    <2> QED BY <1>3, <2>1, <2>3, <2>4
  <1>6. ASSUME NEW w \in Workers, P!Notify(w) PROVE Joint'
    <2>1. PICK j : j = P!Idle
      OBVIOUS
    <2>2. job' = [job EXCEPT ![w] = j] /\ j.pc # "tx" /\ job[w].pc # "tx" /\ UNCHANGED granted
      BY <1>6, <2>1 DEF P!Notify, P!EndJob, P!Idle
    <2> QED BY <1>3, <2>2
  <1>7. ASSUME NEW p \in Payments, P!BuyerStep(p) \/ P!Age(p) PROVE UNCHANGED <<job, granted>>
    BY <1>7 DEF P!BuyerStep, P!CreatePayment, P!IntentRefused, P!IntentIssued, P!ReportTransfer, P!Age
  <1>8. ASSUME P!ReconcileStep \/ P!PollDies PROVE UNCHANGED <<job, granted>>
    BY <1>8 DEF P!ReconcileStep, P!ExpireIntents, P!ExpireAbandoned, P!PollSelect, P!PollAsk, P!PollWrite,
                P!PollDone, P!PollDies
  <1> QED BY <1>2, <1>4, <1>5, <1>6, <1>7, <1>8 DEF PaymentsAlone

\* Nor does a step of the subscriptions alone add rows.
LEMMA SubscriptionsAloneMeets ==
    ASSUME Types, Joint, SubscriptionsAlone
    PROVE  Joint'
  <1>1. UNCHANGED <<job, granted>>
    BY DEF SubscriptionsAlone, pvars
  <1>2. ASSUME NEW a \in Activators, S!ActivateStep(a) \/ S!RequestDies(a)
        PROVE  UNCHANGED tx /\ DOMAIN subs' = DOMAIN subs
    BY <1>2 DEF S!ActivateStep, S!ActivateRead, S!ActivateCheck, S!ActivateSpend, S!ActivateUsed,
                S!ActivateConflict, S!SetActive, S!RequestDies
  <1>3. ASSUME NEW s \in Sweepers, S!SweepStep(s) \/ S!SweepDies(s)
        PROVE  UNCHANGED tx /\ DOMAIN subs' = DOMAIN subs
    BY <1>3 DEF S!SweepStep, S!SweepExpire, S!SweepWaiting, S!PromotePick, S!Promote, S!PromoteFails,
                S!SweepBuild, S!SweepNotify, S!SweepDone, S!SetActive, S!SweepDies
  <1>4. ASSUME NEW id \in DOMAIN subs, S!Lapse(id)
        PROVE  UNCHANGED tx /\ DOMAIN subs' = DOMAIN subs
    BY <1>4 DEF S!Lapse
  <1>5. UNCHANGED tx /\ DOMAIN subs' = DOMAIN subs
    BY <1>2, <1>3, <1>4 DEF SubscriptionsAlone
  <1> QED BY <1>1, <1>5, SameGrants DEF Joint, Met

LEMMA StepMeets == Pay!IInv /\ Sub!IInv /\ Joint /\ [Next]_vars => Joint'
  <1> SUFFICES ASSUME Pay!IInv, Sub!IInv, Joint, [Next]_vars PROVE Joint'
    OBVIOUS
  <1>1. Types
    BY Typed
  <1>2. CASE UNCHANGED vars
    <2>1. UNCHANGED <<job, tx, subs, granted>>
      BY <1>2 DEF vars, pvars, svars
    <2> QED BY <2>1, SameGrants DEF Joint, Met
  <1> QED BY <1>1, <1>2, BeginMeets, ReadsMeet, CommitMeets, ConflictMeets, DiesMeets, PaymentsAloneMeets,
             SubscriptionsAloneMeets DEF Next

LEMMA MeetThroughout == Spec => []Joint
  <1>1. Init => Joint
    BY DEF Init, P!Init, P!Idle, S!Init, S!IdleTx, Joint, Met, Meets, MintedIsGranted, S!RowsOf
  <1> QED BY <1>1, StepMeets, PaymentsHold, SubscriptionsHold, PTL DEF Spec

\* Rows exist for exactly the payments whose confirmation committed: no mint
\* survives a rolled-back transaction, and none is missed (mintForPayment in
\* the transactions of reviewPayment and of the webhook).
THEOREM RowsFollowGrants == Spec => []MintedIsGranted
  <1>1. Joint => MintedIsGranted
    BY DEF Joint
  <1> QED BY <1>1, MeetThroughout, PTL

\* "Either both land or neither does": a payment that reads 'confirmed' has
\* exactly the rows it bought, in every state, whoever confirmed it, however
\* often, and whatever died, conflicted or rolled back on the way.
THEOREM ConfirmedHasItsRows == Spec => []ConfirmedIsMinted
  <1>1. Pay!IInv /\ Sub!IInv /\ Joint => ConfirmedIsMinted
    <2> SUFFICES ASSUME Pay!IInv, Sub!IInv, Joint, NEW p \in Payments, payment[p].status = "confirmed"
                 PROVE  S!RowsOf(p) = S!Purchase(p)
      BY DEF ConfirmedIsMinted
    <2>1. p \in granted
      BY DEF Pay!IInv, Pay!Safe, Pay!ConfirmedIsGranted
    <2>2. Sub!RowsOf(p) # {}
      BY <2>1, SameRows DEF Joint, MintedIsGranted
    <2>3. Sub!RowsOf(p) = Sub!Purchase(p)
      BY <2>2 DEF Sub!IInv, Sub!MintedOnce
    <2> QED BY <2>3, SameRows DEF Sub!Purchase, S!Purchase
  <1> QED BY <1>1, MeetThroughout, PaymentsHold, SubscriptionsHold, PTL

\* What each table guarantees alone it guarantees while the two are written
\* together: one active row per buyer, no purchase granted twice, nobody told of
\* a confirmation that rolled back, no reported transfer aged out.
THEOREM GuaranteesCarryOver ==
    Spec => [](/\ S!OneActivePerUser /\ S!MintedOnce
               /\ P!ToldIsGranted /\ P!ReportedManualKept)
  <1>1. Sub!IInv => S!OneActivePerUser /\ S!MintedOnce
    <2>1. Sub!OneActivePerUser => S!OneActivePerUser
      BY DEF Sub!OneActivePerUser, S!OneActivePerUser, Sub!Holding, S!Holding, Sub!UserOf, S!UserOf
    <2>2. Sub!MintedOnce => S!MintedOnce
      BY SameRows DEF Sub!MintedOnce, S!MintedOnce, Sub!Purchase, S!Purchase
    <2> QED BY <2>1, <2>2 DEF Sub!IInv
  <1>2. Pay!IInv => P!ToldIsGranted /\ P!ReportedManualKept
    BY DEF Pay!IInv, Pay!Safe, Pay!ToldIsGranted, P!ToldIsGranted, Pay!ReportedManualKept, P!ReportedManualKept
  <1> QED BY <1>1, <1>2, PaymentsHold, SubscriptionsHold, PTL

-----------------------------------------------------------------------------
(* The promise of Entitlements, kept by both together.                     *)

\* The periods bought, as both instances map them.
Mapped == [id \in S!BoughtPeriods |-> S!PeriodState(id)]

LEMMA SameMapping == Sub!Mapped = Mapped /\ Sub!Mapped' = Mapped'
  BY DEF Sub!Mapped, Mapped, Sub!BoughtPeriods, S!BoughtPeriods, Sub!Purchase, S!Purchase,
         Sub!PeriodState, S!PeriodState

LEMMA SamePromise ==
    /\ Sub!Promise!Init <=> S!Promise!Init
    /\ Sub!Promise!Next <=> S!Promise!Next
  BY DEF S!Promise!Init, Sub!Promise!Init, S!Promise!Next, Sub!Promise!Next, S!Promise!Grant, Sub!Promise!Grant,
         S!Promise!Start, Sub!Promise!Start, S!Promise!ComesDue, Sub!Promise!ComesDue, S!Promise!End, Sub!Promise!End,
         S!Promise!Bought, Sub!Promise!Bought, S!Promise!InUse, Sub!Promise!InUse, S!Promise!Periods,
         Sub!Promise!Periods, S!BoughtPeriods, Sub!BoughtPeriods, S!Purchase, Sub!Purchase, S!PeriodState,
         Sub!PeriodState

\* A buyer's periods, counted from the callback or review that confirms the
\* payment: bought whole and once, one in use at a time, none ended before its
\* time (process, reviewPayment, mintForPayment, activate, maintenance).
THEOREM PromiseIsKeptInCompany == Spec => S!KeepsPromise
  <1>1. S!Init => S!Promise!Init
    BY Assumed, SameSubscriptions, SamePromise, Sub!InitPromised
  <1>2. Sub!IInv /\ [S!Next]_S!vars => [S!Promise!Next]_Mapped
    BY Assumed, SameSubscriptions, SameMapping, SamePromise, Sub!NextRefines DEF Sub!vars, S!vars
  <1> QED BY <1>1, <1>2, SubscriptionsInCompany, SubscriptionsHold, PTL
          DEF SubscriptionsSpec, S!Spec, S!KeepsPromise, S!Promise!Spec, Mapped

-----------------------------------------------------------------------------
(* The agreement of Settlement, while the rows are minted.                 *)

\* The columns, as both instances read them.
Columns == <<P!Words, P!Transfers, P!Reported, P!Asked, granted, told>>

LEMMA SameColumnsRead == Pay!avars = Columns /\ Pay!avars' = Columns'
  BY DEF Pay!avars, Columns, Pay!Words, P!Words, Pay!Transfers, P!Transfers, Pay!Reported, P!Reported, Pay!Asked,
         P!Asked

LEMMA SameAgreement ==
    /\ Pay!Agreed!Init <=> P!Agreed!Init
    /\ Pay!Agreed!Next <=> P!Agreed!Next
  BY DEF P!Agreed!Init, Pay!Agreed!Init, P!Agreed!Next, Pay!Agreed!Next, P!Agreed!Open, Pay!Agreed!Open, P!Agreed!Ask,
         Pay!Agreed!Ask, P!Agreed!Report, Pay!Agreed!Report, P!Agreed!Confirm, Pay!Agreed!Confirm, P!Agreed!Reject,
         Pay!Agreed!Reject, P!Agreed!Object, Pay!Agreed!Object, P!Agreed!LetGo, Pay!Agreed!LetGo, P!Agreed!Tell,
         Pay!Agreed!Tell, P!Agreed!Says, Pay!Agreed!Says, P!Agreed!Undecided, Pay!Agreed!Undecided, P!Words,
         Pay!Words, P!Transfers, Pay!Transfers, P!Reported, Pay!Reported, P!Asked, Pay!Asked

\* A payment settles as agreed also when its confirmation takes the rows along
\* and a conflict among them undoes it (mintForPayment inside the transactions
\* of reviewPayment and process).
THEOREM AgreementIsKeptInCompany == Spec => P!SettlesAsAgreed
  <1>1. P!Init => P!Agreed!Init /\ Pay!Heard
    BY Assumed, SamePayments, SameAgreement, Pay!AgreedAtFirst
  <1>2. Pay!IInv /\ Pay!Heard /\ [P!Next]_P!vars => [P!Agreed!Next]_Columns /\ Pay!Heard'
    BY Assumed, SamePayments, SameAgreement, SameColumnsRead, Pay!EveryStepAgrees DEF Pay!vars, P!vars, Pay!AsAgreed
  <1> QED BY <1>1, <1>2, PaymentsInCompany, PaymentsHold, PTL
          DEF PaymentsSpec, P!Spec, P!SettlesAsAgreed, P!Agreed!Spec, Columns
=============================================================================
