--------------------------- MODULE PaymentsProofs ---------------------------
(***************************************************************************)
(* The payments table, for any number of rows, reviews and callbacks: a    *)
(* confirmed payment is granted, nobody is told otherwise, and a reported  *)
(* bank transfer is never expired.                                         *)
(*                                                                         *)
(* None of the three is inductive.  Deciding, writing and notifying are    *)
(* steps apart, so what is true of the table must be told of the decisions *)
(* still on their way to it: a handler inside a transaction means to       *)
(* confirm, one that is about to announce a confirmation has committed it, *)
(* and whoever carries the word "expired" - a callback, or the poll with   *)
(* its list of rows - carries it for a row of an online provider.  That    *)
(* stays so because a row is created once, which fixes its provider.       *)
(*                                                                         *)
(* The last part shows that the table and its writers implement            *)
(* Settlement, which says what holds of words that fall on each other.     *)
(***************************************************************************)
EXTENDS Payments, TLAPS

Created(p) == payment[p].provider # "none"

Online(p) == payment[p].provider = "online"

\* A row is blank exactly as long as its checkout has not begun.
Blank == \A p \in Payments :
    /\ Created(p) <=> payment[p].checkout # "none"
    /\ Created(p) <=> payment[p].status # "none"
    /\ ~Created(p) => payment[p] = NewPayment

\* What a review or a callback in progress is about to do.
Meant == \A w \in Workers : job[w].pc # "idle" =>
    /\ job[w].payment \in Payments /\ Created(job[w].payment)
    /\ job[w].decision \in Decision
    /\ job[w].decision = "expired" => Online(job[w].payment)
    /\ job[w].pc = "tx" => job[w].decision = "confirmed"
    /\ job[w].pc = "notify" /\ job[w].decision = "confirmed" => job[w].payment \in granted

\* Reconciliation asks about, and decides, rows of online providers only.
Polled ==
    /\ \A p \in poll.todo : Online(p)
    /\ poll.pc = "write" => /\ poll.row \in Payments
                            /\ poll.verdict \in {"rejected", "expired"}
                            /\ Online(poll.row)

Safe == ConfirmedIsGranted /\ ToldIsGranted /\ ReportedManualKept

IInv == TypeOK /\ Blank /\ Meant /\ Polled /\ Safe

-----------------------------------------------------------------------------
LEMMA Initially == Init => IInv
  BY DeathAssumption
  DEF Init, IInv, TypeOK, Blank, Meant, Polled, Safe, NewPayment, Idle, IdlePoll,
      Row, JobState, PollState, Status, Decision, Online, Created,
      ConfirmedIsGranted, ToldIsGranted, ReportedManualKept

\* What every write to the table owes to it: a row that was created keeps its
\* provider, nothing is confirmed that is not granted and no reported transfer
\* expires.
Harmless(p) ==
    /\ Created(p) => payment'[p].provider = payment[p].provider
    /\ payment'[p].status = "confirmed" => p \in granted'
    /\ payment'[p].provider = "manual" /\ payment'[p].reported
           => payment'[p].status # "expired"

GoodWrite == payment' \in [Payments -> Row] /\ Blank' /\ \A p \in Payments : Harmless(p)

\* A step that only writes the table.
LEMMA OnlyTable ==
    ASSUME IInv, GoodWrite,
           granted' = granted, job' = job, poll' = poll, told' = told, deaths' = deaths
    PROVE  IInv'
  <1>1. TypeOK'
    BY DEF IInv, TypeOK, GoodWrite
  <1>2. Meant'
    BY DEF IInv, Meant, Online, Created, GoodWrite, Harmless
  <1>3. poll.todo \subseteq Payments
    BY DEF IInv, TypeOK, PollState
  <1>4. Polled'
    BY <1>3 DEF IInv, Polled, Online, Created, GoodWrite, Harmless
  <1>5. Safe'
    BY DEF IInv, Safe, ConfirmedIsGranted, ToldIsGranted, ReportedManualKept, GoodWrite, Harmless
  <1> QED BY <1>1, <1>2, <1>4, <1>5 DEF IInv, GoodWrite

\* A step that writes no row at all.
LEMMA NoWrite ==
    ASSUME IInv, payment' = payment, granted' = granted
    PROVE  GoodWrite
  BY DEF IInv, TypeOK, GoodWrite, Blank, Created, Harmless, Safe, ConfirmedIsGranted, ReportedManualKept

\* A step that replaces one job, and may write the table, grant and tell.
LEMMA OneJob ==
    ASSUME IInv, NEW w \in Workers, NEW x \in JobState,
           x.pc # "idle" =>
               /\ x.payment \in Payments /\ Created(x.payment)
               /\ x.decision \in Decision
               /\ x.decision = "expired" => Online(x.payment)
               /\ x.pc = "tx" => x.decision = "confirmed"
               /\ x.pc = "notify" /\ x.decision = "confirmed" => x.payment \in granted',
           job' = [job EXCEPT ![w] = x],
           GoodWrite, granted \subseteq granted', granted' \subseteq Payments, poll' = poll,
           told' \subseteq Payments \X Decision,
           \A p \in Payments : <<p, "confirmed">> \in told' => p \in granted',
           deaths' \in 0 .. MaxDeaths
    PROVE  IInv'
  <1>1. job' \in [Workers -> JobState]
    BY DEF IInv, TypeOK
  <1>2. TypeOK'
    BY <1>1 DEF IInv, TypeOK, GoodWrite
  <1>3. \A v \in Workers : job'[v] = IF v = w THEN x ELSE job[v]
    BY DEF IInv, TypeOK
  <1>4. \A p \in Payments : Created(p) => Created(p)' /\ (Online(p) => Online(p)')
    BY DEF GoodWrite, Harmless, Created, Online
  <1>5. Meant'
    BY <1>3, <1>4 DEF IInv, Meant, Created, Online
  <1>6. Polled'
    <2>1. poll.todo \subseteq Payments
      BY DEF IInv, TypeOK, PollState
    <2>2. \A p \in Payments : Online(p) => Online(p)'
      BY DEF GoodWrite, Harmless, Created, Online
    <2> QED BY <2>1, <2>2 DEF IInv, Polled, Online
  <1>7. Safe'
    BY DEF GoodWrite, Harmless, Safe, ConfirmedIsGranted, ToldIsGranted, ReportedManualKept
  <1> QED BY <1>2, <1>5, <1>6, <1>7 DEF IInv, GoodWrite

\* One row is replaced.
LEMMA RowWrite ==
    ASSUME IInv, NEW p \in Payments, NEW x \in Row, payment' = [payment EXCEPT ![p] = x],
           x.provider # "none", x.checkout # "none", x.status # "none",
           Created(p) => x.provider = payment[p].provider,
           x.status = "confirmed" => p \in granted', granted \subseteq granted',
           x.provider = "manual" /\ x.reported => x.status # "expired"
    PROVE  GoodWrite
  <1>1. payment \in [Payments -> Row]
    BY DEF IInv, TypeOK
  <1>2. \A q \in Payments : payment'[q] = IF q = p THEN x ELSE payment[q]
    BY <1>1
  <1>3. payment' \in [Payments -> Row]
    BY <1>1
  <1>4. Blank'
    BY <1>2 DEF IInv, Blank, Created
  <1>5. ASSUME NEW q \in Payments
        PROVE  Harmless(q)
    <2>1. CASE q = p
      BY <1>2, <2>1 DEF Harmless, Created
    <2>2. CASE q # p
      BY <1>2, <2>2 DEF Harmless, IInv, Safe, ConfirmedIsGranted, ReportedManualKept
    <2> QED BY <2>1, <2>2
  <1> QED BY <1>3, <1>4, <1>5 DEF GoodWrite

\* One row is given another status.
LEMMA OneStatus ==
    ASSUME IInv, NEW p \in Payments, NEW s \in Status, SetStatus(p, s), Created(p),
           s = "confirmed" => p \in granted', granted \subseteq granted',
           s = "expired" => Online(p)
    PROVE  GoodWrite
  <1> DEFINE x == [payment[p] EXCEPT !.status = s]
  <1>1. payment[p] \in Row
    BY DEF IInv, TypeOK
  <1>2. x \in Row
    BY <1>1 DEF Row
  <1>3. payment' = [payment EXCEPT ![p] = x]
    BY DEF SetStatus
  <1>4. x.status = s /\ x.provider = payment[p].provider /\ x.checkout = payment[p].checkout
    BY <1>1 DEF Row
  <1>5. x.provider # "none" /\ x.checkout # "none" /\ x.status # "none"
    BY <1>4 DEF IInv, Blank, Created, Status
  <1> HIDE DEF x
  <1> QED BY <1>2, <1>3, <1>4, <1>5, RowWrite DEF Online

-----------------------------------------------------------------------------
\* Checkout, and the clock.

LEMMA CheckoutStep ==
    ASSUME IInv, NEW p \in Payments, BuyerStep(p) \/ Age(p)
    PROVE  IInv'
  <1>1. payment[p] \in Row /\ ("none" # payment[p].status => Created(p))
    BY DEF IInv, TypeOK, Blank, NewPayment
  <1>2. ASSUME NEW provider \in Providers, NEW reference \in BOOLEAN,
               CreatePayment(p, provider, reference)
        PROVE  IInv'
    <2> DEFINE x == [checkout |-> "open", status |-> "pending", provider |-> provider,
                     reported |-> reference, dated |-> FALSE, age |-> "fresh"]
    <2>1. x \in Row /\ x.provider # "none"
      BY ProviderAssumption DEF Row, Status
    <2>2. ~Created(p)
      BY <1>2 DEF CreatePayment, IInv, Blank
    <2>3. GoodWrite
      BY <1>2, <2>1, <2>2, RowWrite DEF CreatePayment
    <2> QED BY <1>2, <2>3, OnlyTable DEF CreatePayment
  <1>3. CASE IntentRefused(p)
    <2> DEFINE x == [payment[p] EXCEPT !.checkout = "refused"]
    <2>1. x \in Row /\ Created(p) /\ payment' = [payment EXCEPT ![p] = x]
      BY <1>1, <1>3 DEF IntentRefused, Row, IInv, Blank
    <2>2. /\ x.checkout = "refused" /\ x.status = payment[p].status
          /\ x.provider = payment[p].provider /\ x.reported = payment[p].reported
      BY <1>1 DEF Row
    <2>3. granted' = granted
      BY <1>3 DEF IntentRefused
    <2> HIDE DEF x
    <2>4. GoodWrite
      BY <2>1, <2>2, <2>3, RowWrite DEF Created, IInv, Blank, Safe, ConfirmedIsGranted, ReportedManualKept
    <2> QED BY <1>3, <2>4, OnlyTable DEF IntentRefused
  <1>4. CASE IntentIssued(p)
    <2>0. PICK dated \in BOOLEAN : payment' = [payment EXCEPT ![p].checkout = "issued",
                                                            ![p].status = "awaiting_provider", ![p].dated = dated]
      BY <1>4 DEF IntentIssued
    <2> DEFINE x == [payment[p] EXCEPT !.checkout = "issued", !.status = "awaiting_provider", !.dated = dated]
    <2>1. x \in Row /\ Created(p) /\ payment' = [payment EXCEPT ![p] = x]
      BY <1>1, <1>4, <2>0 DEF IntentIssued, Row, Status, IInv, Blank
    <2>2. /\ x.checkout = "issued" /\ x.status = "awaiting_provider"
          /\ x.provider = payment[p].provider
      BY <1>1 DEF Row
    <2>3. granted' = granted
      BY <1>4 DEF IntentIssued
    <2> HIDE DEF x
    <2>4. GoodWrite
      BY <2>1, <2>2, <2>3, RowWrite DEF Created
    <2> QED BY <1>4, <2>4, OnlyTable DEF IntentIssued
  <1>5. CASE ReportTransfer(p)
    <2> DEFINE x == [payment[p] EXCEPT !.reported = TRUE]
    <2>1. x \in Row /\ Created(p) /\ payment' = [payment EXCEPT ![p] = x]
      BY <1>1, <1>5 DEF ReportTransfer, Unsettled, Row
    <2>2. /\ x.checkout = payment[p].checkout /\ x.status = payment[p].status
          /\ x.provider = payment[p].provider
          /\ payment[p].status \in {"pending", "awaiting_provider"}
      BY <1>1, <1>5 DEF Row, ReportTransfer, Unsettled
    <2>3. granted' = granted
      BY <1>5 DEF ReportTransfer
    <2> HIDE DEF x
    <2>4. GoodWrite
      BY <2>1, <2>2, <2>3, RowWrite DEF Created, IInv, Blank
    <2> QED BY <1>5, <2>4, OnlyTable DEF ReportTransfer
  <1>6. CASE Age(p)
    <2> DEFINE x == [payment[p] EXCEPT !.age = IF @ = "fresh" THEN "old" ELSE "over"]
    <2>1. x \in Row /\ Created(p) /\ payment' = [payment EXCEPT ![p] = x]
      BY <1>1, <1>6 DEF Age, Row
    <2>2. /\ x.checkout = payment[p].checkout /\ x.status = payment[p].status
          /\ x.provider = payment[p].provider /\ payment[p].status = "awaiting_provider"
      BY <1>1, <1>6 DEF Row, Age
    <2>3. granted' = granted
      BY <1>6 DEF Age
    <2> HIDE DEF x
    <2>4. GoodWrite
      BY <2>1, <2>2, <2>3, RowWrite DEF Created, IInv, Blank
    <2> QED BY <1>6, <2>4, OnlyTable DEF Age
  <1> QED BY <1>2, <1>3, <1>4, <1>5, <1>6 DEF BuyerStep

-----------------------------------------------------------------------------
\* Reviews and callbacks.

LEMMA DecidedStep ==
    ASSUME IInv, NEW w \in Workers, NEW p \in Payments, NEW d \in Decision,
           NEW by \in {"admin", "webhook"}, Decide(w, p, d, by), Created(p),
           d = "expired" => Online(p)
    PROVE  IInv'
  <1> DEFINE x == [pc |-> "decided", payment |-> p, decision |-> d, by |-> by]
  <1>1. x \in JobState
    BY DEF JobState
  <1>2. told \subseteq Payments \X Decision /\ deaths \in 0 .. MaxDeaths
    BY DEF IInv, TypeOK
  <1>3. \A q \in Payments : <<q, "confirmed">> \in told => q \in granted
    BY DEF IInv, Safe, ToldIsGranted
  <1>4. GoodWrite /\ granted \subseteq Payments
    BY NoWrite DEF Decide, IInv, TypeOK
  <1> QED BY <1>1, <1>2, <1>3, <1>4, OneJob DEF Decide

LEMMA ReviewOrCallback ==
    ASSUME IInv, NEW w \in Workers, DecideStep(w)
    PROVE  IInv'
  <1>1. ASSUME NEW p \in Payments, NEW decision \in {"confirmed", "rejected"},
               Review(w, p, decision)
        PROVE  IInv'
    <2>1. Created(p)
      BY <1>1 DEF Review, Unsettled, IInv, Blank, NewPayment
    <2>2. decision \in Decision /\ decision # "expired"
      BY DEF Decision
    <2> QED BY <1>1, <2>1, <2>2, DecidedStep DEF Review
  <1>2. ASSUME NEW p \in Payments, NEW status \in Report, NEW amountMatches \in BOOLEAN,
               Webhook(w, p, status, amountMatches)
        PROVE  IInv'
    <2>1. Online(p) /\ Created(p)
      BY <1>2 DEF Webhook, Online, Created
    <2>2. WebhookDecision(status, amountMatches) \in Decision
      BY DEF WebhookDecision, Decision
    <2> QED BY <1>2, <2>1, <2>2, DecidedStep DEF Webhook
  <1> QED BY <1>1, <1>2 DEF DecideStep

\* A job that moves on to another step.
LEMMA JobSteps ==
    ASSUME IInv, NEW w \in Workers, NEW step \in {"tx", "notify"},
           job[w].pc # "idle",
           step = "tx" => job[w].decision = "confirmed",
           step = "notify" /\ job[w].decision = "confirmed" => job[w].payment \in granted',
           Step(w, step), GoodWrite, granted \subseteq granted', granted' \subseteq Payments,
           UNCHANGED <<poll, told, deaths>>
    PROVE  IInv'
  <1> DEFINE x == [job[w] EXCEPT !.pc = step]
  <1>1. job[w] \in JobState
    BY DEF IInv, TypeOK
  <1>2. x \in JobState /\ x.pc = step /\ x.payment = job[w].payment /\ x.decision = job[w].decision
    BY <1>1 DEF JobState
  <1>3. job' = [job EXCEPT ![w] = x]
    BY DEF Step
  <1>4. told' \subseteq Payments \X Decision /\ deaths' \in 0 .. MaxDeaths
    BY DEF IInv, TypeOK
  <1>5. \A q \in Payments : <<q, "confirmed">> \in told' => q \in granted'
    BY DEF IInv, Safe, ToldIsGranted
  <1>6. /\ x.payment \in Payments /\ Created(x.payment)
        /\ x.decision \in Decision
        /\ x.decision = "expired" => Online(x.payment)
    BY <1>2 DEF IInv, Meant
  <1> HIDE DEF x
  <1> QED BY <1>2, <1>3, <1>4, <1>5, <1>6, OneJob

\* A job that ends, with what it told added.
LEMMA JobEnds ==
    ASSUME IInv, NEW w \in Workers, EndJob(w), GoodWrite, UNCHANGED <<granted, poll>>,
           told' \subseteq Payments \X Decision, deaths' \in 0 .. MaxDeaths,
           \A q \in Payments : <<q, "confirmed">> \in told' => q \in granted
    PROVE  IInv'
  <1>1. Idle \in JobState /\ Idle.pc = "idle"
    BY DEF Idle, JobState
  <1>2. granted \subseteq Payments
    BY DEF IInv, TypeOK
  <1> QED BY <1>1, <1>2, OneJob DEF EndJob

LEMMA JobStep ==
    ASSUME IInv, NEW w \in Workers,
           \/ WriteDecision(w) \/ BeginConfirm(w) \/ EndTx(w) \/ Notify(w) \/ JobDies(w)
    PROVE  IInv'
  <1>1. told \subseteq Payments \X Decision /\ deaths \in 0 .. MaxDeaths /\ granted \subseteq Payments
    BY DEF IInv, TypeOK
  <1>2. \A q \in Payments : <<q, "confirmed">> \in told => q \in granted
    BY DEF IInv, Safe, ToldIsGranted
  <1>3. job[w].pc # "idle" =>
            /\ job[w].payment \in Payments /\ Created(job[w].payment)
            /\ job[w].decision \in Decision
            /\ job[w].decision = "expired" => Online(job[w].payment)
            /\ job[w].pc = "tx" => job[w].decision = "confirmed"
            /\ job[w].pc = "notify" /\ job[w].decision = "confirmed" => job[w].payment \in granted
    BY DEF IInv, Meant
  <1>4. CASE WriteDecision(w)
    <2>1. /\ job[w].pc # "idle" /\ job[w].decision \in Status
          /\ SetStatus(job[w].payment, job[w].decision) /\ granted' = granted
      BY <1>3, <1>4 DEF WriteDecision, Decision, Status
    <2>2. job[w].decision # "confirmed"
      BY <1>4 DEF WriteDecision
    <2>3. GoodWrite
      BY <1>3, <2>1, <2>2, OneStatus
    <2>4. CASE Step(w, "notify")
      BY <1>1, <1>4, <2>1, <2>2, <2>3, <2>4, JobSteps DEF WriteDecision
    <2>5. CASE EndJob(w)
      BY <1>1, <1>2, <1>4, <2>3, <2>5, JobEnds DEF WriteDecision
    <2> QED BY <1>4, <2>4, <2>5 DEF WriteDecision
  <1>5. CASE BeginConfirm(w)
    <2>1. GoodWrite
      BY <1>5, NoWrite DEF BeginConfirm
    <2> QED BY <1>1, <1>5, <2>1, JobSteps DEF BeginConfirm
  <1>6. CASE CommitConfirm(w)
    <2>1. /\ job[w].payment \in Payments /\ Created(job[w].payment)
          /\ granted' = granted \cup {job[w].payment}
          /\ SetStatus(job[w].payment, "confirmed")
      BY <1>3, <1>6 DEF CommitConfirm
    <2>2. GoodWrite
      BY <2>1, OneStatus DEF Status
    <2> QED BY <1>1, <1>6, <2>1, <2>2, JobSteps DEF CommitConfirm
  <1>7. CASE RollBack(w)
    <2>1. GoodWrite
      BY <1>7, NoWrite DEF RollBack
    <2> QED BY <1>1, <1>2, <1>7, <2>1, JobEnds DEF RollBack
  <1>8. CASE Notify(w)
    <2>1. GoodWrite
      BY <1>8, NoWrite DEF Notify
    <2>2. /\ job[w].payment \in Payments /\ job[w].decision \in Decision
          /\ job[w].decision = "confirmed" => job[w].payment \in granted
          /\ told' = told \cup {<<job[w].payment, job[w].decision>>}
      BY <1>3, <1>8 DEF Notify
    <2>3. told' \subseteq Payments \X Decision
      BY <1>1, <2>2
    <2>4. \A q \in Payments : <<q, "confirmed">> \in told' => q \in granted
      BY <1>2, <2>2
    <2> QED BY <1>1, <1>8, <2>1, <2>3, <2>4, JobEnds DEF Notify
  <1>9. CASE JobDies(w)
    <2>1. GoodWrite
      BY <1>9, NoWrite DEF JobDies
    <2>2. deaths' \in 0 .. MaxDeaths
      BY <1>1, <1>9, DeathAssumption DEF JobDies, Dies
    <2> QED BY <1>1, <1>2, <1>9, <2>1, <2>2, JobEnds DEF JobDies
  <1> QED BY <1>4, <1>5, <1>6, <1>7, <1>8, <1>9 DEF EndTx

-----------------------------------------------------------------------------
\* Reconciliation.

\* The rows that the two expiring statements pick hold no reported transfer.
LEMMA SweepStep ==
    ASSUME IInv, NEW rows \in SUBSET Payments, Expire(rows),
           \A p \in rows : /\ Created(p)
                           /\ payment[p].provider = "manual" => ~payment[p].reported,
           granted' = granted
    PROVE  GoodWrite
  <1>1. payment \in [Payments -> Row]
    BY DEF IInv, TypeOK
  <1>2. \A p \in Payments : payment'[p] = IF p \in rows THEN [payment[p] EXCEPT !.status = "expired"]
                                          ELSE payment[p]
    BY DEF Expire
  <1>3. payment' \in [Payments -> Row]
    BY <1>1 DEF Expire, Row, Status
  <1>4. \A p \in Payments : /\ payment'[p].provider = payment[p].provider
                            /\ payment'[p].checkout = payment[p].checkout
                            /\ payment'[p].reported = payment[p].reported
                            /\ payment'[p].status = IF p \in rows THEN "expired" ELSE payment[p].status
    BY <1>1, <1>2 DEF Row
  <1>5. Blank'
    BY <1>2, <1>4 DEF IInv, Blank, Created
  <1>6. \A p \in Payments : Harmless(p)
    BY <1>4 DEF IInv, Safe, ConfirmedIsGranted, ReportedManualKept, Harmless
  <1> QED BY <1>3, <1>5, <1>6 DEF GoodWrite

\* Reconciliation may write the table and move on at once.
LEMMA PollMoves ==
    ASSUME IInv, GoodWrite, poll' \in PollState,
           \A p \in poll'.todo : Online(p),
           poll'.pc = "write" => /\ poll'.row \in Payments /\ Online(poll'.row)
                                 /\ poll'.verdict \in {"rejected", "expired"},
           UNCHANGED <<granted, job, told>>, deaths' \in 0 .. MaxDeaths
    PROVE  IInv'
  <1>1. TypeOK'
    BY DEF IInv, TypeOK, GoodWrite
  <1>2. \A p \in Payments : Created(p) => Created(p)' /\ (Online(p) => Online(p)')
    BY DEF GoodWrite, Harmless, Created, Online
  <1>3. \A p \in Payments : Online(p) => Online(p)'
    BY <1>2 DEF Created, Online
  <1>4. Meant'
    BY <1>2 DEF IInv, Meant, Created, Online
  <1>5. Polled'
    <2>1. poll'.todo \subseteq Payments
      BY DEF PollState
    <2> QED BY <1>3, <2>1 DEF Polled, Online
  <1>6. Safe'
    BY DEF IInv, GoodWrite, Harmless, Safe, ConfirmedIsGranted, ToldIsGranted, ReportedManualKept
  <1> QED BY <1>1, <1>4, <1>5, <1>6 DEF IInv, GoodWrite

LEMMA Reconciliation ==
    ASSUME IInv, ReconcileStep \/ PollDies
    PROVE  IInv'
  <1>1. poll \in PollState /\ deaths \in 0 .. MaxDeaths
    BY DEF IInv, TypeOK
  <1>2. \A p \in poll.todo : Online(p)
    BY DEF IInv, Polled
  <1>3. \A p \in Payments : payment[p].status # "none" => Created(p)
    BY DEF IInv, Blank, NewPayment
  <1>4. CASE ExpireIntents
    <2>1. \A p \in StaleIntents : Created(p) /\ payment[p].provider # "manual"
      BY <1>3 DEF StaleIntents
    <2>2. StaleIntents \in SUBSET Payments
      BY DEF StaleIntents
    <2>3. GoodWrite
      BY <1>4, <2>1, <2>2, SweepStep DEF ExpireIntents
    <2>4. /\ poll' \in PollState /\ poll'.todo = poll.todo /\ poll'.pc = "abandoned"
      BY <1>1, <1>4 DEF ExpireIntents, PollState
    <2> QED BY <1>1, <1>2, <1>4, <2>3, <2>4, PollMoves DEF ExpireIntents
  <1>5. CASE ExpireAbandoned
    <2>1. \A p \in AbandonedIntents : Created(p) /\ ~payment[p].reported
      BY <1>3 DEF AbandonedIntents
    <2>2. AbandonedIntents \in SUBSET Payments
      BY DEF AbandonedIntents
    <2>3. GoodWrite
      BY <1>5, <2>1, <2>2, SweepStep DEF ExpireAbandoned
    <2>4. /\ poll' \in PollState /\ poll'.todo = poll.todo /\ poll'.pc = "select"
      BY <1>1, <1>5 DEF ExpireAbandoned, PollState
    <2> QED BY <1>1, <1>2, <1>5, <2>3, <2>4, PollMoves DEF ExpireAbandoned
  <1>6. CASE PollSelect
    <2> DEFINE stale == {p \in Payments : /\ payment[p].status = "awaiting_provider"
                                          /\ payment[p].provider # "manual"
                                          /\ payment[p].checkout = "issued"
                                          /\ payment[p].age # "fresh"}
    <2>1. /\ poll' = [poll EXCEPT !.pc = "ask", !.todo = stale]
          /\ UNCHANGED <<payment, granted, job, told, deaths>>
      BY <1>6 DEF PollSelect
    <2>2. \A p \in stale : Online(p)
      BY DEF IInv, TypeOK, Blank, Row, Created, Online
    <2>3. stale \in SUBSET Payments
      OBVIOUS
    <2> HIDE DEF stale
    <2>4. poll' \in PollState /\ poll'.todo = stale /\ poll'.pc = "ask"
      BY <1>1, <2>1, <2>3 DEF PollState
    <2>5. GoodWrite
      BY <2>1, NoWrite
    <2> QED BY <1>1, <2>1, <2>2, <2>4, <2>5, PollMoves
  <1>7. ASSUME NEW p \in Payments, NEW answer \in Report, PollAsk(p, answer)
        PROVE  IInv'
    <2>1. /\ p \in poll.todo /\ Online(p)
          /\ UNCHANGED <<payment, granted, job, told, deaths>>
      BY <1>2, <1>7 DEF PollAsk
    <2>2. GoodWrite
      BY <2>1, NoWrite
    <2>3. CASE answer \in {"failed", "expired"}
      <3>1. poll' = [pc |-> "write", todo |-> poll.todo \ {p}, row |-> p,
                     verdict |-> IF answer = "failed" THEN "rejected" ELSE "expired"]
        BY <1>7, <2>3 DEF PollAsk
      <3>2. /\ poll' \in PollState /\ poll'.todo \subseteq poll.todo /\ poll'.row = p
            /\ poll'.verdict \in {"rejected", "expired"}
        BY <1>1, <3>1 DEF PollState
      <3> QED BY <1>1, <1>2, <2>1, <2>2, <3>2, PollMoves
    <2>4. CASE answer \notin {"failed", "expired"}
      <3>1. poll' = [poll EXCEPT !.todo = @ \ {p}] /\ poll.pc = "ask"
        BY <1>7, <2>4 DEF PollAsk
      <3>2. poll' \in PollState /\ poll'.todo \subseteq poll.todo /\ poll'.pc = "ask"
        BY <1>1, <3>1 DEF PollState
      <3> QED BY <1>1, <1>2, <2>1, <2>2, <3>2, PollMoves
    <2> QED BY <2>3, <2>4
  <1>8. CASE PollWrite
    <2>1. /\ poll.row \in Payments /\ Online(poll.row)
          /\ poll.verdict \in Status /\ poll.verdict # "confirmed"
          /\ SetStatus(poll.row, poll.verdict)
          /\ UNCHANGED <<granted, job, told, deaths>>
      BY <1>8 DEF PollWrite, IInv, Polled, Status
    <2>2. GoodWrite
      BY <2>1, OneStatus DEF Created, Online
    <2>3. poll' \in PollState /\ poll'.todo = poll.todo /\ poll'.pc = "ask"
      BY <1>1, <1>8 DEF PollWrite, PollState
    <2> QED BY <1>1, <1>2, <2>1, <2>2, <2>3, PollMoves
  <1>9. ASSUME PollDone \/ PollDies
        PROVE  IInv'
    <2>1. poll' = IdlePoll /\ UNCHANGED <<payment, granted, job, told>>
      BY <1>9 DEF PollDone, PollDies
    <2>2. deaths' \in 0 .. MaxDeaths
      BY <1>1, <1>9, DeathAssumption DEF PollDone, PollDies, Dies
    <2>3. poll' \in PollState /\ poll'.todo = {} /\ poll'.pc = "idle"
      BY <2>1 DEF IdlePoll, PollState
    <2>4. GoodWrite
      BY <2>1, NoWrite
    <2> QED BY <2>1, <2>2, <2>3, <2>4, PollMoves
  <1> QED BY <1>4, <1>5, <1>6, <1>7, <1>8, <1>9 DEF ReconcileStep

-----------------------------------------------------------------------------
LEMMA EveryStep == IInv /\ [Next]_vars => IInv'
  <1> SUFFICES ASSUME IInv, [Next]_vars
               PROVE  IInv'
    OBVIOUS
  <1>1. CASE \E p \in Payments : BuyerStep(p) \/ Age(p)
    BY <1>1, CheckoutStep
  <1>2. CASE \E w \in Workers : DecideStep(w)
    BY <1>2, ReviewOrCallback
  <1>3. CASE \E w \in Workers :
               WriteDecision(w) \/ BeginConfirm(w) \/ EndTx(w) \/ Notify(w) \/ JobDies(w)
    BY <1>3, JobStep
  <1>4. CASE ReconcileStep \/ PollDies
    BY <1>4, Reconciliation
  <1>5. CASE UNCHANGED vars
    <2>1. GoodWrite
      BY <1>5, NoWrite DEF vars
    <2> QED BY <1>5, <2>1, OnlyTable DEF vars
  <1> QED BY <1>1, <1>2, <1>3, <1>4, <1>5 DEF Next

\* The inductive invariant: what a handler carries is about a row that exists
\* and was read as it says, for any number of rows and handlers.
THEOREM Inductive == Spec => []IInv
  BY Initially, EveryStep, PTL DEF Spec

\* The table and every handler's local state has its shape.
THEOREM PaymentsHaveTheirShape == Spec => []TypeOK
  <1>1. IInv => TypeOK
    BY DEF IInv
  <1> QED BY <1>1, Inductive, PTL

\* Money taken is access given, for any number of rows, of handlers deciding at
\* once and of deaths: a row that reads 'confirmed' has had its purchase minted.
THEOREM MoneyTakenIsAccessGiven == Spec => []ConfirmedIsGranted
  <1>1. IInv => ConfirmedIsGranted
    BY DEF IInv, Safe
  <1> QED BY <1>1, Inductive, PTL

\* A notice of confirmation is sent after the commit that mints, so nobody is
\* told of a confirmation that a roll-back took away.
THEOREM ConfirmationsToldAreTrue == Spec => []ToldIsGranted
  <1>1. IInv => ToldIsGranted
    BY DEF IInv, Safe
  <1> QED BY <1>1, Inductive, PTL

\* No order of reports, reviews, callbacks, sweeps and polls expires a bank
\* transfer that its buyer has reported.
THEOREM ReportedTransfersAreKept == Spec => []ReportedManualKept
  <1>1. IInv => ReportedManualKept
    BY DEF IInv, Safe
  <1> QED BY <1>1, Inductive, PTL
-----------------------------------------------------------------------------
(* What a payment comes to: the table and its writers implement Settlement. *)

\* The online rows whose provider has issued an intent: only of these is it
\* said, or going to be said, that they expired or are disputed.
Reachable == Asked \ Transfers

\* And that a payment expired is nobody's decision but the provider's; it is
\* written and not told.
Heard ==
    /\ \A w \in Workers : job[w].pc # "idle" =>
          /\ job[w].decision \in {"expired", "disputed"} => job[w].payment \in Reachable
          /\ job[w].decision = "expired" => job[w].by # "admin" /\ job[w].pc # "notify"
    /\ poll.todo \subseteq Reachable
    /\ poll.pc = "write" => poll.row \in Reachable

avars == <<Words, Transfers, Reported, Asked, granted, told>>

\* A step that does what was agreed, and leaves handlers that will.
AsAgreed == (Agreed!Next \/ UNCHANGED avars) /\ Heard'

\* What is said of the rows when one of them is replaced by x.
LEMMA OneRow ==
    ASSUME payment \in [Payments -> Row], NEW p \in Payments, NEW x \in Row,
           payment' = [payment EXCEPT ![p] = x]
    PROVE  /\ Words' = [Words EXCEPT ![p] = x.status]
           /\ Transfers' = IF x.provider = "manual" THEN Transfers \cup {p} ELSE Transfers \ {p}
           /\ Reported' = IF x.reported THEN Reported \cup {p} ELSE Reported \ {p}
           /\ Asked' = IF x.checkout = "issued" THEN Asked \cup {p} ELSE Asked \ {p}
  <1>1. \A q \in Payments : payment'[q] = IF q = p THEN x ELSE payment[q]
    OBVIOUS
  <1>2. Words' = [Words EXCEPT ![p] = x.status]
    BY <1>1 DEF Words
  <1>3. Transfers' = IF x.provider = "manual" THEN Transfers \cup {p} ELSE Transfers \ {p}
    BY <1>1 DEF Transfers
  <1>4. Reported' = IF x.reported THEN Reported \cup {p} ELSE Reported \ {p}
    BY <1>1 DEF Reported
  <1>5. Asked' = IF x.checkout = "issued" THEN Asked \cup {p} ELSE Asked \ {p}
    BY <1>1 DEF Asked
  <1> QED BY <1>2, <1>3, <1>4, <1>5

\* What a column says does not change with the others.
LEMMA SameColumns ==
    ASSUME payment \in [Payments -> Row], NEW p \in Payments, NEW x \in Row,
           payment' = [payment EXCEPT ![p] = x]
    PROVE  /\ x.status = payment[p].status => Words' = Words
           /\ x.provider = payment[p].provider => Transfers' = Transfers
           /\ x.reported = payment[p].reported => Reported' = Reported
           /\ x.checkout = payment[p].checkout => Asked' = Asked
  <1>1. \A q \in Payments : payment'[q] = IF q = p THEN x ELSE payment[q]
    OBVIOUS
  <1>2. x.status = payment[p].status => Words' = Words
    BY <1>1 DEF Words
  <1>3. x.provider = payment[p].provider => Transfers' = Transfers
    BY <1>1 DEF Transfers
  <1>4. x.reported = payment[p].reported => Reported' = Reported
    BY <1>1 DEF Reported
  <1>5. x.checkout = payment[p].checkout => Asked' = Asked
    BY <1>1 DEF Asked
  <1> QED BY <1>2, <1>3, <1>4, <1>5

\* A new status says nothing else of the row.
LEMMA OneWord ==
    ASSUME payment \in [Payments -> Row], NEW p \in Payments, NEW s \in Status, SetStatus(p, s)
    PROVE  Agreed!Says(p, s) /\ UNCHANGED <<Transfers, Reported, Asked>>
  <1> DEFINE x == [payment[p] EXCEPT !.status = s]
  <1>1. payment[p] \in Row
    OBVIOUS
  <1>2. /\ x \in Row /\ x.status = s /\ x.provider = payment[p].provider
        /\ x.reported = payment[p].reported /\ x.checkout = payment[p].checkout
    BY <1>1 DEF Row
  <1>3. payment' = [payment EXCEPT ![p] = x]
    BY DEF SetStatus
  <1> HIDE DEF x
  <1>4. Words' = [Words EXCEPT ![p] = s]
    BY <1>2, <1>3, OneRow
  <1>5. UNCHANGED <<Transfers, Reported, Asked>>
    BY <1>2, <1>3, SameColumns
  <1> QED BY <1>4, <1>5 DEF Agreed!Says

LEMMA NoRowNoWord == payment' = payment => UNCHANGED <<Words, Transfers, Reported, Asked>>
  BY DEF Words, Transfers, Reported, Asked

\* A row that was created has a word.
LEMMA CreatedHasWord == IInv => \A p \in Payments : Created(p) => Words[p] # "none"
  BY DEF IInv, Blank, Words

LEMMA StillHeard ==
    ASSUME Heard, Reachable \subseteq Reachable', job' = job, poll' = poll
    PROVE  Heard'
  BY DEF Heard

LEMMA CheckoutAgrees ==
    ASSUME IInv, Heard, NEW p \in Payments, BuyerStep(p) \/ Age(p)
    PROVE  AsAgreed
  <1>1. payment \in [Payments -> Row] /\ payment[p] \in Row
    BY DEF IInv, TypeOK
  <1>2. Words \in [Payments -> Status \cup {"none"}] /\ Words[p] = payment[p].status
    BY <1>1 DEF Words, Row
  <1>3. ASSUME NEW provider \in Providers, NEW reference \in BOOLEAN,
               CreatePayment(p, provider, reference)
        PROVE  AsAgreed
    <2> DEFINE x == [checkout |-> "open", status |-> "pending", provider |-> provider,
                     reported |-> reference, dated |-> FALSE, age |-> "fresh"]
    <2>1. /\ x \in Row /\ x.checkout = "open" /\ x.status = "pending"
          /\ payment' = [payment EXCEPT ![p] = x]
      BY <1>3, ProviderAssumption DEF CreatePayment, Row, Status
    <2>2. payment[p] = NewPayment
      BY <1>3 DEF CreatePayment, IInv, Blank
    <2>3. Words[p] = "none" /\ p \notin Transfers /\ p \notin Reported /\ p \notin Asked
      BY <1>2, <2>2 DEF NewPayment, Transfers, Reported, Asked
    <2> HIDE DEF x
    <2>4. /\ Words' = [Words EXCEPT ![p] = "pending"]
          /\ Transfers' \in {Transfers, Transfers \cup {p}}
          /\ Reported' \in {Reported, Reported \cup {p}}
          /\ Asked' = Asked
      <3>0. Words' = [Words EXCEPT ![p] = x.status]
        BY <1>1, <2>1, OneRow
      <3>1. Words' = [Words EXCEPT ![p] = "pending"]
        BY <2>1, <3>0
      <3>2. Transfers' = Transfers \cup {p} \/ Transfers' = Transfers \ {p}
        BY <1>1, <2>1, OneRow
      <3>3. Reported' = Reported \cup {p} \/ Reported' = Reported \ {p}
        BY <1>1, <2>1, OneRow
      <3>4. Asked' = Asked \ {p}
        BY <1>1, <2>1, OneRow
      <3>5. Transfers \ {p} = Transfers /\ Reported \ {p} = Reported /\ Asked \ {p} = Asked
        BY <2>3
      <3> QED BY <3>1, <3>2, <3>3, <3>4, <3>5
    <2>5. Agreed!Open(p)
      BY <1>3, <2>3, <2>4 DEF CreatePayment, Agreed!Open, Agreed!Says
    <2>6. Reachable \subseteq Reachable'
      BY <2>3, <2>4 DEF Reachable
    <2> QED BY <1>3, <2>5, <2>6, StillHeard DEF CreatePayment, AsAgreed, Agreed!Next
  <1>4. CASE IntentRefused(p)
    <2> DEFINE x == [payment[p] EXCEPT !.checkout = "refused"]
    <2>1. /\ x \in Row /\ x.checkout = "refused" /\ x.status = payment[p].status
          /\ x.provider = payment[p].provider /\ x.reported = payment[p].reported
          /\ payment' = [payment EXCEPT ![p] = x]
      BY <1>1, <1>4 DEF IntentRefused, Row
    <2>2. p \notin Asked
      BY <1>4 DEF IntentRefused, Asked
    <2> HIDE DEF x
    <2>3. UNCHANGED <<Words, Transfers, Reported>>
      BY <1>1, <2>1, SameColumns
    <2>4. Asked' = Asked
      <3>1. Asked' = Asked \ {p}
        BY <1>1, <2>1, OneRow
      <3>2. Asked \ {p} = Asked
        BY <2>2
      <3> QED BY <3>1, <3>2
    <2>5. Heard'
      BY <1>4, <2>3, <2>4, StillHeard DEF Reachable, IntentRefused
    <2> QED BY <1>4, <2>3, <2>4, <2>5 DEF AsAgreed, avars, IntentRefused
  <1>5. CASE IntentIssued(p)
    <2>0. PICK dated \in BOOLEAN : payment' = [payment EXCEPT ![p].checkout = "issued",
                                                            ![p].status = "awaiting_provider", ![p].dated = dated]
      BY <1>5 DEF IntentIssued
    <2> DEFINE x == [payment[p] EXCEPT !.checkout = "issued", !.status = "awaiting_provider", !.dated = dated]
    <2>1. /\ x \in Row /\ x.checkout = "issued" /\ x.status = "awaiting_provider"
          /\ x.provider = payment[p].provider /\ x.reported = payment[p].reported
          /\ payment' = [payment EXCEPT ![p] = x]
      BY <1>1, <1>5, <2>0 DEF IntentIssued, Row, Status
    <2>2. p \notin Asked /\ Created(p)
      BY <1>5 DEF IntentIssued, Asked, IInv, Blank
    <2>3. Words[p] # "none"
      BY <2>2, CreatedHasWord
    <2> HIDE DEF x
    <2>4. Words' = [Words EXCEPT ![p] = "awaiting_provider"]
      <3>1. Words' = [Words EXCEPT ![p] = x.status]
        BY <1>1, <2>1, OneRow
      <3> QED BY <2>1, <3>1
    <2>5. UNCHANGED <<Transfers, Reported>> /\ Asked' = Asked \cup {p}
      BY <1>1, <2>1, OneRow, SameColumns
    <2>6. Agreed!Ask(p)
      BY <1>5, <2>2, <2>3, <2>4, <2>5 DEF IntentIssued, Agreed!Ask, Agreed!Says
    <2>7. Heard'
      BY <1>5, <2>5, StillHeard DEF Reachable, IntentIssued
    <2> QED BY <2>6, <2>7 DEF AsAgreed, Agreed!Next
  <1>6. CASE ReportTransfer(p)
    <2> DEFINE x == [payment[p] EXCEPT !.reported = TRUE]
    <2>1. /\ x \in Row /\ x.checkout = payment[p].checkout /\ x.status = payment[p].status
          /\ x.provider = payment[p].provider /\ x.reported
          /\ payment' = [payment EXCEPT ![p] = x]
      BY <1>1, <1>6 DEF ReportTransfer, Row
    <2> HIDE DEF x
    <2>2. Words' = Words
      BY <1>1, <2>1, SameColumns
    <2>3. UNCHANGED <<Transfers, Asked>> /\ Reported' = Reported \cup {p}
      BY <1>1, <2>1, OneRow, SameColumns
    <2>4. Agreed!Report(p)
      BY <1>2, <1>6, <2>2, <2>3 DEF ReportTransfer, Unsettled, Agreed!Report, Agreed!Undecided
    <2>5. Heard'
      BY <1>6, <2>3, StillHeard DEF Reachable, ReportTransfer
    <2> QED BY <2>4, <2>5 DEF AsAgreed, Agreed!Next
  <1>7. CASE Age(p)
    <2> DEFINE x == [payment[p] EXCEPT !.age = IF @ = "fresh" THEN "old" ELSE "over"]
    <2>1. /\ x \in Row /\ x.checkout = payment[p].checkout /\ x.status = payment[p].status
          /\ x.provider = payment[p].provider /\ x.reported = payment[p].reported
          /\ payment' = [payment EXCEPT ![p] = x]
      BY <1>1, <1>7 DEF Age, Row
    <2> HIDE DEF x
    <2>2. Words' = Words
      BY <1>1, <2>1, SameColumns
    <2>3. UNCHANGED <<Transfers, Reported, Asked>>
      BY <1>1, <2>1, SameColumns
    <2>4. Heard'
      BY <1>7, <2>3, StillHeard DEF Reachable, Age
    <2> QED BY <1>7, <2>2, <2>3, <2>4 DEF AsAgreed, avars, Age
  <1> QED BY <1>3, <1>4, <1>5, <1>6, <1>7 DEF BuyerStep

\* One handler moves to x.
LEMMA JobHeard ==
    ASSUME IInv, Heard, NEW w \in Workers, NEW x,
           x.pc # "idle" =>
               /\ x.decision \in {"expired", "disputed"} => x.payment \in Reachable
               /\ x.decision = "expired" => x.by # "admin" /\ x.pc # "notify",
           job' = [job EXCEPT ![w] = x], poll' = poll, Reachable' = Reachable
    PROVE  Heard'
  <1>1. \A v \in Workers : job'[v] = IF v = w THEN x ELSE job[v]
    BY DEF IInv, TypeOK
  <1> QED BY <1>1 DEF Heard

LEMMA DecisionAgrees ==
    ASSUME IInv, Heard, NEW w \in Workers, DecideStep(w)
    PROVE  AsAgreed
  <1>1. ASSUME NEW p \in Payments, NEW d, NEW by, Decide(w, p, d, by),
               d \in {"expired", "disputed"} => p \in Reachable,
               d = "expired" => by # "admin"
        PROVE  AsAgreed
    <2> DEFINE x == [pc |-> "decided", payment |-> p, decision |-> d, by |-> by]
    <2>1. /\ job' = [job EXCEPT ![w] = x] /\ UNCHANGED <<payment, granted, poll, told>>
          /\ x.pc = "decided" /\ x.payment = p /\ x.decision = d /\ x.by = by
      BY <1>1 DEF Decide
    <2> HIDE DEF x
    <2>2. UNCHANGED <<Words, Transfers, Reported, Asked>>
      BY <2>1, NoRowNoWord
    <2>3. Heard'
      BY <1>1, <2>1, <2>2, JobHeard DEF Reachable
    <2> QED BY <2>1, <2>2, <2>3 DEF AsAgreed, avars
  <1>2. ASSUME NEW p \in Payments, NEW decision \in {"confirmed", "rejected"},
               Review(w, p, decision)
        PROVE  AsAgreed
    BY <1>1, <1>2 DEF Review
  <1>3. ASSUME NEW p \in Payments, NEW status \in Report, NEW amountMatches \in BOOLEAN,
               Webhook(w, p, status, amountMatches)
        PROVE  AsAgreed
    <2>1. p \in Reachable
      BY <1>3 DEF Webhook, Reachable, Asked, Transfers
    <2> QED BY <1>1, <1>3, <2>1 DEF Webhook
  <1> QED BY <1>2, <1>3 DEF DecideStep

\* A handler that ends leaves nothing to be said.
LEMMA EndHeard ==
    ASSUME IInv, Heard, NEW w \in Workers, EndJob(w), poll' = poll, Reachable' = Reachable
    PROVE  Heard'
  <1>1. PICK x : x = Idle
    OBVIOUS
  <1>2. job' = [job EXCEPT ![w] = x] /\ x.pc = "idle"
    BY <1>1 DEF EndJob, Idle
  <1> QED BY <1>2, JobHeard

\* One that goes on carries its decision along.
LEMMA StepHeard ==
    ASSUME IInv, Heard, NEW w \in Workers, NEW step, Step(w, step), job[w].pc # "idle",
           job[w].decision = "expired" => step # "notify",
           poll' = poll, Reachable' = Reachable
    PROVE  Heard'
  <1> DEFINE x == [job[w] EXCEPT !.pc = step]
  <1>1. job[w] \in JobState
    BY DEF IInv, TypeOK
  <1>2. /\ job' = [job EXCEPT ![w] = x] /\ x.pc = step
        /\ x.payment = job[w].payment /\ x.decision = job[w].decision /\ x.by = job[w].by
    BY <1>1 DEF Step, JobState
  <1> HIDE DEF x
  <1>3. /\ x.decision \in {"expired", "disputed"} => x.payment \in Reachable
        /\ x.decision = "expired" => x.by # "admin" /\ x.pc # "notify"
    BY <1>2 DEF Heard
  <1> QED BY <1>2, <1>3, JobHeard

LEMMA HandlerAgrees ==
    ASSUME IInv, Heard, NEW w \in Workers,
           \/ WriteDecision(w) \/ BeginConfirm(w) \/ EndTx(w) \/ Notify(w) \/ JobDies(w)
    PROVE  AsAgreed
  <1>1. payment \in [Payments -> Row]
    BY DEF IInv, TypeOK
  <1>2. ASSUME job[w].pc # "idle"
        PROVE  /\ job[w].payment \in Payments /\ Words[job[w].payment] # "none"
               /\ job[w].decision \in Decision
    BY <1>2, CreatedHasWord DEF IInv, Meant
  <1>3. ASSUME job[w].pc # "idle"
        PROVE  /\ job[w].decision \in {"expired", "disputed"} => job[w].payment \in Reachable
               /\ job[w].decision = "expired" => job[w].by # "admin" /\ job[w].pc # "notify"
    BY <1>3 DEF Heard
  <1>4. CASE WriteDecision(w)
    <2>1. PICK p \in Payments, s \in Decision \ {"confirmed"} :
             p = job[w].payment /\ s = job[w].decision /\ SetStatus(p, s) /\ Words[p] # "none"
      BY <1>2, <1>4 DEF WriteDecision
    <2>2. Agreed!Says(p, s) /\ UNCHANGED <<Transfers, Reported, Asked>>
      BY <1>1, <2>1, OneWord DEF Decision, Status
    <2>3. UNCHANGED <<granted, told, poll>> /\ job[w].pc = "decided"
      BY <1>4 DEF WriteDecision
    <2>4. s = "rejected" => Agreed!Next
      <3>1. s = "rejected" => Agreed!Reject(p)
        BY <2>1, <2>2, <2>3 DEF Agreed!Reject
      <3> QED BY <3>1 DEF Agreed!Next
    <2>5. ASSUME s \in {"expired", "disputed"} PROVE Agreed!Next
      <3>1. p \in Reachable
        BY <1>3, <2>1, <2>3, <2>5
      <3>2. Agreed!Object(p, s)
        BY <2>2, <2>3, <3>1 DEF Agreed!Object, Reachable
      <3> QED BY <2>5, <3>2 DEF Agreed!Next
    <2>6. Agreed!Next
      BY <2>1, <2>4, <2>5 DEF Decision
    <2>7. Reachable' = Reachable
      BY <2>2 DEF Reachable
    <2>8. CASE EndJob(w)
      BY <2>3, <2>6, <2>7, <2>8, EndHeard DEF AsAgreed
    <2>9. CASE Step(w, "notify") /\ (job[w].by = "admin" \/ job[w].decision = "disputed")
      <3>1. job[w].decision # "expired"
        BY <1>3, <2>3, <2>9
      <3> QED BY <2>3, <2>6, <2>7, <2>9, <3>1, StepHeard DEF AsAgreed
    <2> QED BY <1>4, <2>8, <2>9 DEF WriteDecision
  <1>5. CASE BeginConfirm(w)
    <2>1. Step(w, "tx") /\ job[w].pc # "idle" /\ UNCHANGED <<payment, granted, poll, told>>
      BY <1>5 DEF BeginConfirm
    <2>2. UNCHANGED <<Words, Transfers, Reported, Asked>>
      BY <2>1, NoRowNoWord
    <2>3. Heard'
      BY <2>1, <2>2, StepHeard DEF Reachable
    <2> QED BY <2>1, <2>2, <2>3 DEF AsAgreed, avars
  <1>6. CASE CommitConfirm(w)
    <2>1. PICK p \in Payments : p = job[w].payment /\ SetStatus(p, "confirmed") /\ Words[p] # "none"
      BY <1>2, <1>6 DEF CommitConfirm
    <2>2. Agreed!Says(p, "confirmed") /\ UNCHANGED <<Transfers, Reported, Asked>>
      BY <1>1, <2>1, OneWord DEF Status
    <2>3. granted' = granted \cup {p} /\ UNCHANGED <<told, poll>> /\ job[w].pc = "tx" /\ Step(w, "notify")
      BY <1>6, <2>1 DEF CommitConfirm
    <2>4. Agreed!Confirm(p)
      BY <2>1, <2>2, <2>3 DEF Agreed!Confirm
    <2>5. job[w].decision = "confirmed"
      BY <2>3 DEF IInv, Meant
    <2>6. Heard'
      BY <2>2, <2>3, <2>5, StepHeard DEF Reachable
    <2> QED BY <2>4, <2>6 DEF AsAgreed, Agreed!Next
  <1>7. CASE RollBack(w) \/ JobDies(w)
    <2>1. EndJob(w) /\ UNCHANGED <<payment, granted, poll, told>>
      BY <1>7 DEF RollBack, JobDies
    <2>2. UNCHANGED <<Words, Transfers, Reported, Asked>>
      BY <2>1, NoRowNoWord
    <2>3. Heard'
      BY <2>1, <2>2, EndHeard DEF Reachable
    <2> QED BY <2>1, <2>2, <2>3 DEF AsAgreed, avars
  <1>8. CASE Notify(w)
    <2>1. /\ EndJob(w) /\ job[w].pc = "notify" /\ UNCHANGED <<payment, granted, poll>>
          /\ told' = told \cup {<<job[w].payment, job[w].decision>>}
      BY <1>8 DEF Notify
    <2>2. UNCHANGED <<Words, Transfers, Reported, Asked>>
      BY <2>1, NoRowNoWord
    <2>3. Heard'
      BY <2>1, <2>2, EndHeard DEF Reachable
    <2>4. PICK p \in Payments, s \in Decision \ {"expired"} :
             p = job[w].payment /\ s = job[w].decision /\ Words[p] # "none"
      BY <1>2, <1>3, <2>1
    <2>5. /\ s = "confirmed" => p \in granted
          /\ s = "disputed" => p \in Reachable
      BY <1>3, <2>1, <2>4 DEF IInv, Meant
    <2>6. s \in {"confirmed", "rejected", "disputed"}
      BY DEF Decision
    <2>7. Agreed!Tell(p, s)
      BY <2>1, <2>2, <2>4, <2>5, <2>6 DEF Agreed!Tell, Reachable
    <2> QED BY <2>3, <2>6, <2>7 DEF AsAgreed, Agreed!Next
  <1> QED BY <1>4, <1>5, <1>6, <1>7, <1>8 DEF EndTx

LEMMA PollHeard ==
    ASSUME Heard, job' = job, Reachable' = Reachable,
           poll'.todo \subseteq Reachable, poll'.pc = "write" => poll'.row \in Reachable
    PROVE  Heard'
  BY DEF Heard

\* The two ageing statements let waiting rows go, reported transfers excepted.
LEMMA LetsGo ==
    ASSUME IInv, Heard, NEW rows \in SUBSET Payments, Expire(rows),
           \A p \in rows : /\ payment[p].status = "awaiting_provider"
                           /\ payment[p].provider # "manual" \/ ~payment[p].reported,
           NEW step, step # "write", poll' = [poll EXCEPT !.pc = step],
           UNCHANGED <<granted, job, told>>
    PROVE  AsAgreed
  <1>1. payment \in [Payments -> Row] /\ poll \in PollState
    BY DEF IInv, TypeOK
  <1>2. \A p \in Payments : payment'[p] = IF p \in rows THEN [payment[p] EXCEPT !.status = "expired"]
                                          ELSE payment[p]
    BY DEF Expire
  <1>3. \A p \in Payments :
           /\ payment'[p].provider = payment[p].provider /\ payment'[p].reported = payment[p].reported
           /\ payment'[p].checkout = payment[p].checkout
           /\ payment'[p].status = IF p \in rows THEN "expired" ELSE payment[p].status
    BY <1>1, <1>2 DEF Row
  <1>4. UNCHANGED <<Transfers, Reported, Asked>>
    BY <1>3 DEF Transfers, Reported, Asked
  <1>5. Words' = [p \in Payments |-> IF p \in rows THEN "expired" ELSE Words[p]]
    BY <1>3 DEF Words
  <1>6. \A p \in rows : Words[p] = "awaiting_provider" /\ p \notin Transfers \cap Reported
    BY DEF Words, Transfers, Reported
  <1>7. Agreed!LetGo(rows)
    BY <1>4, <1>5, <1>6 DEF Agreed!LetGo
  <1>8. poll'.todo = poll.todo /\ poll'.pc = step
    BY <1>1 DEF PollState
  <1>9. poll'.todo \subseteq Reachable /\ Reachable' = Reachable
    BY <1>4, <1>8 DEF Heard, Reachable
  <1>10. Heard'
    BY <1>8, <1>9, PollHeard
  <1> QED BY <1>7, <1>10 DEF AsAgreed, Agreed!Next

\* What reconciliation does without writing a row.
LEMMA PollRests ==
    ASSUME IInv, Heard, UNCHANGED <<payment, granted, job, told>>,
           poll'.todo \subseteq Reachable, poll'.pc = "write" => poll'.row \in Reachable
    PROVE  AsAgreed
  <1>1. UNCHANGED <<Words, Transfers, Reported, Asked>>
    BY NoRowNoWord
  <1>2. Heard'
    BY <1>1, PollHeard DEF Reachable
  <1> QED BY <1>1, <1>2 DEF AsAgreed, avars

LEMMA ReconciliationAgrees ==
    ASSUME IInv, Heard, ReconcileStep \/ PollDies
    PROVE  AsAgreed
  <1>1. payment \in [Payments -> Row] /\ poll \in PollState
    BY DEF IInv, TypeOK
  <1>2. poll.todo \subseteq Reachable /\ (poll.pc = "write" => poll.row \in Reachable)
    BY DEF Heard
  <1>3. CASE ExpireIntents
    BY <1>3, LetsGo DEF ExpireIntents, StaleIntents
  <1>4. CASE ExpireAbandoned
    BY <1>4, LetsGo DEF ExpireAbandoned, AbandonedIntents
  <1>5. CASE PollSelect
    <2> DEFINE stale == {p \in Payments : /\ payment[p].status = "awaiting_provider"
                                          /\ payment[p].provider # "manual"
                                          /\ payment[p].checkout = "issued"
                                          /\ payment[p].age # "fresh"}
    <2>1. /\ poll' = [poll EXCEPT !.pc = "ask", !.todo = stale]
          /\ UNCHANGED <<payment, granted, job, told>>
      BY <1>5 DEF PollSelect
    <2>2. stale \subseteq Reachable
      BY DEF Reachable, Asked, Transfers
    <2> HIDE DEF stale
    <2>3. poll'.todo = stale /\ poll'.pc = "ask"
      BY <1>1, <2>1 DEF PollState
    <2> QED BY <2>1, <2>2, <2>3, PollRests
  <1>6. ASSUME NEW p \in Payments, NEW answer \in Report, PollAsk(p, answer)
        PROVE  AsAgreed
    <2>1. p \in Reachable /\ UNCHANGED <<payment, granted, job, told>>
      BY <1>2, <1>6 DEF PollAsk
    <2>2. CASE answer \in {"failed", "expired"}
      <3>1. poll' = [pc |-> "write", todo |-> poll.todo \ {p}, row |-> p,
                     verdict |-> IF answer = "failed" THEN "rejected" ELSE "expired"]
        BY <1>6, <2>2 DEF PollAsk
      <3>2. poll'.todo \subseteq poll.todo /\ poll'.row = p
        BY <3>1
      <3> QED BY <1>2, <2>1, <3>2, PollRests
    <2>3. CASE answer \notin {"failed", "expired"}
      <3>1. poll' = [poll EXCEPT !.todo = @ \ {p}] /\ poll.pc = "ask"
        BY <1>6, <2>3 DEF PollAsk
      <3>2. poll'.todo \subseteq poll.todo /\ poll'.pc = "ask"
        BY <1>1, <3>1 DEF PollState
      <3> QED BY <1>2, <2>1, <3>2, PollRests
    <2> QED BY <2>2, <2>3
  <1>7. CASE PollWrite
    <2>1. /\ poll.row \in Payments /\ poll.row \in Reachable
          /\ poll.verdict \in {"rejected", "expired"} /\ SetStatus(poll.row, poll.verdict)
          /\ UNCHANGED <<granted, job, told>>
          /\ poll' = [poll EXCEPT !.pc = "ask", !.verdict = "none", !.row = NoPayment]
      BY <1>2, <1>7 DEF PollWrite, IInv, Polled
    <2>2. Agreed!Says(poll.row, poll.verdict) /\ UNCHANGED <<Transfers, Reported, Asked>>
      BY <1>1, <2>1, OneWord DEF Status
    <2>3. Words[poll.row] # "none"
      BY <2>1, CreatedHasWord DEF IInv, Blank, Reachable, Asked
    <2>4. poll.verdict = "rejected" => Agreed!Reject(poll.row)
      BY <2>1, <2>2, <2>3 DEF Agreed!Reject
    <2>5. poll.verdict = "expired" => Agreed!Object(poll.row, "expired")
      BY <2>1, <2>2 DEF Agreed!Object, Reachable
    <2>6. poll'.todo = poll.todo /\ poll'.pc = "ask"
      BY <1>1, <2>1 DEF PollState
    <2>7. Heard'
      BY <1>2, <2>1, <2>2, <2>6, PollHeard DEF Reachable
    <2>8. Agreed!Next
      BY <2>1, <2>4, <2>5 DEF Agreed!Next
    <2> QED BY <2>7, <2>8 DEF AsAgreed
  <1>8. CASE PollDone \/ PollDies
    <2>1. poll'.todo = {} /\ poll'.pc = "idle" /\ UNCHANGED <<payment, granted, job, told>>
      BY <1>8 DEF PollDone, PollDies, IdlePoll
    <2> QED BY <2>1, PollRests
  <1> QED BY <1>3, <1>4, <1>5, <1>6, <1>7, <1>8 DEF ReconcileStep

LEMMA EveryStepAgrees == IInv /\ Heard /\ [Next]_vars => AsAgreed
  <1> SUFFICES ASSUME IInv, Heard, [Next]_vars
               PROVE  AsAgreed
    OBVIOUS
  <1>1. CASE \E p \in Payments : BuyerStep(p) \/ Age(p)
    BY <1>1, CheckoutAgrees
  <1>2. CASE \E w \in Workers : DecideStep(w)
    BY <1>2, DecisionAgrees
  <1>3. CASE \E w \in Workers :
               WriteDecision(w) \/ BeginConfirm(w) \/ EndTx(w) \/ Notify(w) \/ JobDies(w)
    BY <1>3, HandlerAgrees
  <1>4. CASE ReconcileStep \/ PollDies
    BY <1>4, ReconciliationAgrees
  <1>5. CASE UNCHANGED vars
    <2>1. UNCHANGED <<payment, granted, job, told, poll>>
      BY <1>5 DEF vars
    <2>2. UNCHANGED <<Words, Transfers, Reported, Asked>>
      BY <2>1, NoRowNoWord
    <2>3. Heard'
      BY <2>1, <2>2, StillHeard DEF Reachable
    <2> QED BY <2>1, <2>2, <2>3 DEF AsAgreed, avars
  <1> QED BY <1>1, <1>2, <1>3, <1>4, <1>5 DEF Next

LEMMA AgreedAtFirst == Init => Agreed!Init /\ Heard
  <1> SUFFICES ASSUME Init PROVE Agreed!Init /\ Heard
    OBVIOUS
  <1>1. \A p \in Payments : payment[p] = NewPayment
    BY DEF Init
  <1>2. Words = [p \in Payments |-> "none"] /\ Transfers = {} /\ Reported = {} /\ Asked = {}
    BY <1>1 DEF NewPayment, Words, Transfers, Reported, Asked
  <1>3. Agreed!Init
    BY <1>2 DEF Init, Agreed!Init
  <1>4. Heard
    BY DEF Init, Heard, Idle, IdlePoll
  <1> QED BY <1>3, <1>4

LEMMA HeardThroughout == Spec => []Heard
  <1>1. Init => Heard
    BY AgreedAtFirst
  <1>2. IInv /\ Heard /\ [Next]_vars => Heard'
    BY EveryStepAgrees DEF AsAgreed
  <1> QED BY <1>1, <1>2, Inductive, PTL DEF Spec

\* The checkout, the reviews, the callbacks and the reconciliation, whatever
\* they read before and however often one row is decided, do to a payment only
\* what Settlement allows: the grant is made with the confirmation and stays
\* under every later word, the provider is asked once, and only what a provider
\* says or nobody has paid for expires (reviewPayment, process, reconcile).
THEOREM PaymentsSettleAsAgreed == Spec => SettlesAsAgreed
  <1>1. Init => Agreed!Init
    BY AgreedAtFirst
  <1>2. IInv /\ Heard /\ [Next]_vars => [Agreed!Next]_avars
    BY EveryStepAgrees DEF AsAgreed
  <1> QED BY <1>1, <1>2, Inductive, HeardThroughout, PTL
          DEF Spec, SettlesAsAgreed, Agreed!Spec, avars
=============================================================================
