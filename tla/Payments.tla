------------------------------ MODULE Payments ------------------------------
(***************************************************************************)
(* The payments table and everything that writes it: the checkout          *)
(* (createPaymentIntent, reportTransfer), the admin's decision             *)
(* (reviewPayment), the provider's callbacks (WebhooksService.process) and *)
(* the reconciliation run every 15 minutes.                                *)
(*                                                                         *)
(* A deciding handler reads the row, decides from what it read, writes     *)
(* without looking again, and notifies afterwards; each of the three is a  *)
(* step of its own.  A confirmation holds the row's lock from its update   *)
(* to the end of its transaction, so other updates of that row wait.  What *)
(* the transaction mints is in Subscriptions; here it either commits, with *)
(* the purchase granted, or rolls back.                                    *)
(*                                                                         *)
(* A provider is external.  An online one may call back with any report,   *)
(* at any time and more than once, and may answer a poll in any way its    *)
(* interface allows (MockProvider itself only answers "unknown").  Signed  *)
(* calls only: an unsigned one stops before the table is read.             *)
(***************************************************************************)
EXTENDS Naturals

CONSTANTS
    Payments,     \* rows that a buyer may create
    Providers,    \* what PAYMENT_PROVIDER may name: "manual", or "online" for the others
    Workers,      \* slots for concurrent reviews and callbacks
    MaxDeaths,    \* bound on the handlers that die half-way
    NoPayment

ASSUME ProviderAssumption == Providers \subseteq {"manual", "online"}

ASSUME DeathAssumption == MaxDeaths \in Nat /\ NoPayment \notin Payments

VARIABLES
    payment,   \* the table, and how far the checkout of each row has come
    granted,   \* payments whose purchase a committed transaction has minted
    job,       \* reviews and callbacks in progress
    poll,      \* the reconciliation run
    told,      \* <<p, d>>: somebody was notified that p was d
    deaths

vars == <<payment, granted, job, poll, told, deaths>>

-----------------------------------------------------------------------------
\* A row: `checkout` is how far createPaymentIntent has come ("refused": it
\* threw, or died, before provider_ref was stored), `reported` whether
\* reference_code is set, `dated` whether intent_expires_at is, and `age` what
\* the clock says of it: "old" is past 30 minutes, "over" past any expiry that
\* an intent may have, or 30 days if manual.

NewPayment == [checkout |-> "none", status |-> "none", provider |-> "none",
               reported |-> FALSE, dated |-> FALSE, age |-> "fresh"]

Unsettled(p) == payment[p].status \in {"pending", "awaiting_provider"}

\* A transaction has updated the row and not ended.
Locked(p) == \E w \in Workers : job[w].pc = "tx" /\ job[w].payment = p

SetStatus(p, status) == payment' = [payment EXCEPT ![p].status = status]

-----------------------------------------------------------------------------
\* Checkout.

CreatePayment(p, provider, reference) ==
    /\ payment[p].checkout = "none"
    /\ payment' = [payment EXCEPT ![p] =
          [checkout |-> "open", status |-> "pending", provider |-> provider,
           reported |-> reference, dated |-> FALSE, age |-> "fresh"]]
    /\ UNCHANGED <<granted, job, poll, told, deaths>>

\* provider.createIntent throws, or the process dies: the row stays.
IntentRefused(p) ==
    /\ payment[p].checkout = "open"
    /\ payment' = [payment EXCEPT ![p].checkout = "refused"]
    /\ UNCHANGED <<granted, job, poll, told, deaths>>

\* The second update names the row by id alone, whatever became of it.  An
\* intent need not come with an expiry, and a manual one never does.
IntentIssued(p) ==
    /\ payment[p].checkout = "open"
    /\ ~Locked(p)
    /\ \E dated \in {FALSE, payment[p].provider = "online"} :
          payment' = [payment EXCEPT ![p].checkout = "issued",
                                     ![p].status = "awaiting_provider",
                                     ![p].dated = dated]
    /\ UNCHANGED <<granted, job, poll, told, deaths>>

ReportTransfer(p) ==
    /\ Unsettled(p)
    /\ ~Locked(p)
    /\ payment' = [payment EXCEPT ![p].reported = TRUE]
    /\ UNCHANGED <<granted, job, poll, told, deaths>>

-----------------------------------------------------------------------------
\* Reviews and callbacks.

Idle == [pc |-> "idle", payment |-> NoPayment, decision |-> "none", by |-> "none"]

EndJob(w) == job' = [job EXCEPT ![w] = Idle]

Step(w, step) == job' = [job EXCEPT ![w].pc = step]

Decide(w, p, decision, by) ==
    /\ job[w].pc = "idle"
    /\ job' = [job EXCEPT ![w] = [pc |-> "decided", payment |-> p,
                                  decision |-> decision, by |-> by]]
    /\ UNCHANGED <<payment, granted, poll, told, deaths>>

Review(w, p, decision) ==
    /\ Unsettled(p)
    /\ Decide(w, p, decision, "admin")

\* (mutant: the provider's word is stored as it is)
WebhookRawStatus(status, amountMatches) ==
    IF ~amountMatches THEN "disputed" ELSE status

\* The manual provider verifies no signature and an unissued reference matches
\* no row.  The amount is compared before the reported status is looked at.
WebhookDecision(status, amountMatches) ==
    IF ~amountMatches THEN "disputed"
    ELSE CASE status = "paid"   -> "confirmed"
           [] status = "failed" -> "rejected"
           [] OTHER             -> "expired"

Webhook(w, p, status, amountMatches) ==
    /\ payment[p].provider = "online"
    /\ payment[p].checkout = "issued"
    /\ payment[p].status # "confirmed"
    /\ Decide(w, p, WebhookDecision(status, amountMatches), "webhook")

\* Every decision but a confirmation is one update by id.  A review always ends
\* in a notification, a callback only when it raised a dispute.
WriteDecision(w) == LET j == job[w] IN
    /\ j.pc = "decided"
    /\ j.decision # "confirmed"
    /\ ~Locked(j.payment)
    /\ SetStatus(j.payment, j.decision)
    /\ IF j.by = "admin" \/ j.decision = "disputed" THEN Step(w, "notify") ELSE EndJob(w)
    /\ UNCHANGED <<granted, poll, told, deaths>>

\* The update inside the transaction: it takes the lock, and nobody else sees
\* the new status yet.
BeginConfirm(w) ==
    /\ job[w].pc = "decided"
    /\ job[w].decision = "confirmed"
    /\ ~Locked(job[w].payment)
    /\ Step(w, "tx")
    /\ UNCHANGED <<payment, granted, poll, told, deaths>>

CommitConfirm(w) ==
    /\ job[w].pc = "tx"
    /\ SetStatus(job[w].payment, "confirmed")
    /\ granted' = granted \cup {job[w].payment}
    /\ Step(w, "notify")
    /\ UNCHANGED <<poll, told, deaths>>

\* (mutants: the status is updated outside the transaction that mints; the
\* failure is swallowed and the buyer notified)
RollBackKeepsStatus(w) ==
    /\ job[w].pc = "tx"
    /\ job[w].payment \notin granted
    /\ SetStatus(job[w].payment, "confirmed")
    /\ EndJob(w)
    /\ UNCHANGED <<granted, poll, told, deaths>>
RollBackNotifies(w) ==
    /\ job[w].pc = "tx"
    /\ job[w].payment \notin granted
    /\ Step(w, "notify")
    /\ UNCHANGED <<payment, granted, poll, told, deaths>>

\* Minting threw.  It cannot for a payment already minted, which it skips.
RollBack(w) ==
    /\ job[w].pc = "tx"
    /\ job[w].payment \notin granted
    /\ EndJob(w)
    /\ UNCHANGED <<payment, granted, poll, told, deaths>>

Notify(w) ==
    /\ job[w].pc = "notify"
    /\ told' = told \cup {<<job[w].payment, job[w].decision>>}
    /\ EndJob(w)
    /\ UNCHANGED <<payment, granted, poll, deaths>>

-----------------------------------------------------------------------------
\* Reconciliation: two expiring statements, then a poll of each stale row.

IdlePoll == [pc |-> "idle", todo |-> {}, verdict |-> "none", row |-> NoPayment]

\* One UPDATE: rows locked by a transaction are waited for.
Expire(rows) ==
    /\ \A p \in rows : ~Locked(p)
    /\ payment' = [p \in Payments |->
                     IF p \in rows THEN [payment[p] EXCEPT !.status = "expired"]
                     ELSE payment[p]]

\* (mutant: the filter on 'pending' alone, from before intents were issued)
StalePending == {p \in Payments :
    /\ payment[p].status = "pending"
    /\ payment[p].provider # "manual"
    /\ payment[p].dated
    /\ payment[p].age = "over"}

StaleIntents == {p \in Payments :
    /\ payment[p].status = "awaiting_provider"
    /\ payment[p].provider # "manual"
    /\ payment[p].dated
    /\ payment[p].age = "over"}

ExpireIntents ==
    /\ poll.pc = "idle"
    /\ Expire(StaleIntents)
    /\ poll' = [poll EXCEPT !.pc = "abandoned"]
    /\ UNCHANGED <<granted, job, told, deaths>>

\* (mutant: reported transfers age as well)
UnconfirmedIntents == {p \in Payments :
    /\ payment[p].status = "awaiting_provider"
    /\ payment[p].provider = "manual"
    /\ payment[p].age = "over"}

AbandonedIntents == {p \in Payments :
    /\ payment[p].status = "awaiting_provider"
    /\ payment[p].provider = "manual"
    /\ ~payment[p].reported
    /\ payment[p].age = "over"}

ExpireAbandoned ==
    /\ poll.pc = "abandoned"
    /\ Expire(AbandonedIntents)
    /\ poll' = [poll EXCEPT !.pc = "select"]
    /\ UNCHANGED <<granted, job, told, deaths>>

PollSelect ==
    /\ poll.pc = "select"
    /\ poll' = [poll EXCEPT !.pc = "ask",
                  !.todo = {p \in Payments :
                              /\ payment[p].status = "awaiting_provider"
                              /\ payment[p].provider # "manual"
                              /\ payment[p].checkout = "issued"
                              /\ payment[p].age # "fresh"}]
    /\ UNCHANGED <<payment, granted, job, told, deaths>>

\* "paid" and "unknown" are left to the webhook, and so is a poll that throws.
PollAsk(p, answer) ==
    /\ poll.pc = "ask"
    /\ p \in poll.todo
    /\ poll' = IF answer \in {"failed", "expired"}
               THEN [pc |-> "write", todo |-> poll.todo \ {p}, row |-> p,
                     verdict |-> IF answer = "failed" THEN "rejected" ELSE "expired"]
               ELSE [poll EXCEPT !.todo = @ \ {p}]
    /\ UNCHANGED <<payment, granted, job, told, deaths>>

\* By id alone, after the provider was waited for.
PollWrite ==
    /\ poll.pc = "write"
    /\ ~Locked(poll.row)
    /\ SetStatus(poll.row, poll.verdict)
    /\ poll' = [poll EXCEPT !.pc = "ask", !.verdict = "none", !.row = NoPayment]
    /\ UNCHANGED <<granted, job, told, deaths>>

PollDone ==
    /\ poll.pc = "ask"
    /\ poll.todo = {}
    /\ poll' = IdlePoll
    /\ UNCHANGED <<payment, granted, job, told, deaths>>

-----------------------------------------------------------------------------
\* The clock, and handlers that die.  Age matters to an awaiting row only.

Age(p) ==
    /\ payment[p].status = "awaiting_provider"
    /\ payment[p].age # "over"
    /\ payment' = [payment EXCEPT ![p].age = IF @ = "fresh" THEN "old" ELSE "over"]
    /\ UNCHANGED <<granted, job, poll, told, deaths>>

Dies == deaths < MaxDeaths /\ deaths' = deaths + 1

JobDies(w) ==
    /\ Dies
    /\ job[w].pc # "idle"
    /\ EndJob(w)
    /\ UNCHANGED <<payment, granted, poll, told>>

PollDies ==
    /\ Dies
    /\ poll.pc # "idle"
    /\ poll' = IdlePoll
    /\ UNCHANGED <<payment, granted, job, told>>

-----------------------------------------------------------------------------
Init ==
    /\ payment = [p \in Payments |-> NewPayment]
    /\ granted = {}
    /\ job = [w \in Workers |-> Idle]
    /\ poll = IdlePoll
    /\ told = {}
    /\ deaths = 0

Report == {"paid", "failed", "expired", "unknown"}

BuyerStep(p) ==
    \/ \E provider \in Providers, reference \in BOOLEAN :
          CreatePayment(p, provider, reference)
    \/ IntentRefused(p) \/ IntentIssued(p) \/ ReportTransfer(p)

DecideStep(w) == \E p \in Payments :
    \/ \E decision \in {"confirmed", "rejected"} : Review(w, p, decision)
    \/ \E status \in Report, amountMatches \in BOOLEAN :
          Webhook(w, p, status, amountMatches)

EndTx(w) == CommitConfirm(w) \/ RollBack(w)

ReconcileStep ==
    \/ ExpireIntents \/ ExpireAbandoned
    \/ PollSelect
    \/ \E p \in Payments, answer \in Report : PollAsk(p, answer)
    \/ PollWrite \/ PollDone

Next ==
    \/ \E p \in Payments : BuyerStep(p) \/ Age(p)
    \/ \E w \in Workers :
          \/ DecideStep(w)
          \/ WriteDecision(w) \/ BeginConfirm(w) \/ EndTx(w) \/ Notify(w)
          \/ JobDies(w)
    \/ ReconcileStep \/ PollDies

Spec == Init /\ [][Next]_vars

\* The cron keeps firing, time passes, a transaction ends, and the database
\* hands a contended row to an update that waits for it.
Fairness ==
    /\ SF_vars(ReconcileStep)
    /\ \A p \in Payments : WF_vars(Age(p)) /\ WF_vars(IntentRefused(p) \/ IntentIssued(p))
    /\ \A w \in Workers : WF_vars(EndTx(w))

FairSpec == Spec /\ Fairness

-----------------------------------------------------------------------------
\* Properties.

Status == {"pending", "awaiting_provider", "confirmed", "rejected", "expired",
           "disputed"}
Decision == {"confirmed", "rejected", "expired", "disputed"}

Row == [checkout : {"none", "open", "refused", "issued"},
        status : Status \cup {"none"},
        provider : {"manual", "online", "none"}, reported : BOOLEAN, dated : BOOLEAN,
        age : {"fresh", "old", "over"}]
JobState == [pc : {"idle", "decided", "tx", "notify"},
             payment : Payments \cup {NoPayment},
             decision : Decision \cup {"none"}, by : {"admin", "webhook", "none"}]
PollState == [pc : {"idle", "abandoned", "select", "ask", "write"},
              todo : SUBSET Payments, row : Payments \cup {NoPayment},
              verdict : {"rejected", "expired", "none"}]

\* The table and every handler's local state has its shape.
TypeOK ==
    /\ payment \in [Payments -> Row]
    /\ granted \subseteq Payments
    /\ job \in [Workers -> JobState]
    /\ poll \in PollState
    /\ told \subseteq Payments \X Decision
    /\ deaths \in 0 .. MaxDeaths

\* Money taken is access given: whatever rolls back, dies or is decided twice,
\* a payment that reads 'confirmed' has had its purchase minted.
ConfirmedIsGranted ==
    \A p \in Payments : payment[p].status = "confirmed" => p \in granted

\* Nobody is told that a payment was confirmed unless its purchase was minted.
ToldIsGranted ==
    \A p \in Payments : <<p, "confirmed">> \in told => p \in granted

\* A buyer who reported a bank transfer is never expired by the ageing rule,
\* in whatever order the report, the review and the sweep arrive.
ReportedManualKept ==
    \A p \in Payments :
        payment[p].provider = "manual" /\ payment[p].reported
            => payment[p].status # "expired"

\* What the table says of its rows.
Words     == [p \in Payments |-> payment[p].status]
Transfers == {p \in Payments : payment[p].provider = "manual"}
Reported  == {p \in Payments : payment[p].reported}
Asked     == {p \in Payments : payment[p].checkout = "issued"}

\* The checkout, the handlers and the reconciliation settle a payment as agreed:
\* of all the words that may fall on one row, whoever writes them by id and in
\* whatever order, none takes a grant back or announces one that was not made,
\* expires a reported transfer or has the provider asked a second time.
Agreed == INSTANCE Settlement WITH
    word <- Words, manual <- Transfers, reported <- Reported, asked <- Asked
SettlesAsAgreed == Agreed!Spec

AwaitsPerson(p)   == payment[p].provider = "manual" /\ payment[p].reported
AwaitsProvider(p) == payment[p].provider = "online" /\ ~payment[p].dated

\* An issued intent does not wait for ever, whatever dies or competes for its
\* row: it is decided, or expired.  Except for what the two statements of the
\* reconciliation leave out: a reported transfer, which only a person may
\* settle, and an intent whose provider gave it no expiry
\* (whereNotNull('intent_expires_at')), which waits for its provider.
AwaitingSettles ==
    \A p \in Payments :
        payment[p].status = "awaiting_provider"
            ~> \/ payment[p].status # "awaiting_provider"
               \/ AwaitsPerson(p) \/ AwaitsProvider(p)

\* The replay guard of the webhook: "Already confirmed is a no-op".
LateWebhookIsNoOp ==
    [][\A w \in Workers : \A p \in Payments :
          WriteDecision(w) /\ job[w].by = "webhook" /\ job[w].payment = p
              => payment[p].status # "confirmed"]_vars
=============================================================================
