# Verification of the fann API

A NestJS API on one Postgres database: artists and planners of events find each other, talk, agree on a date, pay
for access and review each other. What is hard about it is not in any one function. Handlers and scheduled jobs read
and write the same rows at the same time, each statement commits on its own unless the code opens a transaction, the
process may die between two statements, payment providers call back late and twice, and the same cron can run in two
instances. The modules here model those parts statement by statement; TLC explores every interleaving of small
instances, and TLAPS proves the safety properties for instances of any size.

- [Inventory](#inventory) - the parts of the system and what could go wrong in each
- [How the models read the code](#how-the-models-read-the-code)
- [Modules](#modules), [Runs](#runs), [Fairness](#fairness), [Proofs](#proofs)
- [What the code does otherwise](#what-the-code-does-otherwise) - findings and observations
- [Not modelled](#not-modelled) and the [plan](#plan)

Paths are relative to `src/src/` unless they say otherwise.

## Inventory

| Component | State it keeps | Operations | What makes it correct |
|---|---|---|---|
| Subscriptions (`subscriptions/subscriptions.service.ts`) | `subscriptions` rows: `ready` credits, `queued`, `active`, `expired` periods; the partial unique index `one_active_sub_per_user` | mint for a payment, activate a day pass, the hourly sweep (expire, promote, notify) | one active row per user; a payment minted once and whole; periods only move forward; every end announced, truthfully and once; a queued period runs in the end |
| Payments (`subscriptions.service`, `admin/admin.service.ts`, `payments/webhooks.service.ts`, `scheduler/`) | `payments` rows: status, provider reference, transfer reference, expiry | create an intent, report a transfer, admin review, provider callback, reconciliation every 15 minutes | confirmed means minted; the buyer is told of what was granted; a reported transfer is not aged out; an intent with an expiry does not await for ever |
| Bookings and availability (`bookings/`, `availability/`) | `bookings` rows, `availability_blocks` | propose, accept, decline, cancel, daily completion; block and free a date | a final status is final; what a party is told stands |
| Reviews (`reviews/`, the daily jobs of `scheduler/`) | `reviews.is_visible`, `bookings.review_emails_sent_at`, the profiles' ratings | submit, publish a pair, publish after seven days, admin removal, recalculate | nobody reads a review and then answers it; a pair is published; a lone review is published in the end; a removed one stays removed |
| Messaging (`messaging/`) | `conversations`, `messages`, the `new_message` notifications | start a thread, request one, answer a request, send | caps on pending requests and on messages; only the initiator writes while a request waits; nobody is sent a message in silence |
| Identity documents and accounts (`verification/identity-documents.service.ts`, `admin/`) | `id_documents`, the files in the bucket, `is_verified`, the account's status | upload and replace, review, activate and suspend, daily deletion of old files | nobody goes live unverified; a file under review is never deleted; a file whose time is over is |
| Scheduler (`scheduler/scheduler.service.ts`, `scheduler/cron.controller.ts`) | one Postgres advisory lock per job | seven jobs, started in process or over HTTP | one run at a time while the lock's connection lives; runs that die are repeated |
| Renewal reminders (`subscriptions.service`, `scheduler/`) | the `subscription_expiring` notifications, which are also the log | look up what is due, filter what was sent, notify and mail one by one | each warning once; a run that ends well leaves nobody in a window unwarned |
| Accounts (`auth/`, `users/`, `verification/verification.service.ts`) | `users`, the profile, the consents and the record of a sign-up, linked identities, verification links in Redis | register, social sign-in, resend and follow a link, change the address, delete | no sign-up half done; no identity linked to an address nobody proved; account numbers differ |
| Sessions (`auth/`, `redis/`) | one refresh token per user in Redis, reset links, the password | login, refresh, logout, reset, change, deletion, an admin's reset and suspension | a session that was ended stays ended, as far as tokens can be told apart |
| Phone codes (`auth/`, `redis/`) | the code and the count of wrong answers, two keys that expire | send, verify | a code takes a bounded number of guesses |
| Media (`media/`) | `media` rows, files, the profile's thumbnail | presign, confirm, set primary, remove | the cap holds; one primary; the thumbnail is the primary photo |
| Rate limiting (`redis/redis-throttler.storage.ts`) | a counter and a block in Redis | one atomic script | no window lets through twice the limit; a block lasts as long as it says |
| Artist directory (`artists/`) | profiles, prices, account status, who pays | search, read a page, edit a profile | a filter tells no more than the card it returns (but on the edges of the price bands) |
| Catalog (`admin/`, `artists/`, migration 005) | categories, groups, artists' picks | create, rename, file, delete; replace the picks | the picker lists every category, once |
| Consent (`consent/`, `email/`) | the append-only `user_consents`, the versions in the code, the secret of the links | accept, set marketing, unsubscribe, send promotional mail | the newest word counts, and the mail follows it |
| Support (`support/`) | tickets and their threads | file, update, reply | the tables hold what the mails say; the first resolution time stands (it does not) |
| Planner profiles, saved artists, analytics, VAT, exports, notifications' list | one table each, or none | queries, single-row updates | - |

**How they interact.** A confirmation (`AdminService.reviewPayment` or `WebhooksService.process`) updates the payments
row and mints the subscriptions rows in one transaction: this is where payments and subscriptions meet. The hourly
sweep, activations and confirmations compete for the one active row a user may have. The daily trigger completes
bookings and starts the review window; submits, the unlock job and an admin then write the same visibility flag. The
access guard and the message cap read the subscription on each message. The retention job, admins and the artist
write the same document rows, and the activation of an account reads them.

**Hard behaviours**, each at its line, are the `hazards` of `PROJECT.json`: handlers that check and then write (time
of check, time of use), compare-and-swap against updates by id alone, transactions that cannot see each other, runs
that die half-way, callbacks that arrive twice or late, the clock that disagrees with a status until a job catches up.

## How the models read the code

- **A statement is a step.** Postgres runs in READ COMMITTED: a statement sees what is committed when it starts, and
  a handler's next statement may see something else. Two reads with nothing between them that depends on the first
  are one step.
- **A transaction** holds the locks of the rows it has updated until it ends, so other updates of those rows wait
  (`Locked`), and its writes become visible in one step (the commit). Where the reads inside a transaction matter
  they are steps of their own.
- **Unique indexes** are guards of the insert or update that meets them, with the conflict (23505) as the other
  disjunct.
- **The process dies** between any two steps: a transaction rolls back, everything else stays as written. `MaxDeaths`,
  `MaxCrashes` and `MaxFaults` bound how often, never when.
- **The clock** is a flag per row (`lapsed`, `age`, `past`, `window`, `old`) that a step raises at any moment. Where
  the code's own constants make one delay longer than any request takes, the guard of the step says so.
- **Left out**: who is calling, validation and formatting, amounts and VAT, audit rows and logs, unless something
  reads them back.

## Modules

| Module | What it is |
|---|---|
| `Entitlements` | What the tables promise a buyer: a purchase is granted whole and once; a period is held, runs until its time is out, and only then is over; one is in use at a time. |
| `Settlement` | What a payment comes to: granted with its confirmation and for good, its provider asked once, expired only by an online provider's word or when nobody has reported a transfer. |
| `Engagement` | What a booking promises its two parties: answered or called off once, no way back from an end, nothing told that does not stand. |
| `DoubleBlind` | What is promised of two reviews: sealed when written, opened together and only when both are there or the days are over, never written twice. |
| `Subscriptions` | Every statement that writes the subscriptions table. `tx` is a confirmation in progress (`mintForPayment`, `mintDatedPlan`), `request` an activation, `sweep` a run of `runMaintenance` with its notices. `subs` is the table; a row is named by its payment and position. |
| `Payments` | Every statement that writes the payments table. `payment` is the table, `job` a review or callback in progress, `poll` the reconciliation run, `told` the notifications. Minting is abstracted to `granted`. The provider is the environment. |
| `Billing` | `Payments` and `Subscriptions` composed: the first statement of a confirmation and its end are joint steps, `granted` is what the rows say. |
| `Bookings` | Proposals for one artist, one planner and one date. `request` is a handler: check, insert or swap, notify. |
| `Reviews` | Extends `Bookings` by what follows the date: the trigger, the window, both ways of publishing, the removal, the ratings. |
| `Messaging` | Threads between artists and planners, `handler` a request in one of its statements. `onPass` is the live subscription, external here. |
| `Identity` | The documents of one artist, the reviews of them, the account, the retention job. Storage is external. |
| `Otp` | One phone number's two Redis keys. `verifier` is a `POST /auth/otp/verify` between its commands; `wrongAnswers` counts per code what the code itself does not. |
| `Throttling` | The Lua script as one step per call, `hits` and `block` with the milliseconds they have left. `admitted` is the history of counted calls let through in the last window. |
| `Media` | One gallery. `mediaReq` is a handler; `confirm` holds the advisory lock from its count to its commit, the others hold nothing. |
| `Reminders` | `runner` is an instance running the job under `cronLock`; the lock can go with its connection while the work goes on. |
| `Accounts` | Sign-ups (form and social), links, address changes and deletions, for a few addresses. `cutShort` are the accounts whose sign-up died. |
| `Sessions` | One account. `caller` is a handler between two steps and the token it holds; `signed`, `twins` and `out` are the tokens signed, signed twice and stored so far; `ended` are those that were out when a logout, reset or deletion finished. |
| `Directory` | Profiles, who pays, and one request that resolves its tier and then reads. `Found` is the search, `Card` what a result shows. |
| `Catalog` | Two tables and the join table, administrators that look and then write, an artist who replaces his picks in a transaction. |
| `Consent` | One user's rows as a sequence, oldest first. `agreed` is what he last said, kept apart from the rows. |
| `Support` | A ticket and the two halves of its thread, handlers between two statements. |
| `SubscriptionsProofs`, `PaymentsProofs`, `BillingProofs`, `BookingsProofs`, `ReviewsProofs`, `MessagingProofs`, `IdentityProofs` | The theorems about the module each is named for. |
| `PartsProofs` | The theorems about the ten modules that stand alone: `Sessions`, `Catalog`, `Directory`, `Support`, `Accounts`, `Media`, `Reminders`, `Consent`, `Throttling`, `Otp`; and about all of them and `Bookings` side by side, as `MCParts` has them. |
| `MC*` | Values of the constants for TLC, and symmetry where every handler is alike and no liveness is checked. Four of them hold several settings, of which the initial state chooses one and the rest stand still: `MCBilling` two, in each of which a part of the purchases and handlers rests; `MCAccess` `Subscriptions` and `Messaging`; `MCTrust` `Reviews` and `Identity`; `MCParts` eleven parts. |

Some correspondences worth knowing before reading:

- `Subscriptions.older` is the order of `created_at`, by which the sweep picks the next queued period. Rows of one
  payment carry the same time, and the pick among them is free.
- `Subscriptions.Lapse` lets `expires_at` go by; `SweepExpire` writes the status. Minting and the unique index look
  at the status (`Holding`), access and activation at the clock (`Running`), as the code does.
- `MintReadActive` and `MintReadQueued` are two statements inside one transaction that other transactions can commit
  between; `MintConflict` is the index refusing what they decided.
- `Payments.WebhookDecision` compares amounts before it looks at the reported status, as `process` does.
- In `Bookings`, `Swap` is `UPDATE ... WHERE id AND status IN (...)` and `SwapMatches` its condition; a proposal's
  insert looks at nothing.
- `Reviews.review` holds the flag `is_visible` alone, because removal and publication share it.
- `Identity.AllApproved` sees the reviewer's own update and, of the other documents, what is committed.
- `Reminders.InWindow` says in ticks of the clock what the thresholds are for; `DaysLeft` and `Threshold` are the code's
  rounding and its choice. `CatchesUp` compares the two.
- `Sessions.refreshKey` is the one token Redis keeps. A token is a JWT of the user's row and of `iat` and `exp`, whole seconds,
  without a `jti` (`auth/auth.service.ts:631`): it is named by the second it was signed in, and two sign-ins of one second
  sign the same one (`twins`). `SignAccessToken` reads `password` and `standing` no more.
- `Payments`: `dated` is whether `intent_expires_at` is set. A provider need not give an expiry, and an intent
  without one is stored with null and passed over by the reconciliation (`StaleIntents`).
- In `Accounts` an account code is a `prefix` and a `number`, as `accountCodePrefix` and the count make them.
- In `Consent` the order of the sequence is that of `accepted_at`; the versions are constants of the code, so they
  change with a deployment (`Reword`).
- A file in `Identity` is named by its kind and the number of its upload: the random part of its key.

## Runs

Passing runs, exhaustive within their bounds:

| Run | Bounds | States | What it shows |
|---|---|---|---|
| `Access_races` | `Subscriptions`: one buyer, a day pass and two months, one confirmer, two activators, two sweeps, one death. `Messaging`: one artist, two planners (one may buy a pass twice), two handlers, both caps at one, one death | 2.5 M | `OneActivePerUser`, `MintedOnce`, `NoticesTrue`; `KeepsPromise`: the tables implement `Entitlements`, so nothing is taken back, started again or ended before its time. `CapsHold`, `NoSilentMessage`, `NoReplyWhilePending` |
| `Pay_races` | one payment, manual or online, its intent with or without an expiry, two deciders, one reconciliation, one death | 669 k | `ConfirmedIsGranted`, `ReportedManualKept`; `SettlesAsAgreed`: the table and its writers implement `Settlement`; `AwaitingSettles` |
| `Bill_access` | one payment for two periods, one confirmer, one sweep, one death; or a month and a day pass of one buyer, one confirmer, one activator | 511 k | `ConfirmedIsMinted`, `MintedIsGranted`, also when the day pass takes the active slot between the mint's read and its insert; `PeriodsEventuallyRun`, `PeriodEndsAnnounced` |
| `Trust_all` | `Reviews`: one accepted booking, one booking handler, two review handlers, both jobs, one death. `Identity`: two kinds of document (one replaced once), two reviewers, one activation, the retention job, one fault | 781 k | `NoAnswering`, `PairIsPublished`; `IsDoubleBlind`: submits and jobs implement `DoubleBlind`; `ReviewIsPublished`. `LiveIsVerified`, `PendingFileKept`; `DueIsPurged` |
| `Parts_all` | eleven parts, one at a time, see below | 956 k | one property of each part, `KeepsItsWord` and the type invariants |

`Access_races`, `Trust_all` and `Parts_all` check side by side modules that share no state with each other: the initial state
chooses the one that moves, and the others rest, so that their state spaces add up and do not multiply. Where they share
model values and symmetry is used, that is sound: in each part a set of actors or rows is a set of its own, so exchanging two values of
one set is a symmetry of every part at once. In `Trust_all` the reviews start from a booking that was proposed and accepted,
which both parties have been told (`Accepted`); the way there, with the answers that race for it, is checked in `Parts_all`, and
`ReviewsProofs` needs no such start. The parts of `Parts_all` and their properties:

| Part | Bounds | Property |
|---|---|---|
| `Bookings` | two proposals for one date, three handlers, one death | `ToldTheTruth`; `KeepsItsWord`: the handlers and the completion job implement `Engagement` |
| `Otp` | two codes, two guesses each, two handlers, one death, a life of two ticks | `GuessBudget`: the wrong answers a code takes are bounded, though not by `MAX_OTP_ATTEMPTS` |
| `Throttling` | three calls in four ticks of half a second, a block of five | `LimitIsFair`: less than twice the limit in any window's length, and a caller told to wait n seconds may call again then |
| `Media` | two files, three rows, a cap of two, two handlers | `GalleryInOrder`: cap, positions and primary under races; the thumbnail where the code promises one |
| `Reminders` | a year with thresholds three and one, a day pass with none, two instances, one lost connection, both scheduler modes | `WarnedOnce`: never twice, except once for each lost connection; no window missed by a run that ends |
| `Accounts` | one row, two addresses, two sign-ups, one link, one death | `SignUpWhole`: consents, record and verification are there unless the sign-up died |
| `Sessions` | two handlers, two seconds, two passwords, one reset link, one death | `EndedStaysEnded`: a token that was out when a logout, reset or deletion finished works again only if another sign-in of its second signed the same |
| `Directory` | two artists, prices below, on and above an edge of a band, a guest, a booker and an admin | `OnlyTheEdgeSeparates`: of two artists whose cards are equal a filter finds one alone only by a ceiling that is snapped to exactly its price |
| `Catalog` | two categories, two groups, three names of two slugs, two administrators, one artist | `PickerIsComplete`: no category outside the picker, no two of one name |
| `Consent` | one mandatory document, four rows, two versions, two secrets, two senders | `ConsentStands`: after a withdrawal each sender sends at most the mail already past its question; the prompt is exact |
| `Support` | one ticket, two handlers, one reply, two resolutions, one death | `TablesFirst`: nothing is mailed that the tables do not hold, and a ticket without its opening message is being filed or its handler died |

With two accounts in `Accounts` that part passes too, with about 1.5 million states more; two of
that part's rows are what `Acct_codes` explores.

*Why these bounds.* The properties speak of one user, payment, booking, pair of parties or artist, and the code never
locks or counts across them except where the model has both (two planners share an artist's cap of pending requests).
A race needs two of a kind at work on it, a duplicate needs two deliveries, and a partial failure one death; each
run has that many of what its property is about. The caps are one so that the boundary is met with two requests. No
trace is cut short: counters that could grow without end (uploads, passes, deaths) are bounded in the guard that
raises them, and everything else is finite by itself. In `Reviews`, `Messaging`, `Identity` and the parts the system may
come to rest, when every row is final or every bounded input is used, so deadlock is not an error there. It is
checked in the runs of payments and subscriptions (in `Access_races` the messages may rest).

Runs that exhibit a behaviour the code's comments deny, see [below](#what-the-code-does-otherwise): `Pay_late_webhook`, `Rev_removed`,
`Id_prune`, `Id_skew`, `Acct_codes`, `Dir_edges`, `Sup_stamp`. Each checks one property and TLC finds the trace in a few steps.

## Fairness

Liveness assumes no more than what the deployment gives:

- *Crons keep firing and a run goes on.* Weak fairness of each sweep's steps, of the unlock job, of the retention
  job; strong fairness of reconciliation, whose update of a row may be made to wait over and over by transactions
  that lock the row. Runs may die as often as the bound allows, so progress never rests on one run.
- *Transactions end*, by commit or rollback; Postgres ends those of a lost connection.
- *In `Bill_access`* fairness is stated for the scenario that has a sweep (`MCFairness`); the other one checks invariants only.
- *In `Trust_all`* each part's fairness is stated for the behaviours in which that part runs.
- *Time passes* (`Age`, `Lapse`, `WindowCloses`).
- *A started checkout ends*: the provider answers or the call throws.

Nothing is assumed of buyers, admins, reviewers, artists or providers: none of them has to do anything. A day
pass may be activated at any time, so `PeriodsEventuallyRun` is about dated plans. `Access_races` and `Parts_all` check safety and have no
fairness.

## Proofs

TLAPS checks every theorem for all values of the constants: any number of users, payments, bookings, handlers, and any
bounds. Each proof has the same outline: an inductive invariant stronger than the property, a lemma that the initial states
satisfy it, one lemma per action that it is kept, and a last step in temporal logic. What follows says for each module
why the property is not inductive by itself, which is where the argument about the code is.

### Assumptions

They are the named `ASSUME`s of the modules; TLC evaluates each of them on the run that uses the module.

- Bounds are naturals, quantities, caps and durations positive; a null value (`NoPayment`, `NoBooking`, `NoMedia`, `Unset`, `"free"`)
  is none of the values it stands beside.
- The handlers are finitely many where they are counted (`Handlers` of `Messaging`, `Desks`, `Verifiers`), and so are the plans and
  instances of `Reminders`, the edges of the price bands and the mandatory documents.
- A block lasts at least as long as a window (`BlockDuration >= Ttl`): `app.module.ts` gives no block of its own, and the
  guard then uses the window's.
- `MaxOtpAttempts` is at least two. It is five in the code; with one, the first wrong answer would have to spend the code
  as well as start the clock.
- Account codes start with a prefix of one of the three kinds of account, as in `accountCodePrefix`.

### Payments, subscriptions, and both together

**`SubscriptionsProofs`**: `TypeCorrect`, `AtMostOneActive`, `NeverMintedTwice`, and `OnlyForward` (`PeriodsMoveForward`, which no
run checks by itself, because `KeepsPromise` says more), from `Inductive`.
`MintedOnce` is not inductive by itself: a transaction that has passed its already-minted check inserts without looking
again. `TxInv` says why that is sound: no two transactions are about one payment, since both would hold the lock of
its row, and so a payment past its check still has no rows. `OneActivePerUser` follows from the index at each of the
three writes that activate a row, together with the fact that an insert activates at most its first row
(`InsertFacts`). `OnlyForward` needs `CarriedIds`: the ids that an activation or sweep carries across its statements name
rows that exist.

`NoticesAreTrue` (what maintenance announces happened, and once) needs more: what a sweep has expired or promoted and
not told yet was its own doing, so that no other sweep carries it, and is in no notice sent so far.

`Refinement`: `Subscriptions` implements `Entitlements` under the mapping of a row's status and of its time to held, running,
due or over. A committed mint is a `Grant`, an activation or promotion a `Start`, the clock passing `expires_at` makes the period
due (`ComesDue`), an expiring sweep is an `End` of periods that are due, and every other step stutters. `Grant` is enabled
because the payment has no rows and `Start` because the active slot is free, both by the invariant above; a period
in use is a row that reads 'active', lapsed or not (`InUseIsActive`), and a row is inserted with its time still to
come (`InsertedInTime`).

**`PaymentsProofs`**: `PaymentsHaveTheirShape`, `MoneyTakenIsAccessGiven`, `ConfirmationsToldAreTrue`,
`ReportedTransfersAreKept`. The status of a row is written by id alone, so the property of the table must be carried by
what each handler is about to write (`Meant`, `Polled`): a job that is to notify of a confirmation has seen its commit, and
whatever carries the word 'expired', a callback or reconciliation with its list, carries it for a row of an online provider,
which cannot be a reported transfer.

`PaymentsSettleAsAgreed`: `Payments` implements `Settlement` under the columns of the table. Nothing in the code makes a first
decision final, so the abstract specification lets a later word fall on an earlier one and says what does hold: no word
takes the grant back, no notice announces a grant that was not made, the provider is asked once, what is disputed or
expired is so by an online provider that was asked, and the rest of what expires is waiting and reported by nobody. A
refusal, a late callback and a poll are one `Reject` or `Object` each, both ageing statements a `LetGo`. It needs one
thing more of what is carried between two statements (`Heard`): the words 'expired' and 'disputed' are about rows that
were asked, and nobody is told of an expiry. `ToldIsGranted` follows and is a theorem, without a place of its own in a run.

**`BillingProofs`**: the composition. `PaymentsInCompany` and `SubscriptionsInCompany` say that neither side does in company
what it would not do alone; the second needs the invariant of the first, that a transaction is begun for a row of the
table. Hence the invariants of both hold of both together (`GuaranteesCarryOver`). `RowsFollowGrants` and
`ConfirmedHasItsRows` need one thing that neither side knows (`Joint`): a worker's transaction is open on both sides
at once and about one payment, and rows exist for exactly the payments granted.

`PromiseIsKeptInCompany` and `AgreementIsKeptInCompany`: both together implement both abstract specifications. The steps of
`Billing` are steps of each side, or leave it alone, and each side has its invariant in company, so that its refinement
can be followed step by step; what is to be shown besides is that the two instances of a module mean the same.

### Bookings and reviews

**`BookingsProofs`**: `TypeCorrect`, `Truthful`, `Finality`, from `Invariance`. What a handler is about to say must already
be true (`Sayable`) and remain so under every move the table can make (`MovesKeep`); a pending swap may only
aim where its expected status can go (`Aimed`); and no one but its creator knows a row before its insert (`Unborn`),
since the model's insert sets the status of its row whatever that is, where the code's creates a new one.

`EngagementsAreKept`: with that invariant `Bookings` implements `Engagement`. A swap is an answer or a call-off, by what it aims
at; the completion job is `Hold`, for all bookings in one statement; and a notice is `Tell`, because what is
`Sayable` is what may be told. `Finality` follows from it in substance (no way leads out of an end) and stays a
theorem of its own.

**`ReviewsProofs`**: `ReviewsHaveTheirShape`, `NobodyAnswersAReview`, `CompletePairsArePublished`. The first rests on
`Finality` underneath: a window is set for a completed booking only, completed is final, so no window is set twice and
a closed one does not open again (`Windows`). What the two publishing updates have selected stays true until
they run (`Selected`). Of two submits at once the one that inserts last sees both rows, and until the pair is visible somebody
is at work on it (`PairTended`).

`ReviewsAreDoubleBlind`: `Reviews` implements `DoubleBlind`. An insert is `Write`, for which the unique index is enough; both
publishing updates are `Open`, of complete pairs by `Selected` or of bookings whose days are over by `Windows`, and open both sides in
one step; an administrator's removal seals a review again, and the next `Open` shows it, because the program has one
flag for both (`Rev_removed`). `EngagementsAreKeptInCompany` carries `Engagement` over: what `Reviews` adds, the daily trigger
included, is a step of the bookings or leaves them alone.

### Messaging and identity

**`MessagingProofs`**: `TheCapsHold`, `NoMessageStaysSilent`, `NobodyAnswersAPendingRequest`, `MessagingHasItsShape`. The cap on
pending requests holds because a count made under the advisory lock leaves room for the insert that follows (`Queue`),
and the lock is exclusive. The cap on messages holds only up to the requests in flight: what was sent, plus the handlers
past the cap's check, is at most the cap and one less than the number of handlers (`Budget`). Nobody answers a pending
request because a request never becomes pending again (`Sound`).

**`IdentityProofs`**: `NobodyLiveUnverified`, `RetentionSparesPending`, `IdentityHasItsShape`. Going live looks in one statement and
writes in another, and by then a document may have been replaced. What holds both together only grows: whoever is about
to write has seen every kind approved at some time (`Recorded`, `Judging`). Retention deletes the files it has
selected; a selected row may be replaced meanwhile, never by the same file (`Spared`, `Numbered`).

### The parts

All in `PartsProofs`, each with the type invariant of its module:

| Theorem | Module | What makes it inductive |
|---|---|---|
| `EndedSessionsStayEnded` | `Sessions` | a sign-in half-way may store what it signed long after: if that token is out already, or another sign-in is about to store it too, it has a twin (`TokensHeld`) |
| `NoCategoryIsLost` | `Catalog` | an editor's aim survives its look (`EditorsAim`): the indexes and the foreign key carry the property, not the checks |
| `OnlyEdgesTellCardsApart` | `Directory` | nothing about the state; the lemmas are about bands: a floor snapped to an edge separates no two prices of one band, and a ceiling only its own price from those above |
| `TheTablesComeFirst` | `Support` | who is about to mail has written: the replies mailed and those about to be mailed are together no more than those stored |
| `SignUpsLeaveWholeAccounts` | `Accounts` | an account is whole, or cut short, or one sign-up at work owns it, no other does, and it has done what its stage says (`Stages`, `OneOwner`, `WholeOrOwned`) |
| `GalleriesStayInOrder` | `Media` | one insert at a time holds the lock and knows a free slot (`OneInserts`, `Slots`); everything else is tidy unless handlers without the lock raced |
| `WarningsAreGivenOnce` | `Reminders` | a second runner at work, and each repetition, was paid for by a lost connection (`OrphansPaid`, `RepeatsPaid`); a mail follows its notice; no window closes between two runs (`CatchesUp`) |
| `ConsentIsWhatWasSaid` | `Consent` | the newest row of a document says what was agreed; a sender that has read the consent is counted before it sends |
| `LimitsAreFair` | `Throttling` | the call that opened a window is a window old before the next one opens, so two windows never both count in full |
| `GuessesAreCapped` | `Otp` | a potential, below |

`GuessesAreCapped` bounds the wrong answers to one code by `(Verifiers + 1) * MaxOtpAttempts - 2 + otpLost`. The invariant
bounds a sum (`ThisCode`): the answers the stored code has had, one more of every handler that is free to give one,
what the count still lets through, and `MaxOtpAttempts - 1` for each handler that is late with its reset and for a counter
that was started for an earlier code and expires before this one. A wrong answer takes from the count or is its
handler's last; a late reset or the early expiry pays for the new count it opens; a death pays for the handler
that comes back. When every handler is on its way to a reset the sum is one too many, but then nobody can have
answered this code yet.

`PartsHoldSideBySide` says of all eleven parts at once what each of these theorems, and those of `BookingsProofs`, say of one, for
every value of the constants: the specification of `MCParts`, in which one part moves and the others rest, implies the specification
of each part, since a step of another part is a stutter to it (`EachMovesAlone`). So what `Parts_all` finds on small
instances is not owed to their being checked together.

### Only model-checked

- Every liveness property, and what depends on fairness: TLAPS does not reason about `ENABLED`.
- The properties that the seven violation runs refute.
- What a recursive definition computes for every input. The few facts about finite sets that need an induction (a finite set
  of numbers has a largest and a smallest, `Peak` and `Trough`) go by well-founded induction on strict subsets.

## What the code does otherwise

Seven runs refute what a comment of the code says:

- **`Pay_late_webhook`**: "Already confirmed is a no-op" (`payments/webhooks.service.ts:43`). The status is read at line
  119 and written by id alone at 135 and 147, so a callback that overlaps with a confirmation writes 'rejected', 'expired'
  or 'disputed' over it. The purchase stays granted.
- **`Rev_removed`**: an admin's removal "just hides it" (`reviews/reviews.service.ts:171`), with the same flag that
  both ways of publishing set: the second submit or the daily unlock shows the review again.
- **`Id_prune`**: "PENDING documents are never touched" (`verification/identity-documents.service.ts:277`). The job clears
  the key by id alone; a document replaced after the job's select loses the key of its new file. The file itself
  is kept (`PendingFileKept`), without a row that names it.
- **`Id_skew`**: two admins approve the last two documents at once, each transaction misses the other's, and
  `is_verified` stays false with every document approved (`admin/admin.service.ts:357`).
- **`Acct_codes`**: "CMP-000007 and PLN-000007 can therefore never both exist" (`users/users.service.ts:349`). The number is
  a count, taken before the insert; two registrations of one role with different prefixes count alike, and the
  unique index sees two different codes. Two with one prefix collide and one of them fails.
- **`Dir_edges`**: "a non-paying viewer can only ever filter at the same granularity they can see"
  (`artists/artist-visibility.ts:113`). A ceiling is snapped to a boundary and compared by `<=`, while a price on a boundary
  is shown with the band above: 250 and 300 have the card "$250-$500", and `maxPrice=250` finds the first alone.
  `OnlyTheEdgeSeparates` says that this is the only way.
- **`Sup_stamp`**: the resolution time is "stamped when it first reaches a terminal state and left alone after, so reopening and
  re-resolving does not rewrite the original resolution time" (`support/support.service.ts:224`). Reopening writes null over
  it, and the second resolution stamps a new one. Two administrators who resolve at once both stamp, too.

Refuted by the models as well, or against a comment, without a run of its own:

- A reset ends the session "so a stolen refresh token from before the reset stops working" (`auth/auth.service.ts:355`). Two
  sign-ins within one second sign the same string, so a token that was ended works again if the other sign-in was
  half-way and stores it after the reset: the exception of `EndedStaysEnded`.
- The opening message is stored "so a reply thread reads in order from the beginning" (`support.service.ts:78`). It is a second
  insert outside any transaction: if the handler dies before it, the thread starts in the middle.
- "A fresh code starts from zero" (`redis/redis.service.ts:141`): nothing resets the counter when a code is sent, so a new
  code inherits the wrong answers to the one before, until the counter expires (`Otp`).
- At most four categories per artist: the trigger counts the rows its transaction can see (migration 005, lines
  44 to 46), so two replacements at once may leave more. Deleting a category that was just picked cascades.

Met while modelling and present in the models, without a statement in the repository that a run could refute:

- An intent whose provider gave it no expiry is neither expired nor polled by the reconciliation
  (`scheduler/scheduler.service.ts:398`; `expiresAt` is optional and stored as null, `subscriptions.service.ts:252`): if no
  callback comes it waits for ever (`AwaitsProvider`, the exception of `AwaitingSettles`).
- Two proposals for one artist and date can both pass the two checks and both insert (`bookings/bookings.service.ts:65`).
- An answer to a request is written by id alone (`messaging/messaging.service.ts:287`): an acceptance that read the row
  before can overwrite a refusal.
- Line 390 of `messaging.service.ts` puts the overshoot of the message cap at one; it is one per other request in flight
  (`CapIsSoftButBounded`).
- A plan bought after a lapse and before the hourly sweep is queued behind a period that is over, because minting
  trusts the status (`subscriptions.service.ts:493`) and access trusts the clock; it starts with the sweep.
- In `activate`, a unique violation need not mean that another activation won: a mint or a promotion may have.
- A second review of a payment is not refused: the later decision lands on the earlier, a rejection over a
  confirmation included (`admin/admin.service.ts:466`). `createPaymentIntent` likewise puts a payment decided meanwhile back
  to 'awaiting_provider' (`subscriptions.service.ts:247`).
- A checkout whose provider call threw stays 'pending' and in the admins' queue: the reconciliation's filter is
  'awaiting_provider' (`scheduler/scheduler.service.ts:396`).
- A callback whose mint meets the index throws out of `process`, whose comment says it always resolves
  (`payments/webhooks.service.ts:48`); the provider's retry then succeeds.
- If the daily trigger dies after it has completed its bookings and before it has stamped them, no later run selects
  them: they get no window, and a lone review of one stays hidden (`scheduler/scheduler.service.ts:575`).
- A rating is read and then written (`reviews/reviews.service.ts:240`): of two recalculations the older may win until the next.
- `is_verified` outlives the replacement of an approved document. Replaced files are not deleted from the bucket.
- A verification link confirms whichever address is pending when it is followed (`auth/auth.service.ts:251`).
- A rename that keeps the slug meets its own row in the query for clashes when the name changes only in case or
  punctuation, and is refused (`admin/admin.service.ts:993`).
- A sign-in that read the password before a reset stores its token after the reset has ended the sessions; only tokens
  from before are promised to stop.
- Deleting a category leaves the picks of artists who had it one shorter without a word; deleting a group is refused by
  a NOT NULL constraint if a category was filed under it after the look.
- `planners.getEventTypes` counts active planners only, while the search lists companies only.
- A closed account can be made active again by an admin: `updateUserStatus` does not look at `deleted_at`.

## Not modelled

- *Nothing a model would tell apart*: planner profiles, saved artists, analytics and its export, VAT arithmetic, email
  templates, profile completeness, DTOs, guards on roles, request filters: queries, single statements and arithmetic on one
  value. The administrator's decision on a verification record is one update of the newest record.
- *Left out of a modelled part*: read marks of messages, the list of notifications, the categories that change which
  documents are required, the cookies and the provider's profile behind a social sign-in, the order and the paging
  of search results (sorting by price orders artists within a band, also for viewers who are not shown the price), an
  artist's view of himself, a slug that an administrator gives in the request (the models derive it from the name).
- *Assumed*: the clock of the database does not go backwards.
- *Outside the repository*: Postgres, Redis, object storage and the providers, as far as the code relies on them.
  The Whish and OMT providers are stubs.

## Plan

The models are done: `Subscriptions`, `Payments`, `Billing`, `Bookings`, `Reviews`, `Messaging`, `Identity`, the
parts (`Otp`, `Throttling`, `Media`, `Reminders`, `Accounts`, `Sessions`, `Directory`, `Catalog`,
`Consent`, `Support`), and what four of them implement: `Entitlements`, `Settlement`, `Engagement`, `DoubleBlind`.

The proofs: every safety invariant, every action property and every refinement that a passing run checks is a theorem;
the refinements of the two halves of `Billing` and of the bookings under `Reviews` hold of the compositions too
(see [Proofs](#proofs)).

Next:

1. An abstract specification of `Messaging` (who may write, who hears of it), and that the module implements it.
2. One of the retention of documents in `Identity`, with the storage as its state.
3. In the model: the standing of an account as a whole (required documents that change with the categories, the
   record's decision, deletion).
