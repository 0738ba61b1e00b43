--------------------------- MODULE Subscriptions ---------------------------
(***************************************************************************)
(* The subscriptions table and everything that writes it: the minting of   *)
(* rows inside a payment-confirmation transaction (mintForPayment), the    *)
(* activation of a banked day pass (activate), and the hourly maintenance  *)
(* sweep (expireAndPromote and the notifications built from its result).   *)
(*                                                                         *)
(* Every SQL statement outside a transaction is one step; a transaction is *)
(* a step per read and one step for its writes and commit, since under     *)
(* READ COMMITTED nobody sees them before.  Requests and sweeps interleave *)
(* between steps, so what a handler read may be stale when it writes.      *)
(*                                                                         *)
(* Time is abstracted: Lapse(id) is the moment expires_at passes, at any   *)
(* time after the row became active.  created_at matters only as an order  *)
(* and is the relation `older`.                                            *)
(***************************************************************************)
EXTENDS Naturals, FiniteSets

CONSTANTS
    Users,        \* buyers
    Payments,     \* payments that may be confirmed
    Owner,        \* payments.planner_id
    Plan,         \* payments.plan_code
    Quantity,     \* payments.quantity
    Confirmers,   \* slots for concurrent confirmation transactions
    Activators,   \* slots for concurrent activation requests
    Sweepers,     \* slots for concurrent maintenance runs
    MaxCrashes,   \* bound on the handlers that die half-way
    NoPayment, NoRow

ASSUME PurchaseAssumption ==
    /\ Owner \in [Payments -> Users]
    /\ Plan \in [Payments -> {"day", "month", "year"}]
    /\ Quantity \in [Payments -> Nat \ {0}]

ASSUME CrashAssumption == MaxCrashes \in Nat

VARIABLES
    subs,      \* the table: row id -> [status, lapsed]; lapsed: expires_at <= now()
    older,     \* <<p, q>>: the rows of payment p have the earlier created_at
    tx,        \* confirmation transactions in progress
    request,   \* activation requests in progress
    sweep,     \* maintenance runs in progress
    notices,   \* the subscription notifications written so far
    crashes

vars == <<subs, older, tx, request, sweep, notices, crashes>>

-----------------------------------------------------------------------------
\* The table.  A row's id is <<payment, n>>: the n-th row inserted for that
\* payment, so a second mint would show up as rows numbered past Quantity.

RowId == Payments \X (Nat \ {0})
Row   == [status : {"ready", "active", "queued", "expired"}, lapsed : BOOLEAN]

UserOf(id) == Owner[id[1]]
RowsOf(p)  == {id \in DOMAIN subs : id[1] = p}

Holding(u, status) ==
    {id \in DOMAIN subs : UserOf(id) = u /\ subs[id].status = status}

\* getActiveSubscription: the status is not trusted without the clock.
Running(u) == {id \in Holding(u, "active") : ~subs[id].lapsed}

\* (mutants: a schema without the index; an index that trusts the clock)
NoIndex(u) == TRUE
IndexOnRunning(u) == Running(u) = {}

\* The partial unique index one_active_sub_per_user admits an active row of u.
IndexAdmits(u) == Holding(u, "active") = {}

\* (mutant: minting without looking for earlier rows)
NeverMinted(p) == FALSE

AlreadyMinted(p) == RowsOf(p) # {}

\* (mutant: an off-by-one in the loop over quantity)
NewIdsFromZero(p) == {<<p, Cardinality(RowsOf(p)) + n - 1>> : n \in 1 .. Quantity[p]}

FirstId(p) == <<p, Cardinality(RowsOf(p)) + 1>>
NewIds(p)  == {<<p, Cardinality(RowsOf(p)) + n>> : n \in 1 .. Quantity[p]}

\* Quantity[p] new rows: the first one with status `first`, the others `rest`.
Insert(p, first, rest) ==
    subs' = [id \in DOMAIN subs \cup NewIds(p) |->
               IF id \in NewIds(p)
               THEN [status |-> IF id = FirstId(p) THEN first ELSE rest,
                     lapsed |-> FALSE]
               ELSE subs[id]]

SetActive(id) ==
    subs' = [subs EXCEPT ![id] = [status |-> "active", lapsed |-> FALSE]]

-----------------------------------------------------------------------------
\* Confirmation transactions.  The caller has updated the payments row, so a
\* second transaction on the same payment waits until this one has ended.

IdleTx == [pc |-> "idle", payment |-> NoPayment, behind |-> FALSE]

Locked(p) == \E c \in Confirmers : tx[c].payment = p

\* created_at defaults to now(), the start of the inserting transaction.
MintBegin(c, p) ==
    /\ tx[c].pc = "idle"
    /\ ~Locked(p)
    /\ tx' = [tx EXCEPT ![c] = [pc |-> "check", payment |-> p, behind |-> FALSE]]
    /\ older' = IF AlreadyMinted(p) THEN older
                ELSE {e \in older : p \notin {e[1], e[2]}}
                       \cup ((Payments \ {p}) \X {p})
    /\ UNCHANGED <<subs, request, sweep, notices, crashes>>

EndTx(c) == tx' = [tx EXCEPT ![c] = IdleTx]

AdvanceTx(c, step, behind) ==
    tx' = [tx EXCEPT ![c] = [pc |-> step, payment |-> tx[c].payment,
                             behind |-> behind]]

MintSkip(c) ==
    /\ tx[c].pc = "check"
    /\ AlreadyMinted(tx[c].payment)
    /\ EndTx(c)
    /\ UNCHANGED <<subs, older, request, sweep, notices, crashes>>

\* Day passes are banked as credits and never queue.
MintCredits(c) == LET p == tx[c].payment IN
    /\ tx[c].pc = "check"
    /\ ~AlreadyMinted(p)
    /\ Plan[p] = "day"
    /\ Insert(p, "ready", "ready")
    /\ EndTx(c)
    /\ UNCHANGED <<older, request, sweep, notices, crashes>>

MintCheck(c) == LET p == tx[c].payment IN
    /\ tx[c].pc = "check"
    /\ ~AlreadyMinted(p)
    /\ Plan[p] # "day"
    /\ AdvanceTx(c, "active", FALSE)
    /\ UNCHANGED <<subs, older, request, sweep, notices, crashes>>

\* mintDatedPlan asks for status = 'active' and does not look at the clock.
MintReadActive(c) == LET p == tx[c].payment IN
    /\ tx[c].pc = "active"
    /\ AdvanceTx(c, "queued", Holding(Owner[p], "active") # {})
    /\ UNCHANGED <<subs, older, request, sweep, notices, crashes>>

MintReadQueued(c) == LET p == tx[c].payment IN
    /\ tx[c].pc = "queued"
    /\ AdvanceTx(c, "insert", tx[c].behind \/ Holding(Owner[p], "queued") # {})
    /\ UNCHANGED <<subs, older, request, sweep, notices, crashes>>

\* chainEnd is not null: everything stacks behind what is there.
MintBehind(c) ==
    /\ tx[c].pc = "insert"
    /\ tx[c].behind
    /\ Insert(tx[c].payment, "queued", "queued")
    /\ EndTx(c)
    /\ UNCHANGED <<older, request, sweep, notices, crashes>>

\* chainEnd is null: the first period starts at once, the others queue.
MintStart(c) == LET p == tx[c].payment IN
    /\ tx[c].pc = "insert"
    /\ ~tx[c].behind
    /\ IndexAdmits(Owner[p])
    /\ Insert(p, "active", "queued")
    /\ EndTx(c)
    /\ UNCHANGED <<older, request, sweep, notices, crashes>>

\* 23505 from one_active_sub_per_user: the whole confirmation rolls back.
MintConflict(c) ==
    /\ tx[c].pc = "insert"
    /\ ~tx[c].behind
    /\ ~IndexAdmits(Owner[tx[c].payment])
    /\ EndTx(c)
    /\ UNCHANGED <<subs, older, request, sweep, notices, crashes>>

-----------------------------------------------------------------------------
\* Activation of a banked credit.

IdleRequest == [pc |-> "idle", credit |-> NoRow]

EndRequest(a) == request' = [request EXCEPT ![a] = IdleRequest]

ActivateRead(a, id) ==
    /\ request[a].pc = "idle"
    /\ subs[id].status = "ready"
    /\ request' = [request EXCEPT ![a] = [pc |-> "check", credit |-> id]]
    /\ UNCHANGED <<subs, older, tx, sweep, notices, crashes>>

\* A running plan refuses the request; otherwise go on to spend the credit.
ActivateCheck(a) ==
    /\ request[a].pc = "check"
    /\ IF Running(UserOf(request[a].credit)) # {}
       THEN EndRequest(a)
       ELSE request' = [request EXCEPT ![a].pc = "spend"]
    /\ UNCHANGED <<subs, older, tx, sweep, notices, crashes>>

ActivateSpend(a) == LET id == request[a].credit IN
    /\ request[a].pc = "spend"
    /\ subs[id].status = "ready"
    /\ IndexAdmits(UserOf(id))
    /\ SetActive(id)
    /\ EndRequest(a)
    /\ UNCHANGED <<older, tx, sweep, notices, crashes>>

\* Zero rows updated: another request spent the same credit.
ActivateUsed(a) ==
    /\ request[a].pc = "spend"
    /\ subs[request[a].credit].status # "ready"
    /\ EndRequest(a)
    /\ UNCHANGED <<subs, older, tx, sweep, notices, crashes>>

\* 23505: the user has an active row already.
ActivateConflict(a) == LET id == request[a].credit IN
    /\ request[a].pc = "spend"
    /\ subs[id].status = "ready"
    /\ ~IndexAdmits(UserOf(id))
    /\ EndRequest(a)
    /\ UNCHANGED <<subs, older, tx, sweep, notices, crashes>>

-----------------------------------------------------------------------------
\* Maintenance.

IdleSweep == [pc |-> "idle", todo |-> {}, next |-> NoRow,
              ended |-> {}, started |-> {}, unsent |-> {}]

\* (mutant: the sweep forgets expires_at)
AllActive == {id \in DOMAIN subs : subs[id].status = "active"}

Lapsed == {id \in DOMAIN subs : subs[id].status = "active" /\ subs[id].lapsed}

SweepExpire(s) ==
    /\ sweep[s].pc = "idle"
    /\ subs' = [id \in DOMAIN subs |->
                  IF id \in Lapsed THEN [subs[id] EXCEPT !.status = "expired"]
                  ELSE subs[id]]
    /\ sweep' = [sweep EXCEPT ![s].pc = "waiting", ![s].ended = Lapsed]
    /\ UNCHANGED <<older, tx, request, notices, crashes>>

\* (mutant: the users whose period was ended by this very run)
WaitingFromEnded(s) ==
    /\ sweep[s].pc = "waiting"
    /\ sweep' = [sweep EXCEPT ![s].pc = "promote",
                             ![s].todo = {UserOf(id) : id \in sweep[s].ended}]
    /\ UNCHANGED <<subs, older, tx, request, notices, crashes>>

\* Everyone holding a queued period with nothing active.
Waiting == {u \in Users : Holding(u, "queued") # {} /\ Holding(u, "active") = {}}

SweepWaiting(s) ==
    /\ sweep[s].pc = "waiting"
    /\ sweep' = [sweep EXCEPT ![s].pc = "promote", ![s].todo = Waiting]
    /\ UNCHANGED <<subs, older, tx, request, notices, crashes>>

OldestQueued(u) ==
    {id \in Holding(u, "queued") :
        \A other \in Holding(u, "queued") : <<other[1], id[1]>> \notin older}

PromotePick(s, u) ==
    /\ sweep[s].pc = "promote"
    /\ u \in sweep[s].todo
    /\ \/ /\ OldestQueued(u) = {}
          /\ sweep' = [sweep EXCEPT ![s].todo = @ \ {u}]
       \/ \E id \in OldestQueued(u) :
             sweep' = [sweep EXCEPT ![s].todo = @ \ {u},
                                    ![s].pc = "write", ![s].next = id]
    /\ UNCHANGED <<subs, older, tx, request, notices, crashes>>

\* (mutant: the promoting update without its condition on the status)
AnyStatus(id) == TRUE

\* The WHERE clause of the promoting update.
StillQueued(id) == subs[id].status = "queued"

Promote(s) == LET id == sweep[s].next IN
    /\ sweep[s].pc = "write"
    /\ StillQueued(id)
    /\ IndexAdmits(UserOf(id))
    /\ SetActive(id)
    /\ sweep' = [sweep EXCEPT ![s].pc = "promote", ![s].next = NoRow,
                              ![s].started = @ \cup {id}]
    /\ UNCHANGED <<older, tx, request, notices, crashes>>

\* (mutant: the row that was picked is reported although no row was updated)
PromoteFailsSilently(s) == LET id == sweep[s].next IN
    /\ sweep[s].pc = "write"
    /\ ~(StillQueued(id) /\ IndexAdmits(UserOf(id)))
    /\ sweep' = [sweep EXCEPT ![s].pc = "promote", ![s].next = NoRow,
                             ![s].started = @ \cup {id}]
    /\ UNCHANGED <<subs, older, tx, request, notices, crashes>>

\* Zero rows updated, or 23505 caught so that the loop goes on.
PromoteFails(s) == LET id == sweep[s].next IN
    /\ sweep[s].pc = "write"
    /\ ~(StillQueued(id) /\ IndexAdmits(UserOf(id)))
    /\ sweep' = [sweep EXCEPT ![s].pc = "promote", ![s].next = NoRow]
    /\ UNCHANGED <<subs, older, tx, request, notices, crashes>>

\* buildMaintenanceNotifications: an end and a start of the same user in one
\* run are one rollover.
RolledOver(ended, started) ==
    {[type |-> "subscription_rolled_over", row |-> q[1], previous |-> q[2]] :
        q \in {r \in started \X ended : UserOf(r[1]) = UserOf(r[2])}}
\* (mutant: a run that promoted nobody returns before it builds its notices)
EndedIfAnyStarted(ended, started) ==
    {[type |-> "subscription_expired", row |-> q, previous |-> NoRow] :
        q \in {e \in ended : started # {} /\ \A s \in started : UserOf(s) # UserOf(e)}}
EndedAlone(ended, started) ==
    {[type |-> "subscription_expired", row |-> q, previous |-> NoRow] :
        q \in {e \in ended : \A s \in started : UserOf(s) # UserOf(e)}}
StartedAlone(ended, started) ==
    {[type |-> "subscription_started", row |-> q, previous |-> NoRow] :
        q \in {s \in started : \A e \in ended : UserOf(s) # UserOf(e)}}
MaintenanceNotices(ended, started) ==
    RolledOver(ended, started) \cup EndedAlone(ended, started)
        \cup StartedAlone(ended, started)

SweepBuild(s) ==
    /\ sweep[s].pc = "promote"
    /\ sweep[s].todo = {}
    /\ sweep' = [sweep EXCEPT ![s] =
         [IdleSweep EXCEPT !.pc = "notify",
            !.unsent = MaintenanceNotices(sweep[s].ended, sweep[s].started)]]
    /\ UNCHANGED <<subs, older, tx, request, notices, crashes>>

\* One insert per notice; the starts come after everything that ended.
SweepNotify(s) ==
    /\ sweep[s].pc = "notify"
    /\ \E n \in sweep[s].unsent :
         /\ n.type = "subscription_started" =>
              \A m \in sweep[s].unsent : m.type = "subscription_started"
         /\ notices' = notices \cup {n}
         /\ sweep' = [sweep EXCEPT ![s].unsent = @ \ {n}]
    /\ UNCHANGED <<subs, older, tx, request, crashes>>

SweepDone(s) ==
    /\ sweep[s].pc = "notify"
    /\ sweep[s].unsent = {}
    /\ sweep' = [sweep EXCEPT ![s] = IdleSweep]
    /\ UNCHANGED <<subs, older, tx, request, notices, crashes>>

-----------------------------------------------------------------------------
\* The clock, and handlers that die.

Lapse(id) ==
    /\ subs[id].status = "active"
    /\ ~subs[id].lapsed
    /\ subs' = [subs EXCEPT ![id].lapsed = TRUE]
    /\ UNCHANGED <<older, tx, request, sweep, notices, crashes>>

\* A lost connection, a failing statement or the death of the process: a
\* transaction rolls back, a request or a sweep stays half done.
Dies == crashes < MaxCrashes /\ crashes' = crashes + 1

TxDies(c) ==
    /\ Dies
    /\ tx[c].pc # "idle"
    /\ EndTx(c)
    /\ UNCHANGED <<subs, older, request, sweep, notices>>

RequestDies(a) ==
    /\ Dies
    /\ request[a].pc # "idle"
    /\ EndRequest(a)
    /\ UNCHANGED <<subs, older, tx, sweep, notices>>

SweepDies(s) ==
    /\ Dies
    /\ sweep[s].pc # "idle"
    /\ sweep' = [sweep EXCEPT ![s] = IdleSweep]
    /\ UNCHANGED <<subs, older, tx, request, notices>>

Crash ==
    \/ \E c \in Confirmers : TxDies(c)
    \/ \E a \in Activators : RequestDies(a)
    \/ \E s \in Sweepers : SweepDies(s)

-----------------------------------------------------------------------------
Init ==
    /\ subs = [id \in {} |-> [status |-> "ready", lapsed |-> FALSE]]
    /\ older = {}
    /\ tx = [c \in Confirmers |-> IdleTx]
    /\ request = [a \in Activators |-> IdleRequest]
    /\ sweep = [s \in Sweepers |-> IdleSweep]
    /\ notices = {}
    /\ crashes = 0

MintStep(c) ==
    \/ \E p \in Payments : MintBegin(c, p)
    \/ MintSkip(c) \/ MintCredits(c) \/ MintCheck(c)
    \/ MintReadActive(c) \/ MintReadQueued(c)
    \/ MintBehind(c) \/ MintStart(c) \/ MintConflict(c)

ActivateStep(a) ==
    \/ \E id \in DOMAIN subs : ActivateRead(a, id)
    \/ ActivateCheck(a) \/ ActivateSpend(a)
    \/ ActivateUsed(a) \/ ActivateConflict(a)

SweepStep(s) ==
    \/ SweepExpire(s) \/ SweepWaiting(s)
    \/ \E u \in Users : PromotePick(s, u)
    \/ Promote(s) \/ PromoteFails(s)
    \/ SweepBuild(s) \/ SweepNotify(s) \/ SweepDone(s)

Next ==
    \/ \E c \in Confirmers : MintStep(c)
    \/ \E a \in Activators : ActivateStep(a)
    \/ \E s \in Sweepers : SweepStep(s)
    \/ \E id \in DOMAIN subs : Lapse(id)
    \/ Crash

Spec == Init /\ [][Next]_vars

-----------------------------------------------------------------------------
\* Properties.

TxState == [pc : {"idle", "check", "active", "queued", "insert"},
            payment : Payments \cup {NoPayment}, behind : BOOLEAN]
RequestState == [pc : {"idle", "check", "spend"}, credit : RowId \cup {NoRow}]
Notice == [type : {"subscription_rolled_over", "subscription_expired",
                   "subscription_started"},
           row : RowId, previous : RowId \cup {NoRow}]
SweepState == [pc : {"idle", "waiting", "promote", "write", "notify"},
               todo : SUBSET Users, next : RowId \cup {NoRow},
               ended : SUBSET RowId, started : SUBSET RowId,
               unsent : SUBSET Notice]

\* Every table and every handler's local state has its shape.
TypeOK ==
    /\ DOMAIN subs \subseteq RowId
    /\ subs \in [DOMAIN subs -> Row]
    /\ older \subseteq Payments \X Payments
    /\ tx \in [Confirmers -> TxState]
    /\ request \in [Activators -> RequestState]
    /\ sweep \in [Sweepers -> SweepState]
    /\ notices \subseteq Notice
    /\ crashes \in 0 .. MaxCrashes

\* However confirmations, activations and sweeps interleave, a user never has
\* two active rows: every write that activates one meets the unique index.
OneActivePerUser ==
    \A u \in Users : \A a, b \in Holding(u, "active") : a = b

Purchase(p) == {p} \X (1 .. Quantity[p])

\* A payment that is confirmed again (a retried webhook, a second admin) grants
\* nothing more: it has no rows, or exactly the quantity it paid for.
MintedOnce ==
    \A p \in Payments : RowsOf(p) \in {{}, Purchase(p)}

\* No step takes back or repeats a period: rows stay, ready and queued rows can
\* only become active, and only a lapsed active row becomes expired.
MovesForward(id) ==
    \/ subs'[id].status = subs[id].status
    \/ subs[id].status \in {"ready", "queued"} /\ subs'[id].status = "active"
    \/ /\ subs[id].status = "active" /\ subs[id].lapsed
       /\ subs'[id].status = "expired"
PeriodsMoveForward ==
    [][\A id \in DOMAIN subs : id \in DOMAIN subs' /\ MovesForward(id)]_vars

EndedBy(n) ==
    CASE n.type = "subscription_expired" -> {n.row}
      [] n.type = "subscription_rolled_over" -> {n.previous}
      [] OTHER -> {}
StartedBy(n) == IF n.type = "subscription_expired" THEN {} ELSE {n.row}
SaysWhatIs ==
    \A n \in notices :
        /\ \A id \in EndedBy(n) : id \in DOMAIN subs /\ subs[id].status = "expired"
        /\ \A id \in StartedBy(n) :
              id \in DOMAIN subs /\ subs[id].status \in {"active", "expired"}
        /\ \A a, b \in EndedBy(n) \cup StartedBy(n) : UserOf(a) = UserOf(b)

AnnouncedOnce ==
    \A m, n \in notices :
        (EndedBy(m) \cap EndedBy(n)) \cup (StartedBy(m) \cap StartedBy(n)) # {}
            => m = n

\* What a maintenance notice tells the user is so: what it says ended has
\* ended, what it says started has been started, and both are one user's; and
\* even when two sweeps overlap, the end of a period and its start are each
\* announced by one notice at most.
NoticesTrue == SaysWhatIs /\ AnnouncedOnce

\* The tables implement the promise of Entitlements.
PeriodState(id) ==
    IF id \notin DOMAIN subs THEN "none"
    ELSE CASE subs[id].status \in {"ready", "queued"} -> "held"
           [] subs[id].status = "active" -> IF subs[id].lapsed THEN "due" ELSE "running"
           [] OTHER -> "over"
BoughtPeriods == UNION {Purchase(p) : p \in Payments}
Promise == INSTANCE Entitlements WITH
             period <- [id \in BoughtPeriods |-> PeriodState(id)]
KeepsPromise == Promise!Spec

Status(id) == IF id \in DOMAIN subs THEN subs[id].status ELSE "none"

\* Unless a run dies half-way, the user is told of every period that ended.
EveryEndAnnounced ==
    \A p \in Payments : \A n \in 1 .. Quantity[p] :
        Status(<<p, n>>) = "expired"
            ~> crashes > 0 \/ \E m \in notices : <<p, n>> \in EndedBy(m)
=============================================================================
