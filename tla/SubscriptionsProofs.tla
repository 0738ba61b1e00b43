------------------------ MODULE SubscriptionsProofs ------------------------
(***************************************************************************)
(* For every set of users, payments and concurrent handlers: the types of  *)
(* Subscriptions, one active row per user, a payment minted at most once,  *)
(* periods that only move forward, notices of maintenance that are true,   *)
(* and that the tables implement Entitlements.                             *)
(***************************************************************************)
EXTENDS Subscriptions, FiniteSetTheorems, TLAPS

\* A transaction names a payment nobody else's names, and past the
\* already-minted check that payment has no rows: the lock on the payments row
\* keeps the check from going stale.
TxInv ==
    /\ \A c \in Confirmers : tx[c].pc # "idle" => tx[c].payment \in Payments
    /\ \A c, d \in Confirmers :
          tx[c].pc # "idle" /\ tx[d].pc # "idle" /\ tx[c].payment = tx[d].payment
             => c = d
    /\ \A c \in Confirmers :
          tx[c].pc \in {"active", "queued", "insert"} => RowsOf(tx[c].payment) = {}

\* The ids handlers carry across their awaits name rows that exist.
CarriedIds ==
    /\ \A a \in Activators : request[a].pc # "idle" => request[a].credit \in DOMAIN subs
    /\ \A s \in Sweepers : sweep[s].pc = "write" => sweep[s].next \in DOMAIN subs
    /\ \A s \in Sweepers :
          sweep[s].ended \subseteq DOMAIN subs /\ sweep[s].started \subseteq DOMAIN subs

\* The inductive invariant.
IInv == TypeOK /\ TxInv /\ CarriedIds /\ OneActivePerUser /\ MintedOnce

-----------------------------------------------------------------------------
\* A mint for a payment without rows adds exactly Purchase(p), numbered from 1,
\* and leaves every other row alone.
LEMMA InsertFacts ==
    ASSUME TypeOK, NEW p \in Payments, RowsOf(p) = {},
           NEW first \in {"ready", "active", "queued", "expired"},
           NEW rest \in {"ready", "active", "queued", "expired"},
           Insert(p, first, rest)
    PROVE  /\ DOMAIN subs' = DOMAIN subs \cup Purchase(p)
           /\ DOMAIN subs \cap Purchase(p) = {}
           /\ \A id \in DOMAIN subs : subs'[id] = subs[id]
           /\ \A id \in Purchase(p) :
                 /\ id = <<p, 1>> => subs'[id].status = first
                 /\ id # <<p, 1>> => subs'[id].status = rest
           /\ DOMAIN subs' \subseteq RowId
           /\ subs' \in [DOMAIN subs' -> Row]
<1>1. Cardinality(RowsOf(p)) = 0
  BY FS_EmptySet
<1>2. Quantity[p] \in Nat \ {0}
  BY PurchaseAssumption
<1>3. FirstId(p) = <<p, 1>>
  BY <1>1 DEF FirstId
<1>4. NewIds(p) = Purchase(p)
  BY <1>1, <1>2 DEF NewIds, Purchase
<1>5. DOMAIN subs \cap Purchase(p) = {}
  BY DEF Purchase, RowsOf
<1>6. DOMAIN subs' = DOMAIN subs \cup Purchase(p)
  BY <1>4 DEF Insert
<1>7. \A id \in DOMAIN subs : subs'[id] = subs[id]
  BY <1>4, <1>5 DEF Insert
<1>8. ASSUME NEW id \in Purchase(p)
      PROVE  /\ id = <<p, 1>> => subs'[id] = [status |-> first, lapsed |-> FALSE]
             /\ id # <<p, 1>> => subs'[id] = [status |-> rest, lapsed |-> FALSE]
  <2>1. subs'[id] = [status |-> IF id = FirstId(p) THEN first ELSE rest, lapsed |-> FALSE]
    BY <1>4 DEF Insert
  <2>. QED
    BY <2>1, <1>3
<1>9. Purchase(p) \subseteq RowId
  BY <1>2 DEF Purchase, RowId
<1>10. DOMAIN subs' \subseteq RowId
  BY <1>6, <1>9 DEF TypeOK
<1>11. subs' = [id \in DOMAIN subs' |-> subs'[id]]
  BY <1>6, <1>4 DEF Insert
<1>12. ASSUME NEW id \in DOMAIN subs'
       PROVE  subs'[id] \in Row
  <2>1. CASE id \in DOMAIN subs
    BY <2>1, <1>7 DEF TypeOK
  <2>2. CASE id \in Purchase(p)
    <3>1. \A st \in {first, rest} : [status |-> st, lapsed |-> FALSE] \in Row
      BY DEF Row
    <3>2. subs'[id] \in {[status |-> st, lapsed |-> FALSE] : st \in {first, rest}}
      BY <2>2, <1>8
    <3>. QED
      BY <3>1, <3>2
  <2>. QED
    BY <2>1, <2>2, <1>6
<1>13. subs' \in [DOMAIN subs' -> Row]
  BY <1>11, <1>12
<1>. QED
  BY <1>5, <1>6, <1>7, <1>8, <1>10, <1>13

\* A mint for a payment without rows keeps MintedOnce, and gives rows to no
\* other payment.
LEMMA InsertMintedOnce ==
    ASSUME TypeOK, MintedOnce, NEW p \in Payments, RowsOf(p) = {},
           NEW first \in {"ready", "active", "queued", "expired"},
           NEW rest \in {"ready", "active", "queued", "expired"},
           Insert(p, first, rest)
    PROVE  /\ MintedOnce'
           /\ \A q \in Payments \ {p} : RowsOf(q)' = RowsOf(q)
<1>1. DOMAIN subs' = DOMAIN subs \cup Purchase(p)
  BY InsertFacts
<1>2. \A q \in Payments \ {p} : RowsOf(q)' = RowsOf(q)
  BY <1>1 DEF RowsOf, Purchase
<1>3. RowsOf(p)' = Purchase(p)
  BY <1>1 DEF RowsOf, Purchase
<1>. QED
  BY <1>2, <1>3 DEF MintedOnce

\* A write that neither adds nor removes rows keeps what depends on ids alone.
LEMMA SameRows ==
    ASSUME DOMAIN subs' = DOMAIN subs
    PROVE  /\ MintedOnce => MintedOnce'
           /\ \A p \in Payments : RowsOf(p)' = RowsOf(p)
  BY DEF MintedOnce, RowsOf

\* Activating a row of a user without an active row, and nothing else.
LEMMA SetActiveFacts ==
    ASSUME TypeOK, OneActivePerUser, NEW id \in DOMAIN subs,
           IndexAdmits(UserOf(id)), SetActive(id)
    PROVE  /\ DOMAIN subs' = DOMAIN subs
           /\ subs' \in [DOMAIN subs -> Row]
           /\ OneActivePerUser'
<1>1. /\ DOMAIN subs' = DOMAIN subs
      /\ subs'[id] = [status |-> "active", lapsed |-> FALSE]
      /\ \A other \in DOMAIN subs : other # id => subs'[other] = subs[other]
  BY DEF SetActive, TypeOK
<1>2. subs' \in [DOMAIN subs -> Row]
  BY DEF SetActive, TypeOK, Row
<1>3. ASSUME NEW u \in Users, NEW a \in Holding(u, "active")',
             NEW b \in Holding(u, "active")'
      PROVE  a = b
  BY <1>1, <1>3 DEF OneActivePerUser, Holding, IndexAdmits, UserOf
<1>. QED
  BY <1>1, <1>2, <1>3 DEF OneActivePerUser

-----------------------------------------------------------------------------
\* The parts of the invariant that speak of one handler and the ids it carries
\* survive any step that leaves the handlers alone and removes no row.
LEMMA CarriedIdsKept ==
    ASSUME CarriedIds, UNCHANGED <<request, sweep>>, DOMAIN subs \subseteq DOMAIN subs'
    PROVE  CarriedIds'
  BY DEF CarriedIds

\* A confirmation transaction that takes a local step, keeping its payment.
LEMMA TxAdvances ==
    ASSUME TypeOK, TxInv, NEW c \in Confirmers, tx[c].pc # "idle",
           RowsOf(tx[c].payment) = {}, UNCHANGED subs,
           NEW step \in {"active", "queued", "insert"}, NEW behind \in BOOLEAN,
           AdvanceTx(c, step, behind)
    PROVE  TxInv' /\ tx' \in [Confirmers -> TxState]
<1>1. tx' \in [Confirmers -> TxState]
  BY DEF TypeOK, TxInv, TxState, AdvanceTx
<1>2. /\ tx'[c].pc = step /\ tx'[c].payment = tx[c].payment
      /\ \A d \in Confirmers \ {c} : tx'[d] = tx[d]
  BY DEF TypeOK, TxState, AdvanceTx
<1>3. \A p : RowsOf(p)' = RowsOf(p)
  BY DEF RowsOf
<1>. QED
  BY <1>1, <1>2, <1>3 DEF TxInv

\* A transaction that ends, having given rows to its own payment only.
LEMMA TxEnds ==
    ASSUME TypeOK, TxInv, NEW c \in Confirmers, tx[c].pc # "idle", EndTx(c),
           \A q \in Payments \ {tx[c].payment} : RowsOf(q)' = RowsOf(q)
    PROVE  TxInv' /\ tx' \in [Confirmers -> TxState]
<1>1. tx' \in [Confirmers -> TxState]
  BY DEF TypeOK, EndTx, IdleTx, TxState
<1>2. /\ tx'[c].pc = "idle"
      /\ \A d \in Confirmers \ {c} : tx'[d] = tx[d]
  BY DEF TypeOK, EndTx, IdleTx, TxState
<1>3. ASSUME NEW d \in Confirmers, tx'[d].pc \in {"active", "queued", "insert"}
      PROVE  RowsOf(tx[d].payment)' = {}
  <2>1. d # c /\ tx'[d] = tx[d]
    BY <1>2, <1>3
  <2>2. tx[d].payment # tx[c].payment /\ tx[d].payment \in Payments
    BY <2>1, <1>3 DEF TxInv
  <2>3. RowsOf(tx[d].payment) = {}
    BY <2>1, <1>3 DEF TxInv
  <2>4. RowsOf(tx[d].payment)' = RowsOf(tx[d].payment)
    BY <2>1, <2>2 DEF RowsOf
  <2>. QED
    BY <2>3, <2>4
<1>. QED
  BY <1>1, <1>2, <1>3 DEF TxInv

\* TxInv depends on the transactions and on which rows exist.
LEMMA TxInvKept ==
    ASSUME TxInv, UNCHANGED tx, DOMAIN subs' = DOMAIN subs
    PROVE  TxInv'
  BY DEF TxInv, RowsOf

-----------------------------------------------------------------------------
LEMMA InitIInv == Init => IInv
<1>. SUFFICES ASSUME Init PROVE IInv
  OBVIOUS
<1>1. DOMAIN subs = {}
  BY DEF Init
<1>2. TypeOK
  <2>1. subs \in [DOMAIN subs -> Row] /\ DOMAIN subs \subseteq RowId
    BY <1>1 DEF Init
  <2>2. crashes \in 0 .. MaxCrashes
    BY CrashAssumption DEF Init
  <2>. QED
    BY <2>1, <2>2 DEF Init, TypeOK, IdleTx, TxState, IdleRequest, RequestState,
                      IdleSweep, SweepState
<1>3. TxInv
  BY DEF Init, TxInv, IdleTx
<1>4. CarriedIds
  BY DEF Init, CarriedIds, IdleRequest, IdleSweep
<1>5. OneActivePerUser /\ MintedOnce
  BY <1>1 DEF OneActivePerUser, Holding, MintedOnce, RowsOf
<1>. QED
  BY <1>2, <1>3, <1>4, <1>5 DEF IInv

\* The committing insert of a confirmation: the three branches of the mint.
LEMMA MintInsertIInv ==
    ASSUME IInv, NEW c \in Confirmers, NEW p \in Payments, p = tx[c].payment,
           tx[c].pc # "idle", RowsOf(p) = {},
           NEW first \in {"ready", "active", "queued"}, NEW rest \in {"ready", "queued"},
           first = "active" => IndexAdmits(Owner[p]),
           Insert(p, first, rest), EndTx(c),
           UNCHANGED <<older, request, sweep, notices, crashes>>
    PROVE  IInv'
<1>1. /\ TypeOK /\ TxInv /\ MintedOnce /\ CarriedIds
      /\ first \in {"ready", "active", "queued", "expired"}
      /\ rest \in {"ready", "active", "queued", "expired"}
  BY DEF IInv
<1>2. /\ DOMAIN subs' = DOMAIN subs \cup Purchase(p)
      /\ \A id \in DOMAIN subs : subs'[id] = subs[id]
      /\ \A id \in Purchase(p) :
            /\ id = <<p, 1>> => subs'[id].status = first
            /\ id # <<p, 1>> => subs'[id].status = rest
      /\ DOMAIN subs' \subseteq RowId
      /\ subs' \in [DOMAIN subs' -> Row]
  BY <1>1, InsertFacts
<1>3. MintedOnce' /\ \A q \in Payments \ {p} : RowsOf(q)' = RowsOf(q)
  BY <1>1, InsertMintedOnce
<1>4. TxInv' /\ tx' \in [Confirmers -> TxState]
  BY <1>1, <1>3, TxEnds
<1>5. TypeOK'
  BY <1>1, <1>2, <1>4 DEF TypeOK
<1>6. CarriedIds'
  BY <1>1, <1>2, CarriedIdsKept
<1>7. OneActivePerUser'
  <2>. SUFFICES ASSUME NEW u \in Users, NEW a \in Holding(u, "active")',
                       NEW b \in Holding(u, "active")'
                PROVE  a = b
    BY DEF OneActivePerUser
  <2>1. ASSUME NEW id \in Holding(u, "active")'
        PROVE  \/ id \in Holding(u, "active")
               \/ id = <<p, 1>> /\ first = "active" /\ u = Owner[p]
    <3>1. CASE id \in DOMAIN subs
      BY <3>1, <1>2, <2>1 DEF Holding, UserOf
    <3>2. CASE id \in Purchase(p)
      <4>1. id = <<p, 1>> /\ first = "active"
        BY <3>2, <1>2, <2>1 DEF Holding
      <4>. QED
        BY <4>1, <2>1 DEF Holding, UserOf
    <3>. QED
      BY <3>1, <3>2, <1>2, <2>1 DEF Holding
  <2>. QED
    BY <2>1 DEF OneActivePerUser, IndexAdmits, IInv
<1>. QED
  BY <1>3, <1>4, <1>5, <1>6, <1>7 DEF IInv

LEMMA MintStepIInv ==
    ASSUME IInv, NEW c \in Confirmers, MintStep(c)
    PROVE  IInv'
<1>. USE DEF IInv
<1>. DEFINE p == tx[c].payment
<1>1. ASSUME NEW q \in Payments, MintBegin(c, q) PROVE IInv'
  <2>1. tx' \in [Confirmers -> TxState] /\ older' \subseteq Payments \X Payments
    BY <1>1 DEF MintBegin, TypeOK, TxState
  <2>2. TypeOK'
    BY <2>1, <1>1 DEF MintBegin, TypeOK
  <2>3. /\ tx'[c].pc = "check" /\ tx'[c].payment = q
        /\ \A d \in Confirmers \ {c} : tx'[d] = tx[d] /\ tx[d].payment # q
    BY <1>1 DEF MintBegin, TypeOK, TxState, Locked
  <2>4. \A r : RowsOf(r)' = RowsOf(r)
    BY <1>1 DEF MintBegin, RowsOf
  <2>5. TxInv'
    BY <2>3, <2>4 DEF TxInv
  <2>. QED
    BY <2>2, <2>5, <1>1 DEF MintBegin, CarriedIds, OneActivePerUser, Holding, MintedOnce, RowsOf
<1>2. ASSUME MintSkip(c) \/ MintConflict(c) PROVE IInv'
  <2>1. /\ tx[c].pc # "idle" /\ EndTx(c)
        /\ UNCHANGED <<subs, older, request, sweep, notices, crashes>>
    BY <1>2 DEF MintSkip, MintConflict
  <2>2. TxInv' /\ tx' \in [Confirmers -> TxState]
    BY <2>1, TxEnds, SameRows
  <2>. QED
    BY <2>1, <2>2 DEF TypeOK, CarriedIds, OneActivePerUser, Holding, MintedOnce, RowsOf
<1>3. ASSUME NEW step \in {"active", "queued", "insert"}, NEW behind \in BOOLEAN,
             tx[c].pc # "idle", RowsOf(tx[c].payment) = {},
             AdvanceTx(c, step, behind),
             UNCHANGED <<subs, older, request, sweep, notices, crashes>>
      PROVE  IInv'
  <2>1. TxInv' /\ tx' \in [Confirmers -> TxState]
    BY <1>3, TxAdvances
  <2>. QED
    BY <1>3, <2>1 DEF TypeOK, CarriedIds, OneActivePerUser, Holding, MintedOnce, RowsOf
<1>4. CASE MintCheck(c)
  BY <1>3, <1>4 DEF MintCheck, AlreadyMinted
<1>5. CASE MintReadActive(c)
  <2>. DEFINE running == Holding(Owner[p], "active") # {}
  <2>1. AdvanceTx(c, "queued", running) /\ running \in BOOLEAN
    BY <1>5 DEF MintReadActive
  <2>. HIDE DEF running
  <2>. QED
    BY <1>3, <1>5, <2>1 DEF MintReadActive, TxInv
<1>6. CASE MintReadQueued(c)
  <2>. DEFINE waiting == tx[c].behind \/ Holding(Owner[p], "queued") # {}
  <2>1. AdvanceTx(c, "insert", waiting) /\ waiting \in BOOLEAN
    BY <1>6 DEF MintReadQueued
  <2>. HIDE DEF waiting
  <2>. QED
    BY <1>3, <1>6, <2>1 DEF MintReadQueued, TxInv
<1>7. PICK q \in Payments \cup {NoPayment} : q = p
  BY DEF TypeOK, TxState
<1>8. \A first, rest : Insert(p, first, rest) => Insert(q, first, rest)
  BY <1>7 DEF Insert, NewIds, FirstId, RowsOf
<1>9. RowsOf(p) = RowsOf(q) /\ (tx[c].pc # "idle" => q \in Payments)
  BY <1>7 DEF RowsOf, TxInv
<1>10. CASE MintCredits(c)
  BY <1>7, <1>8, <1>9, <1>10, MintInsertIInv DEF MintCredits, AlreadyMinted
<1>11. CASE MintBehind(c)
  BY <1>7, <1>8, <1>9, <1>11, MintInsertIInv DEF MintBehind, TxInv
<1>12. CASE MintStart(c)
  BY <1>7, <1>8, <1>9, <1>12, MintInsertIInv DEF MintStart, TxInv
<1>. QED
  BY <1>1, <1>2, <1>4, <1>5, <1>6, <1>10, <1>11, <1>12 DEF MintStep

-----------------------------------------------------------------------------
LEMMA ActivateStepIInv ==
    ASSUME IInv, NEW a \in Activators, ActivateStep(a)
    PROVE  IInv'
<1>. USE DEF IInv
<1>1. ASSUME request' \in [Activators -> RequestState],
             \A b \in Activators : request'[b].pc # "idle" => request'[b].credit \in DOMAIN subs,
             UNCHANGED <<subs, older, tx, sweep, notices, crashes>>
      PROVE  IInv'
  BY <1>1 DEF TypeOK, TxInv, RowsOf, CarriedIds, OneActivePerUser, Holding, MintedOnce
<1>2. ASSUME EndRequest(a)
      PROVE  /\ request' \in [Activators -> RequestState]
             /\ \A b \in Activators :
                   request'[b].pc # "idle" => request'[b].credit \in DOMAIN subs
  BY <1>2 DEF EndRequest, IdleRequest, TypeOK, RequestState, CarriedIds
<1>3. ASSUME NEW id \in DOMAIN subs, ActivateRead(a, id) PROVE IInv'
  BY <1>1, <1>3 DEF ActivateRead, TypeOK, RequestState, CarriedIds
<1>4. CASE ActivateCheck(a)
  <2>1. CASE EndRequest(a)
    BY <1>1, <1>2, <1>4, <2>1 DEF ActivateCheck
  <2>2. CASE request' = [request EXCEPT ![a].pc = "spend"]
    <3>1. request[a] \in RequestState /\ request[a].credit \in DOMAIN subs
      BY <1>4 DEF ActivateCheck, TypeOK, CarriedIds
    <3>2. /\ request' \in [Activators -> RequestState]
          /\ request'[a].credit = request[a].credit
          /\ \A b \in Activators \ {a} : request'[b] = request[b]
      BY <2>2, <3>1 DEF TypeOK, RequestState
    <3>. QED
      BY <1>1, <1>4, <3>1, <3>2 DEF ActivateCheck, CarriedIds
  <2>. QED
    BY <1>4, <2>1, <2>2 DEF ActivateCheck
<1>5. CASE ActivateSpend(a)
  <2>1. PICK id \in DOMAIN subs : id = request[a].credit
    BY <1>5 DEF ActivateSpend, CarriedIds
  <2>2. IndexAdmits(UserOf(id)) /\ SetActive(id)
    BY <2>1, <1>5 DEF ActivateSpend, SetActive, IndexAdmits, Holding, UserOf
  <2>3. /\ DOMAIN subs' = DOMAIN subs
        /\ subs' \in [DOMAIN subs -> Row]
        /\ OneActivePerUser'
    BY <2>2, SetActiveFacts
  <2>4. /\ request' \in [Activators -> RequestState]
        /\ \A b \in Activators :
              request'[b].pc # "idle" => request'[b].credit \in DOMAIN subs
        /\ UNCHANGED <<older, tx, sweep, notices, crashes>>
    BY <1>2, <1>5 DEF ActivateSpend
  <2>5. TypeOK' /\ CarriedIds'
    BY <2>3, <2>4 DEF TypeOK, CarriedIds
  <2>6. TxInv' /\ MintedOnce'
    BY <2>3, <2>4, TxInvKept, SameRows
  <2>. QED
    BY <2>3, <2>5, <2>6
<1>6. CASE ActivateUsed(a) \/ ActivateConflict(a)
  BY <1>1, <1>2, <1>6 DEF ActivateUsed, ActivateConflict
<1>. QED
  BY <1>3, <1>4, <1>5, <1>6 DEF ActivateStep

-----------------------------------------------------------------------------
\* A sweep whose new local state is typed and names existing rows.
SweepFits(s) ==
    /\ sweep' \in [Sweepers -> SweepState]
    /\ \A t \in Sweepers \ {s} : sweep'[t] = sweep[t]
    /\ sweep'[s].pc = "write" => sweep'[s].next \in DOMAIN subs
    /\ sweep'[s].ended \subseteq DOMAIN subs
    /\ sweep'[s].started \subseteq DOMAIN subs

LEMMA SweepFitsIInv ==
    ASSUME IInv, NEW s \in Sweepers, SweepFits(s),
           notices' \subseteq Notice, DOMAIN subs' = DOMAIN subs,
           subs' \in [DOMAIN subs -> Row], OneActivePerUser',
           UNCHANGED <<older, tx, request, crashes>>
    PROVE  IInv'
<1>1. TypeOK'
  BY DEF IInv, TypeOK, SweepFits
<1>2. CarriedIds'
  BY DEF IInv, CarriedIds, SweepFits
<1>3. TxInv' /\ MintedOnce'
  BY TxInvKept, SameRows DEF IInv
<1>. QED
  BY <1>1, <1>2, <1>3 DEF IInv

\* Ending rows activates none.
LEMMA ExpireFacts ==
    ASSUME TypeOK, OneActivePerUser, NEW s, SweepExpire(s)
    PROVE  /\ DOMAIN subs' = DOMAIN subs
           /\ subs' \in [DOMAIN subs -> Row]
           /\ OneActivePerUser'
<1>1. DOMAIN subs' = DOMAIN subs
  BY DEF SweepExpire
<1>2. ASSUME NEW id \in DOMAIN subs
      PROVE  subs'[id] \in Row /\ (subs'[id].status = "active" => subs[id].status = "active")
  <2>1. subs[id] \in Row
    BY DEF TypeOK
  <2>2. [subs[id] EXCEPT !.status = "expired"] = [status |-> "expired", lapsed |-> subs[id].lapsed]
    BY <2>1 DEF Row
  <2>3. CASE id \in Lapsed
    BY <2>1, <2>2, <2>3 DEF SweepExpire, Row
  <2>4. CASE id \notin Lapsed
    BY <2>1, <2>4 DEF SweepExpire
  <2>. QED
    BY <2>3, <2>4
<1>3. subs' \in [DOMAIN subs -> Row]
  BY <1>2 DEF SweepExpire
<1>4. \A u \in Users : Holding(u, "active")' \subseteq Holding(u, "active")
  BY <1>1, <1>2 DEF Holding, UserOf
<1>. QED
  BY <1>1, <1>3, <1>4 DEF OneActivePerUser

LEMMA NoticesTyped ==
    ASSUME NEW ended \in SUBSET RowId, NEW started \in SUBSET RowId
    PROVE  MaintenanceNotices(ended, started) \subseteq Notice
<1>1. RolledOver(ended, started) \subseteq Notice
  BY DEF RolledOver, Notice
<1>2. EndedAlone(ended, started) \subseteq Notice
  BY DEF EndedAlone, Notice
<1>3. StartedAlone(ended, started) \subseteq Notice
  BY DEF StartedAlone, Notice
<1>. QED
  BY <1>1, <1>2, <1>3 DEF MaintenanceNotices

LEMMA SweepStepIInv ==
    ASSUME IInv, NEW s \in Sweepers, SweepStep(s)
    PROVE  IInv'
<1>1. /\ TypeOK /\ CarriedIds /\ OneActivePerUser
      /\ sweep \in [Sweepers -> SweepState] /\ sweep[s] \in SweepState
      /\ subs \in [DOMAIN subs -> Row] /\ DOMAIN subs \subseteq RowId
      /\ notices \subseteq Notice
  BY DEF IInv, TypeOK
<1>2. ASSUME SweepFits(s), UNCHANGED <<subs, older, tx, request, crashes>>,
             notices' \subseteq Notice
      PROVE  IInv'
  <2>1. OneActivePerUser'
    BY <1>1, <1>2 DEF OneActivePerUser, Holding, UserOf
  <2>. QED
    BY <1>1, <1>2, <2>1, SweepFitsIInv
<1>3. CASE SweepExpire(s)
  <2>1. Lapsed \subseteq DOMAIN subs
    BY DEF Lapsed
  <2>2. sweep' = [sweep EXCEPT ![s] = [sweep[s] EXCEPT !.pc = "waiting", !.ended = Lapsed]]
    BY <1>3 DEF SweepExpire
  <2>3. SweepFits(s)
    BY <1>1, <2>1, <2>2 DEF SweepFits, SweepState, CarriedIds
  <2>. QED
    BY <1>1, <1>3, <2>3, ExpireFacts, SweepFitsIInv DEF SweepExpire
<1>4. CASE SweepWaiting(s)
  <2>1. Waiting \subseteq Users
    BY DEF Waiting
  <2>2. sweep' = [sweep EXCEPT ![s] = [sweep[s] EXCEPT !.pc = "promote", !.todo = Waiting]]
    BY <1>4 DEF SweepWaiting
  <2>3. SweepFits(s)
    BY <1>1, <2>1, <2>2 DEF SweepFits, SweepState, CarriedIds
  <2>. QED
    BY <1>1, <1>2, <1>4, <2>3 DEF SweepWaiting
<1>5. ASSUME NEW u \in Users, PromotePick(s, u) PROVE IInv'
  <2>1. CASE sweep' = [sweep EXCEPT ![s].todo = @ \ {u}]
    <3>1. sweep' = [sweep EXCEPT ![s] = [sweep[s] EXCEPT !.todo = sweep[s].todo \ {u}]]
      BY <2>1
    <3>2. SweepFits(s)
      BY <1>1, <1>5, <3>1 DEF SweepFits, SweepState, CarriedIds, PromotePick
    <3>. QED
      BY <1>1, <1>2, <1>5, <3>2 DEF PromotePick
  <2>2. ASSUME NEW id \in OldestQueued(u),
               sweep' = [sweep EXCEPT ![s].todo = @ \ {u},
                                      ![s].pc = "write", ![s].next = id]
        PROVE  IInv'
    <3>1. id \in DOMAIN subs /\ id \in RowId
      BY <1>1 DEF OldestQueued, Holding
    <3>2. sweep' = [sweep EXCEPT ![s] =
                      [sweep[s] EXCEPT !.todo = sweep[s].todo \ {u},
                                       !.pc = "write", !.next = id]]
      BY <2>2
    <3>3. SweepFits(s)
      BY <1>1, <3>1, <3>2 DEF SweepFits, SweepState, CarriedIds
    <3>. QED
      BY <1>1, <1>2, <1>5, <3>3 DEF PromotePick
  <2>. QED
    BY <1>5, <2>1, <2>2 DEF PromotePick
<1>6. CASE Promote(s)
  <2>1. PICK id \in DOMAIN subs : id = sweep[s].next
    BY <1>1, <1>6 DEF Promote, CarriedIds
  <2>2. IndexAdmits(UserOf(id)) /\ SetActive(id)
    BY <2>1, <1>6 DEF Promote, SetActive, IndexAdmits, Holding, UserOf
  <2>3. /\ DOMAIN subs' = DOMAIN subs
        /\ subs' \in [DOMAIN subs -> Row]
        /\ OneActivePerUser'
    BY <1>1, <2>2, SetActiveFacts
  <2>4. sweep' = [sweep EXCEPT ![s] =
                    [sweep[s] EXCEPT !.pc = "promote", !.next = NoRow,
                                     !.started = sweep[s].started \cup {id}]]
    BY <1>6, <2>1 DEF Promote
  <2>5. SweepFits(s)
    BY <1>1, <2>4 DEF SweepFits, SweepState, CarriedIds
  <2>. QED
    BY <1>1, <1>6, <2>3, <2>5, SweepFitsIInv DEF Promote
<1>7. CASE PromoteFails(s)
  <2>1. sweep' = [sweep EXCEPT ![s] =
                    [sweep[s] EXCEPT !.pc = "promote", !.next = NoRow]]
    BY <1>7 DEF PromoteFails
  <2>2. SweepFits(s)
    BY <1>1, <2>1 DEF SweepFits, SweepState, CarriedIds
  <2>. QED
    BY <1>1, <1>2, <1>7, <2>2 DEF PromoteFails
<1>8. CASE SweepBuild(s)
  <2>. DEFINE built == MaintenanceNotices(sweep[s].ended, sweep[s].started)
  <2>1. built \subseteq Notice
    BY <1>1, NoticesTyped DEF SweepState
  <2>2. sweep' = [sweep EXCEPT ![s] = [IdleSweep EXCEPT !.pc = "notify", !.unsent = built]]
    BY <1>8 DEF SweepBuild
  <2>. HIDE DEF built
  <2>3. SweepFits(s)
    BY <1>1, <2>1, <2>2 DEF SweepFits, SweepState, IdleSweep
  <2>. QED
    BY <1>1, <1>2, <1>8, <2>3 DEF SweepBuild
<1>9. CASE SweepNotify(s)
  <2>1. PICK n \in sweep[s].unsent :
           /\ notices' = notices \cup {n}
           /\ sweep' = [sweep EXCEPT ![s].unsent = @ \ {n}]
    BY <1>9 DEF SweepNotify
  <2>2. n \in Notice
    BY <1>1 DEF SweepState
  <2>3. sweep' = [sweep EXCEPT ![s] = [sweep[s] EXCEPT !.unsent = sweep[s].unsent \ {n}]]
    BY <2>1
  <2>4. SweepFits(s)
    BY <1>1, <1>9, <2>3 DEF SweepFits, SweepState, CarriedIds, SweepNotify
  <2>. QED
    BY <1>1, <1>2, <1>9, <2>1, <2>2, <2>4 DEF SweepNotify
<1>10. CASE SweepDone(s)
  <2>1. SweepFits(s)
    BY <1>1, <1>10 DEF SweepFits, SweepState, SweepDone, IdleSweep
  <2>. QED
    BY <1>1, <1>2, <1>10, <2>1 DEF SweepDone
<1>. QED
  BY <1>3, <1>4, <1>5, <1>6, <1>7, <1>8, <1>9, <1>10 DEF SweepStep

LEMMA LapseIInv ==
    ASSUME IInv, NEW id \in DOMAIN subs, Lapse(id)
    PROVE  IInv'
<1>1. TypeOK /\ subs[id] \in Row /\ subs[id].status = "active"
  BY DEF IInv, TypeOK, Lapse
<1>2. subs' = [subs EXCEPT ![id] = [subs[id] EXCEPT !.lapsed = TRUE]]
  BY DEF Lapse
<1>3. /\ DOMAIN subs' = DOMAIN subs
      /\ subs' \in [DOMAIN subs -> Row]
      /\ \A row \in DOMAIN subs : subs'[row].status = subs[row].status
  <2>1. /\ [subs[id] EXCEPT !.lapsed = TRUE] \in Row
        /\ [subs[id] EXCEPT !.lapsed = TRUE].status = subs[id].status
    BY <1>1 DEF Row
  <2>2. subs \in [DOMAIN subs -> Row]
    BY <1>1 DEF TypeOK
  <2>. QED
    BY <1>2, <2>1, <2>2
<1>4. TypeOK' /\ CarriedIds'
  BY <1>3 DEF IInv, TypeOK, CarriedIds, Lapse
<1>5. OneActivePerUser'
  BY <1>3 DEF IInv, OneActivePerUser, Holding, UserOf
<1>6. TxInv' /\ MintedOnce'
  BY <1>3, TxInvKept, SameRows DEF IInv, Lapse
<1>. QED
  BY <1>4, <1>5, <1>6 DEF IInv

\* A crash takes one handler back to idle and writes nothing.
LEMMA CrashIInv ==
    ASSUME IInv, Crash
    PROVE  IInv'
<1>. USE DEF IInv
<1>1. crashes' \in 0 .. MaxCrashes
  BY CrashAssumption DEF Crash, TxDies, RequestDies, SweepDies, Dies, TypeOK
<1>2. UNCHANGED <<subs, older, notices>>
  BY DEF Crash, TxDies, RequestDies, SweepDies, Dies
<1>3. \A p : RowsOf(p)' = RowsOf(p)
  BY <1>2 DEF RowsOf
<1>4. OneActivePerUser' /\ MintedOnce'
  BY <1>2, <1>3 DEF OneActivePerUser, Holding, UserOf, MintedOnce
<1>5. ASSUME NEW c \in Confirmers, tx[c].pc # "idle", EndTx(c), UNCHANGED <<request, sweep>>
      PROVE  IInv'
  <2>1. TxInv' /\ tx' \in [Confirmers -> TxState]
    BY <1>3, <1>5, TxEnds
  <2>. QED
    BY <1>1, <1>2, <1>4, <1>5, <2>1 DEF TypeOK, CarriedIds
<1>6. ASSUME NEW a \in Activators, EndRequest(a), UNCHANGED <<tx, sweep>>
      PROVE  IInv'
  <2>1. request' \in [Activators -> RequestState]
    BY <1>6 DEF EndRequest, IdleRequest, TypeOK, RequestState
  <2>2. \A b \in Activators : request'[b].pc # "idle" => request'[b] = request[b]
    BY <1>6 DEF EndRequest, IdleRequest, TypeOK
  <2>. QED
    BY <1>1, <1>2, <1>3, <1>4, <1>6, <2>1, <2>2 DEF TypeOK, CarriedIds, TxInv
<1>7. ASSUME NEW s \in Sweepers, sweep' = [sweep EXCEPT ![s] = IdleSweep],
             UNCHANGED <<tx, request>>
      PROVE  IInv'
  <2>1. sweep' \in [Sweepers -> SweepState]
    BY <1>7 DEF TypeOK, IdleSweep, SweepState
  <2>2. CarriedIds'
    BY <1>2, <1>7 DEF CarriedIds, IdleSweep, TypeOK
  <2>. QED
    BY <1>1, <1>2, <1>3, <1>4, <1>7, <2>1, <2>2 DEF TypeOK, TxInv
<1>. QED
  BY <1>5, <1>6, <1>7 DEF Crash, TxDies, RequestDies, SweepDies, Dies

LEMMA StutterIInv == IInv /\ UNCHANGED vars => IInv'
  BY DEF vars, IInv, TypeOK, TxInv, RowsOf, CarriedIds, OneActivePerUser, Holding, MintedOnce

LEMMA NextIInv == IInv /\ [Next]_vars => IInv'
  BY MintStepIInv, ActivateStepIInv, SweepStepIInv, LapseIInv, CrashIInv, StutterIInv
     DEF Next

\* The inductive invariant holds throughout, for every set of users, payments
\* and concurrent handlers.
THEOREM Inductive == Spec => []IInv
  BY InitIInv, NextIInv, PTL DEF Spec

\* Every reachable state is typed.
THEOREM TypeCorrect == Spec => []TypeOK
<1>1. IInv => TypeOK
  BY DEF IInv
<1>. QED
  BY <1>1, Inductive, PTL

\* A user never has two active rows, whatever confirmations, activations and
\* sweeps run at once: each of the three writers of 'active' meets the index.
THEOREM AtMostOneActive == Spec => []OneActivePerUser
<1>1. IInv => OneActivePerUser
  BY DEF IInv
<1>. QED
  BY <1>1, Inductive, PTL

\* A payment never grants more than what it bought, however often it is
\* confirmed: the check of mintForPayment cannot go stale before its insert.
THEOREM NeverMintedTwice == Spec => []MintedOnce
<1>1. IInv => MintedOnce
  BY DEF IInv
<1>. QED
  BY <1>1, Inductive, PTL

-----------------------------------------------------------------------------
Forward == \A id \in DOMAIN subs : id \in DOMAIN subs' /\ MovesForward(id)

LEMMA MintForward ==
    ASSUME IInv, NEW c \in Confirmers, MintStep(c)
    PROVE  Forward
<1>1. CASE UNCHANGED subs
  BY <1>1 DEF Forward, MovesForward
<1>2. ASSUME NEW p \in Payments, RowsOf(p) = {},
             NEW first \in {"ready", "active", "queued", "expired"},
             NEW rest \in {"ready", "active", "queued", "expired"},
             Insert(p, first, rest)
      PROVE  Forward
  <2>0. TypeOK
    BY DEF IInv
  <2>1. /\ DOMAIN subs' = DOMAIN subs \cup Purchase(p)
        /\ \A id \in DOMAIN subs : subs'[id] = subs[id]
    <3>1. RowsOf(p) = {} /\ Insert(p, first, rest)
      BY <1>2
    <3>. QED
      BY <2>0, <3>1, InsertFacts
  <2>2. SUFFICES ASSUME NEW id \in DOMAIN subs
                 PROVE  id \in DOMAIN subs' /\ MovesForward(id)
    BY DEF Forward
  <2>3. id \in DOMAIN subs' /\ subs'[id] = subs[id]
    BY <2>1
  <2>. QED
    BY <2>3 DEF MovesForward
<1>3. ASSUME NEW first \in {"ready", "active", "queued", "expired"},
             NEW rest \in {"ready", "active", "queued", "expired"},
             Insert(tx[c].payment, first, rest), tx[c].pc # "idle",
             RowsOf(tx[c].payment) = {}
      PROVE  Forward
  <2>1. PICK p \in Payments : p = tx[c].payment
    BY <1>3 DEF IInv, TxInv
  <2>2. Insert(p, first, rest) /\ RowsOf(p) = {}
    BY <1>3, <2>1 DEF Insert, NewIds, FirstId, RowsOf
  <2>. QED
    BY <1>2, <2>2
<1>4. CASE MintCredits(c)
  BY <1>3, <1>4 DEF MintCredits, AlreadyMinted
<1>5. CASE MintBehind(c)
  BY <1>3, <1>5 DEF MintBehind, IInv, TxInv
<1>6. CASE MintStart(c)
  BY <1>3, <1>6 DEF MintStart, IInv, TxInv
<1>. QED
  BY <1>1, <1>4, <1>5, <1>6 DEF MintStep, MintBegin, MintSkip, MintCheck,
     MintReadActive, MintReadQueued, MintConflict

\* Activating a ready or queued row moves it forward and leaves the others.
LEMMA SetActiveForward ==
    ASSUME TypeOK, NEW id \in DOMAIN subs, subs[id].status \in {"ready", "queued"},
           SetActive(id)
    PROVE  Forward
<1>1. /\ DOMAIN subs' = DOMAIN subs
      /\ subs'[id].status = "active"
      /\ \A other \in DOMAIN subs : other # id => subs'[other] = subs[other]
  BY DEF SetActive, TypeOK
<1>. QED
  BY <1>1 DEF Forward, MovesForward

LEMMA SweepForward ==
    ASSUME IInv, NEW s \in Sweepers, SweepStep(s)
    PROVE  Forward
<1>1. CASE UNCHANGED subs
  BY <1>1 DEF Forward, MovesForward
<1>2. CASE SweepExpire(s)
  <2>1. ASSUME NEW id \in DOMAIN subs PROVE id \in DOMAIN subs' /\ MovesForward(id)
    <3>1. subs[id] \in Row
      BY DEF IInv, TypeOK
    <3>2. CASE id \in Lapsed
      BY <1>2, <3>1, <3>2 DEF SweepExpire, Lapsed, MovesForward, Row
    <3>3. CASE id \notin Lapsed
      BY <1>2, <3>3 DEF SweepExpire, MovesForward
    <3>. QED
      BY <3>2, <3>3
  <2>. QED
    BY <2>1 DEF Forward
<1>3. CASE Promote(s)
  <2>1. PICK id \in DOMAIN subs : id = sweep[s].next
    BY <1>3 DEF Promote, IInv, CarriedIds
  <2>2. SetActive(id) /\ subs[id].status = "queued"
    BY <2>1, <1>3 DEF Promote, SetActive, StillQueued
  <2>. QED
    BY <2>2, SetActiveForward DEF IInv
<1>. QED
  BY <1>1, <1>2, <1>3 DEF SweepStep, SweepWaiting, PromotePick, PromoteFails,
     SweepBuild, SweepNotify, SweepDone

LEMMA ActivateForward ==
    ASSUME IInv, NEW a \in Activators, ActivateStep(a)
    PROVE  Forward
<1>1. CASE UNCHANGED subs
  BY <1>1 DEF Forward, MovesForward
<1>2. CASE ActivateSpend(a)
  <2>1. PICK id \in DOMAIN subs : id = request[a].credit
    BY <1>2 DEF ActivateSpend, IInv, CarriedIds
  <2>2. SetActive(id) /\ subs[id].status = "ready"
    BY <2>1, <1>2 DEF ActivateSpend, SetActive
  <2>. QED
    BY <2>2, SetActiveForward DEF IInv
<1>. QED
  BY <1>1, <1>2 DEF ActivateStep, ActivateRead, ActivateCheck, ActivateUsed,
     ActivateConflict

LEMMA NextForward == IInv /\ [Next]_vars => [Forward]_vars
<1>. SUFFICES ASSUME IInv, Next PROVE Forward
  OBVIOUS
<1>1. ASSUME NEW id \in DOMAIN subs, Lapse(id) PROVE Forward
  <2>1. subs \in [DOMAIN subs -> Row] /\ subs[id] \in Row
    BY DEF IInv, TypeOK
  <2>2. subs' = [subs EXCEPT ![id] = [subs[id] EXCEPT !.lapsed = TRUE]]
    BY <1>1 DEF Lapse
  <2>3. [subs[id] EXCEPT !.lapsed = TRUE].status = subs[id].status
    BY <2>1 DEF Row
  <2>. QED
    BY <2>1, <2>2, <2>3 DEF Forward, MovesForward
<1>2. CASE Crash
  BY <1>2 DEF Crash, TxDies, RequestDies, SweepDies, Dies, Forward, MovesForward
<1>. QED
  BY <1>1, <1>2, MintForward, SweepForward, ActivateForward DEF Next

\* No period is ever lost, repeated or cut short: rows stay, and a row only
\* becomes active from ready or queued, and expired once it has lapsed.
THEOREM OnlyForward == Spec => PeriodsMoveForward
<1>1. [Forward]_vars => [\A id \in DOMAIN subs : id \in DOMAIN subs' /\ MovesForward(id)]_vars
  BY DEF Forward
<1>. QED
  BY <1>1, Inductive, NextForward, PTL DEF Spec, PeriodsMoveForward

-----------------------------------------------------------------------------
\* What maintenance tells.  A sweep says of a row that it ended, or that it
\* was started, from the moment it writes that until the notice is out.

SaysEnded(x, id)   == id \in x.ended \/ \E n \in x.unsent : id \in EndedBy(n)
SaysStarted(x, id) == id \in x.started \/ \E n \in x.unsent : id \in StartedBy(n)

HasEnded(id)   == id \in DOMAIN subs /\ subs[id].status = "expired"
HasStarted(id) == id \in DOMAIN subs /\ subs[id].status \in {"active", "expired"}

IsSo(n) ==
    /\ \A id \in EndedBy(n) : HasEnded(id)
    /\ \A id \in StartedBy(n) : HasStarted(id)
    /\ \A a, b \in EndedBy(n) \cup StartedBy(n) : UserOf(a) = UserOf(b)

SameRow(m, n) == (EndedBy(m) \cap EndedBy(n)) \cup (StartedBy(m) \cap StartedBy(n)) # {}

OneUserEach(rows) == \A a, b \in rows : UserOf(a) = UserOf(b) => a = b

\* A sweep ends one row of a user at most, because of the index, and starts
\* one at most, because a user is taken off its list when picked.
SweepPlan(x) ==
    /\ x.pc # "notify" => x.unsent = {}
    /\ x.pc \in {"idle", "notify"} => x.ended = {}
    /\ x.pc \in {"idle", "waiting", "notify"} => x.started = {}
    /\ OneUserEach(x.ended) /\ OneUserEach(x.started)
    /\ \A a \in x.started : UserOf(a) \notin x.todo
    /\ x.pc = "write" => /\ UserOf(x.next) \notin x.todo
                         /\ \A a \in x.started : UserOf(a) # UserOf(x.next)
    /\ \A m, n \in x.unsent : SameRow(m, n) => m = n

SweepSays(x) ==
    /\ \A id \in x.ended : HasEnded(id)
    /\ \A id \in x.started : HasStarted(id)
    /\ \A n \in x.unsent : IsSo(n)

\* Two sweeps never say the same, and none says what was already told.
Apart(x, y) ==
    \A id \in RowId : /\ ~(SaysEnded(x, id) /\ SaysEnded(y, id))
                      /\ ~(SaysStarted(x, id) /\ SaysStarted(y, id))
Untold(x) ==
    \A n \in notices, id \in RowId : /\ SaysEnded(x, id) => id \notin EndedBy(n)
                                     /\ SaysStarted(x, id) => id \notin StartedBy(n)

NoticeInv ==
    /\ \A s \in Sweepers : SweepPlan(sweep[s]) /\ SweepSays(sweep[s]) /\ Untold(sweep[s])
    /\ \A s, t \in Sweepers : s # t => Apart(sweep[s], sweep[t])
    /\ NoticesTrue

LEMMA NoticesAreSo == SaysWhatIs <=> \A n \in notices : IsSo(n)
  BY DEF SaysWhatIs, IsSo, HasEnded, HasStarted

LEMMA SaidIsSo ==
    ASSUME IInv, NEW x, SweepSays(x), NEW id
    PROVE  /\ SaysEnded(x, id) => HasEnded(id)
           /\ SaysStarted(x, id) => HasStarted(id)
           /\ HasEnded(id) \/ HasStarted(id) => id \in RowId
  BY DEF SweepSays, SaysEnded, SaysStarted, IsSo, HasEnded, HasStarted, IInv, TypeOK

\* What is so stays so, since rows only move forward.
LEMMA StaysSo ==
    ASSUME IInv, Forward
    PROVE  /\ \A id : HasEnded(id) => HasEnded(id)'
           /\ \A id : HasStarted(id) => HasStarted(id)'
           /\ \A n : IsSo(n) => IsSo(n)'
           /\ \A x : SweepSays(x) => SweepSays(x)'
<1>1. ASSUME NEW id, id \in DOMAIN subs
      PROVE  id \in DOMAIN subs' /\ MovesForward(id)
  BY <1>1 DEF Forward
<1>2. /\ \A id : HasEnded(id) => HasEnded(id)'
      /\ \A id : HasStarted(id) => HasStarted(id)'
  BY <1>1 DEF HasEnded, HasStarted, MovesForward
<1>3. \A n : IsSo(n) => IsSo(n)'
  BY <1>2 DEF IsSo
<1>4. \A x : SweepSays(x) => SweepSays(x)'
  BY <1>2, <1>3 DEF SweepSays
<1>. QED
  BY <1>2, <1>3, <1>4

\* One sweep moves.  What it says now it said before, or has just made so,
\* and then nobody can have said it.
LEMMA SweepTells ==
    ASSUME IInv, NoticeInv, Forward, NEW s \in Sweepers, NEW x, sweep' = [sweep EXCEPT ![s] = x],
           SweepPlan(x), SweepSays(x)', UNCHANGED notices,
           \A id \in RowId :
               /\ SaysEnded(x, id) => SaysEnded(sweep[s], id) \/ ~HasEnded(id)
               /\ SaysStarted(x, id) => SaysStarted(sweep[s], id) \/ ~HasStarted(id)
    PROVE  NoticeInv'
<1>1. \A t \in Sweepers : sweep'[t] = IF t = s THEN x ELSE sweep[t]
  BY DEF IInv, TypeOK
<1>2. /\ \A t \in Sweepers : SweepPlan(sweep[t]) /\ SweepSays(sweep[t]) /\ Untold(sweep[t])
      /\ \A t, u \in Sweepers : t # u => Apart(sweep[t], sweep[u])
      /\ \A n \in notices : IsSo(n)
      /\ AnnouncedOnce
  BY NoticesAreSo DEF NoticeInv, NoticesTrue
<1>3. ASSUME NEW t \in Sweepers, t # s
      PROVE  Apart(x, sweep[t]) /\ Apart(sweep[t], x)
  <2>1. \A id : /\ SaysEnded(sweep[t], id) => HasEnded(id)
                /\ SaysStarted(sweep[t], id) => HasStarted(id)
    BY <1>2, SaidIsSo
  <2>. QED
    BY <1>2, <1>3, <2>1 DEF Apart
<1>4. Untold(x)
  <2>1. ASSUME NEW n \in notices, NEW id
        PROVE  (id \in EndedBy(n) => HasEnded(id)) /\ (id \in StartedBy(n) => HasStarted(id))
    BY <1>2 DEF IsSo
  <2>. QED
    BY <1>2, <2>1 DEF Untold
<1>5. \A t \in Sweepers : SweepPlan(sweep'[t])
  BY <1>1, <1>2
<1>6. \A t \in Sweepers : SweepSays(sweep[t])'
  BY <1>1, <1>2, StaysSo
<1>7. \A t \in Sweepers : Untold(sweep[t])'
  BY <1>1, <1>2, <1>4 DEF Untold
<1>8. \A t, u \in Sweepers : t # u => Apart(sweep'[t], sweep'[u])
  BY <1>1, <1>2, <1>3
<1>9. NoticesTrue'
  <2>1. \A n \in notices : IsSo(n)'
    BY <1>2, StaysSo
  <2>2. SaysWhatIs'
    BY <2>1 DEF SaysWhatIs, IsSo, HasEnded, HasStarted
  <2>3. AnnouncedOnce'
    BY <1>2 DEF AnnouncedOnce
  <2>. QED
    BY <2>2, <2>3 DEF NoticesTrue
<1>. QED
  BY <1>5, <1>6, <1>7, <1>8, <1>9 DEF NoticeInv

\* Nothing is said or told.
LEMMA NothingTold ==
    ASSUME IInv, NoticeInv, Forward, UNCHANGED <<sweep, notices>>
    PROVE  NoticeInv'
<1>1. \A t \in Sweepers : SweepSays(sweep[t])'
  BY StaysSo DEF NoticeInv
<1>2. /\ \A t \in Sweepers : SweepPlan(sweep[t])' /\ Untold(sweep[t])'
      /\ \A t, u \in Sweepers : t # u => Apart(sweep[t], sweep[u])'
  BY DEF NoticeInv, Untold
<1>3. NoticesTrue'
  <2>1. \A n \in notices : IsSo(n)'
    BY NoticesAreSo, StaysSo DEF NoticeInv, NoticesTrue
  <2>2. SaysWhatIs'
    BY <2>1 DEF SaysWhatIs, IsSo, HasEnded, HasStarted
  <2>3. AnnouncedOnce'
    BY DEF NoticeInv, NoticesTrue, AnnouncedOnce
  <2>. QED
    BY <2>2, <2>3 DEF NoticesTrue
<1>. QED
  BY <1>1, <1>2, <1>3 DEF NoticeInv

\* The notices of one run name each of its rows once: an end and a start of
\* one user are one notice, and no user has two of either.
LEMMA BuiltNotices ==
    ASSUME NEW ended, NEW started, OneUserEach(ended), OneUserEach(started),
           NEW built, built = MaintenanceNotices(ended, started)
    PROVE  /\ \A n \in built : /\ EndedBy(n) \subseteq ended /\ StartedBy(n) \subseteq started
                               /\ \A a, b \in EndedBy(n) \cup StartedBy(n) : UserOf(a) = UserOf(b)
           /\ \A m, n \in built : SameRow(m, n) => m = n
<1>1. ASSUME NEW n \in built
      PROVE  \/ \E a \in started, b \in ended :
                   /\ n = [type |-> "subscription_rolled_over", row |-> a, previous |-> b]
                   /\ EndedBy(n) = {b} /\ StartedBy(n) = {a} /\ UserOf(a) = UserOf(b)
             \/ \E b \in ended :
                   /\ n = [type |-> "subscription_expired", row |-> b, previous |-> NoRow]
                   /\ EndedBy(n) = {b} /\ StartedBy(n) = {} /\ \A a \in started : UserOf(a) # UserOf(b)
             \/ \E a \in started :
                   /\ n = [type |-> "subscription_started", row |-> a, previous |-> NoRow]
                   /\ EndedBy(n) = {} /\ StartedBy(n) = {a} /\ \A b \in ended : UserOf(a) # UserOf(b)
  <2>1. CASE n \in RolledOver(ended, started)
    BY <2>1 DEF RolledOver, EndedBy, StartedBy
  <2>2. CASE n \in EndedAlone(ended, started)
    BY <2>2 DEF EndedAlone, EndedBy, StartedBy
  <2>3. CASE n \in StartedAlone(ended, started)
    BY <2>3 DEF StartedAlone, EndedBy, StartedBy
  <2>. QED
    BY <2>1, <2>2, <2>3 DEF MaintenanceNotices
<1>2. ASSUME NEW n \in built
      PROVE  /\ EndedBy(n) \subseteq ended /\ StartedBy(n) \subseteq started
             /\ \A a, b \in EndedBy(n) \cup StartedBy(n) : UserOf(a) = UserOf(b)
  BY <1>1
<1>3. ASSUME NEW m \in built, NEW n \in built, NEW id, id \in EndedBy(m), id \in EndedBy(n)
      PROVE  m = n
  BY <1>1, <1>3 DEF OneUserEach
<1>4. ASSUME NEW m \in built, NEW n \in built, NEW id, id \in StartedBy(m), id \in StartedBy(n)
      PROVE  m = n
  BY <1>1, <1>4 DEF OneUserEach
<1>. QED
  BY <1>2, <1>3, <1>4 DEF SameRow

\* A sweep that says less than it did.
LEMMA SweepSaysLess ==
    ASSUME IInv, NoticeInv, Forward, NEW s \in Sweepers, NEW x, sweep' = [sweep EXCEPT ![s] = x],
           SweepPlan(x), x.ended \subseteq sweep[s].ended, x.started \subseteq sweep[s].started,
           x.unsent \subseteq sweep[s].unsent, UNCHANGED notices
    PROVE  NoticeInv'
<1>1. SweepSays(sweep[s])
  BY DEF NoticeInv
<1>2. SweepSays(x)
  BY <1>1 DEF SweepSays
<1>3. SweepSays(x)'
  BY <1>2, StaysSo
<1>4. \A id \in RowId : /\ SaysEnded(x, id) => SaysEnded(sweep[s], id)
                        /\ SaysStarted(x, id) => SaysStarted(sweep[s], id)
  BY DEF SaysEnded, SaysStarted
<1>. QED
  BY <1>3, <1>4, SweepTells

LEMMA IdleSays ==
    /\ SweepPlan(IdleSweep)
    /\ IdleSweep.ended = {} /\ IdleSweep.started = {} /\ IdleSweep.unsent = {}
  BY DEF IdleSweep, SweepPlan, OneUserEach

LEMMA SweepEndsSilent ==
    ASSUME IInv, NoticeInv, Forward, NEW s \in Sweepers, sweep' = [sweep EXCEPT ![s] = IdleSweep],
           UNCHANGED notices
    PROVE  NoticeInv'
<1>1. PICK x : x = IdleSweep
  OBVIOUS
<1>. QED
  BY <1>1, IdleSays, SweepSaysLess

LEMMA ExpireTells ==
    ASSUME IInv, NoticeInv, Forward, NEW s \in Sweepers, SweepExpire(s)
    PROVE  NoticeInv'
<1>1. PICK x : x = [sweep[s] EXCEPT !.pc = "waiting", !.ended = Lapsed]
  OBVIOUS
<1>2. sweep' = [sweep EXCEPT ![s] = x] /\ UNCHANGED notices
  BY <1>1 DEF SweepExpire
<1>3. sweep[s] \in SweepState /\ sweep[s].pc = "idle" /\ SweepPlan(sweep[s])
  BY DEF SweepExpire, IInv, TypeOK, NoticeInv
<1>4. x.pc = "waiting" /\ x.ended = Lapsed /\ x.started = {} /\ x.unsent = {}
  BY <1>1, <1>3 DEF SweepState, SweepPlan
<1>5. OneUserEach(Lapsed)
  <2>. SUFFICES ASSUME NEW a \in Lapsed, NEW b \in Lapsed, UserOf(a) = UserOf(b)
                PROVE  a = b
    BY DEF OneUserEach
  <2>1. a \in RowId /\ b \in RowId
    BY DEF Lapsed, IInv, TypeOK
  <2>2. UserOf(a) \in Users
    BY <2>1, PurchaseAssumption DEF UserOf, RowId
  <2>3. a \in Holding(UserOf(a), "active") /\ b \in Holding(UserOf(a), "active")
    BY DEF Lapsed, Holding
  <2>. QED
    BY <2>2, <2>3 DEF IInv, OneActivePerUser
<1>6. SweepPlan(x)
  BY <1>4, <1>5 DEF SweepPlan, OneUserEach
<1>7. \A id \in Lapsed : HasEnded(id)' /\ ~HasEnded(id)
  <2>. SUFFICES ASSUME NEW id \in Lapsed PROVE HasEnded(id)' /\ ~HasEnded(id)
    OBVIOUS
  <2>1. id \in DOMAIN subs /\ subs[id].status = "active" /\ subs[id] \in Row
    BY DEF Lapsed, IInv, TypeOK
  <2>2. id \in DOMAIN subs' /\ subs'[id].status = "expired"
    BY <2>1 DEF SweepExpire, Row
  <2>. QED
    BY <2>1, <2>2 DEF HasEnded
<1>8. SweepSays(x)'
  BY <1>4, <1>7 DEF SweepSays
<1>9. \A id \in RowId : /\ SaysEnded(x, id) => ~HasEnded(id)
                        /\ ~SaysStarted(x, id)
  BY <1>4, <1>7 DEF SaysEnded, SaysStarted
<1>. QED
  BY <1>2, <1>6, <1>8, <1>9, SweepTells

LEMMA PickTells ==
    ASSUME IInv, NoticeInv, Forward, NEW s \in Sweepers, NEW u \in Users, PromotePick(s, u)
    PROVE  NoticeInv'
<1>1. /\ sweep[s] \in SweepState /\ sweep[s].pc = "promote" /\ SweepPlan(sweep[s]) /\ u \in sweep[s].todo
      /\ UNCHANGED notices
  BY DEF PromotePick, IInv, TypeOK, NoticeInv
<1>2. CASE sweep' = [sweep EXCEPT ![s].todo = @ \ {u}]
  <2>1. PICK x : x = [sweep[s] EXCEPT !.todo = sweep[s].todo \ {u}]
    OBVIOUS
  <2>2. sweep' = [sweep EXCEPT ![s] = x]
    BY <1>2, <2>1
  <2>3. /\ x.pc = "promote" /\ x.ended = sweep[s].ended /\ x.started = sweep[s].started
        /\ x.unsent = sweep[s].unsent /\ x.todo = sweep[s].todo \ {u}
    BY <1>1, <2>1 DEF SweepState
  <2>4. SweepPlan(x)
    BY <1>1, <2>3 DEF SweepPlan
  <2>. QED
    BY <1>1, <2>2, <2>3, <2>4, SweepSaysLess
<1>3. ASSUME NEW id \in OldestQueued(u),
             sweep' = [sweep EXCEPT ![s].todo = @ \ {u}, ![s].pc = "write", ![s].next = id]
      PROVE  NoticeInv'
  <2>1. PICK x : x = [sweep[s] EXCEPT !.todo = sweep[s].todo \ {u}, !.pc = "write", !.next = id]
    OBVIOUS
  <2>2. sweep' = [sweep EXCEPT ![s] = x]
    BY <1>3, <2>1
  <2>3. /\ x.pc = "write" /\ x.ended = sweep[s].ended /\ x.started = sweep[s].started
        /\ x.unsent = sweep[s].unsent /\ x.todo = sweep[s].todo \ {u} /\ x.next = id
    BY <1>1, <2>1 DEF SweepState
  <2>4. UserOf(id) = u
    BY DEF OldestQueued, Holding
  <2>5. SweepPlan(x)
    BY <1>1, <2>3, <2>4 DEF SweepPlan
  <2>. QED
    BY <1>1, <2>2, <2>3, <2>5, SweepSaysLess
<1>. QED
  BY <1>2, <1>3 DEF PromotePick

LEMMA PromoteTells ==
    ASSUME IInv, NoticeInv, Forward, NEW s \in Sweepers, Promote(s)
    PROVE  NoticeInv'
<1>1. /\ sweep[s] \in SweepState /\ sweep[s].pc = "write" /\ SweepPlan(sweep[s]) /\ SweepSays(sweep[s])
      /\ UNCHANGED notices
  BY DEF Promote, IInv, TypeOK, NoticeInv
<1>2. PICK id \in DOMAIN subs : id = sweep[s].next
  BY <1>1 DEF IInv, CarriedIds
<1>3. PICK x : x = [sweep[s] EXCEPT !.pc = "promote", !.next = NoRow, !.started = sweep[s].started \cup {id}]
  OBVIOUS
<1>4. sweep' = [sweep EXCEPT ![s] = x]
  BY <1>2, <1>3 DEF Promote
<1>5. /\ x.pc = "promote" /\ x.ended = sweep[s].ended /\ x.started = sweep[s].started \cup {id}
      /\ x.unsent = sweep[s].unsent /\ x.todo = sweep[s].todo
  BY <1>1, <1>3 DEF SweepState
<1>6. SweepPlan(x)
  BY <1>1, <1>2, <1>5 DEF SweepPlan, OneUserEach
<1>7. subs[id].status = "queued" /\ subs' = [subs EXCEPT ![id] = [status |-> "active", lapsed |-> FALSE]]
  BY <1>2 DEF Promote, StillQueued, SetActive
<1>8. ~HasStarted(id) /\ HasStarted(id)'
  BY <1>7 DEF HasStarted
<1>9. SweepSays(sweep[s])'
  <2>1. PICK y : y = sweep[s]
    OBVIOUS
  <2>2. SweepSays(y)'
    BY <1>1, <2>1, StaysSo
  <2>3. /\ \A q \in y.ended : HasEnded(q)'
        /\ \A q \in y.started : HasStarted(q)'
        /\ \A n \in y.unsent : IsSo(n)'
    BY <2>2 DEF SweepSays
  <2>4. /\ \A q \in x.ended : HasEnded(q)'
        /\ \A q \in x.started : HasStarted(q)'
        /\ \A n \in x.unsent : IsSo(n)'
    BY <1>5, <1>8, <2>1, <2>3
  <2>5. \A t \in Sweepers : sweep'[t] = IF t = s THEN x ELSE sweep[t]
    BY <1>4 DEF IInv, TypeOK
  <2>. QED
    BY <2>4, <2>5 DEF SweepSays
<1>10. SweepSays(x)'
  <2>1. sweep'[s] = x
    BY <1>4 DEF IInv, TypeOK
  <2>. QED
    BY <1>9, <2>1 DEF SweepSays
<1>11. \A q \in RowId : /\ SaysEnded(x, q) => SaysEnded(sweep[s], q)
                        /\ SaysStarted(x, q) => SaysStarted(sweep[s], q) \/ ~HasStarted(q)
  BY <1>5, <1>8 DEF SaysEnded, SaysStarted
<1>. QED
  BY <1>1, <1>4, <1>6, <1>10, <1>11, SweepTells

LEMMA BuildTells ==
    ASSUME IInv, NoticeInv, Forward, NEW s \in Sweepers, SweepBuild(s)
    PROVE  NoticeInv'
<1>1. /\ sweep[s] \in SweepState /\ sweep[s].pc = "promote" /\ SweepPlan(sweep[s]) /\ SweepSays(sweep[s])
      /\ UNCHANGED <<subs, notices>>
  BY DEF SweepBuild, IInv, TypeOK, NoticeInv
<1>2. PICK ended, started : ended = sweep[s].ended /\ started = sweep[s].started
  OBVIOUS
<1>3. OneUserEach(ended) /\ OneUserEach(started)
  BY <1>1, <1>2 DEF SweepPlan
<1>4. PICK built : built = MaintenanceNotices(ended, started)
  OBVIOUS
<1>5. PICK x : x = [IdleSweep EXCEPT !.pc = "notify", !.unsent = built]
  OBVIOUS
<1>6. x.pc = "notify" /\ x.ended = {} /\ x.started = {} /\ x.unsent = built
  BY <1>5 DEF IdleSweep
<1>7. sweep' = [sweep EXCEPT ![s] = x]
  <2>1. sweep' = [sweep EXCEPT ![s] = [IdleSweep EXCEPT !.pc = "notify",
                                         !.unsent = MaintenanceNotices(sweep[s].ended, sweep[s].started)]]
    BY DEF SweepBuild
  <2>. QED
    BY <1>2, <1>4, <1>5, <2>1
<1>8. /\ \A n \in built : /\ EndedBy(n) \subseteq ended /\ StartedBy(n) \subseteq started
                          /\ \A a, b \in EndedBy(n) \cup StartedBy(n) : UserOf(a) = UserOf(b)
      /\ \A m, n \in built : SameRow(m, n) => m = n
  BY <1>3, <1>4, BuiltNotices
<1>9. SweepPlan(x)
  BY <1>6, <1>8 DEF SweepPlan, OneUserEach
<1>10. \A n \in built : IsSo(n)
  BY <1>1, <1>2, <1>8 DEF IsSo, SweepSays
<1>11. SweepSays(x)'
  <2>1. \A n \in built : IsSo(n)'
    BY <1>10, StaysSo
  <2>. QED
    BY <1>6, <2>1 DEF SweepSays
<1>12. \A q \in RowId : /\ SaysEnded(x, q) => SaysEnded(sweep[s], q)
                        /\ SaysStarted(x, q) => SaysStarted(sweep[s], q)
  BY <1>2, <1>6, <1>8 DEF SaysEnded, SaysStarted
<1>. QED
  BY <1>1, <1>7, <1>9, <1>11, <1>12, SweepTells

\* The one step that tells: the notice passes from the sweep to the user.
LEMMA NotifyTells ==
    ASSUME IInv, NoticeInv, NEW s \in Sweepers, SweepNotify(s)
    PROVE  NoticeInv'
<1>1. PICK n \in sweep[s].unsent :
         /\ notices' = notices \cup {n}
         /\ sweep' = [sweep EXCEPT ![s].unsent = @ \ {n}]
  BY DEF SweepNotify
<1>2. PICK x : x = [sweep[s] EXCEPT !.unsent = sweep[s].unsent \ {n}]
  OBVIOUS
<1>3. sweep' = [sweep EXCEPT ![s] = x]
  BY <1>1, <1>2
<1>4. /\ sweep[s] \in SweepState /\ sweep[s].pc = "notify" /\ SweepPlan(sweep[s]) /\ SweepSays(sweep[s])
      /\ Untold(sweep[s]) /\ UNCHANGED subs
  BY DEF SweepNotify, IInv, TypeOK, NoticeInv
<1>5. x.pc = "notify" /\ x.ended = {} /\ x.started = {} /\ x.unsent = sweep[s].unsent \ {n}
  BY <1>2, <1>4 DEF SweepState, SweepPlan
<1>6. SweepPlan(x)
  BY <1>4, <1>5 DEF SweepPlan, OneUserEach
<1>7. \A t \in Sweepers : sweep'[t] = IF t = s THEN x ELSE sweep[t]
  BY <1>3 DEF IInv, TypeOK
<1>8. /\ \A id : SaysEnded(x, id) => SaysEnded(sweep[s], id) /\ id \notin EndedBy(n)
      /\ \A id : SaysStarted(x, id) => SaysStarted(sweep[s], id) /\ id \notin StartedBy(n)
  <2>1. \A m \in x.unsent : m \in sweep[s].unsent /\ ~SameRow(m, n)
    BY <1>1, <1>4, <1>5 DEF SweepPlan
  <2>. QED
    BY <1>5, <2>1 DEF SaysEnded, SaysStarted, SameRow
<1>9. /\ \A id \in EndedBy(n) : SaysEnded(sweep[s], id) /\ id \in RowId
      /\ \A id \in StartedBy(n) : SaysStarted(sweep[s], id) /\ id \in RowId
  <2>1. /\ \A id \in EndedBy(n) : SaysEnded(sweep[s], id)
        /\ \A id \in StartedBy(n) : SaysStarted(sweep[s], id)
    BY <1>1 DEF SaysEnded, SaysStarted
  <2>. QED
    BY <1>4, <2>1, SaidIsSo
<1>10. IsSo(n) /\ SweepSays(x)
  BY <1>1, <1>4, <1>5 DEF SweepSays
<1>11. \A t \in Sweepers : SweepPlan(sweep[t])' /\ SweepSays(sweep[t])'
  <2>1. \A t \in Sweepers : SweepPlan(sweep'[t]) /\ SweepSays(sweep'[t])
    BY <1>6, <1>7, <1>10 DEF NoticeInv
  <2>. QED
    BY <1>4, <2>1 DEF SweepSays, IsSo, HasEnded, HasStarted
<1>12. ASSUME NEW t \in Sweepers PROVE Untold(sweep[t])'
  <2>1. Untold(sweep'[t])
    BY <1>7, <1>8 DEF NoticeInv, Untold
  <2>2. \A id \in RowId : /\ SaysEnded(sweep'[t], id) => id \notin EndedBy(n)
                          /\ SaysStarted(sweep'[t], id) => id \notin StartedBy(n)
    <3>1. CASE t = s
      BY <1>7, <1>8, <3>1
    <3>2. CASE t # s
      <4>1. Apart(sweep[s], sweep[t]) /\ sweep'[t] = sweep[t]
        BY <1>7, <3>2 DEF NoticeInv
      <4>. QED
        BY <1>9, <4>1 DEF Apart
    <3>. QED
      BY <3>1, <3>2
  <2>. QED
    BY <1>1, <2>1, <2>2 DEF Untold
<1>13. ASSUME NEW t \in Sweepers, NEW u \in Sweepers, t # u PROVE Apart(sweep'[t], sweep'[u])
  BY <1>7, <1>8, <1>13 DEF NoticeInv, Apart
<1>14. NoticesTrue'
  <2>1. \A m \in notices' : IsSo(m)
    BY <1>1, <1>10, NoticesAreSo DEF NoticeInv, NoticesTrue
  <2>2. SaysWhatIs'
    BY <1>4, <2>1 DEF SaysWhatIs, IsSo, HasEnded, HasStarted
  <2>3. \A m \in notices : ~SameRow(m, n)
    BY <1>4, <1>9 DEF Untold, SameRow
  <2>4. AnnouncedOnce /\ \A m : SameRow(m, n) <=> SameRow(n, m)
    BY DEF NoticeInv, NoticesTrue, SameRow
  <2>5. \A m, k \in notices' : SameRow(m, k) => m = k
    BY <1>1, <2>3, <2>4 DEF AnnouncedOnce, SameRow
  <2>6. AnnouncedOnce'
    BY <2>5 DEF AnnouncedOnce, SameRow
  <2>. QED
    BY <2>2, <2>6 DEF NoticesTrue
<1>. QED
  BY <1>11, <1>12, <1>13, <1>14 DEF NoticeInv

LEMMA SweepStepTells ==
    ASSUME IInv, NoticeInv, Forward, NEW s \in Sweepers, SweepStep(s)
    PROVE  NoticeInv'
<1>1. sweep[s] \in SweepState /\ SweepPlan(sweep[s])
  BY DEF IInv, TypeOK, NoticeInv
<1>2. CASE SweepWaiting(s)
  <2>1. PICK x : x = [sweep[s] EXCEPT !.pc = "promote", !.todo = Waiting]
    OBVIOUS
  <2>2. sweep' = [sweep EXCEPT ![s] = x] /\ UNCHANGED notices /\ sweep[s].pc = "waiting"
    BY <1>2, <2>1 DEF SweepWaiting
  <2>3. x.pc = "promote" /\ x.ended = sweep[s].ended /\ x.started = {} /\ x.unsent = {}
    BY <1>1, <2>1, <2>2 DEF SweepState, SweepPlan
  <2>4. SweepPlan(x)
    BY <1>1, <2>3 DEF SweepPlan, OneUserEach
  <2>. QED
    BY <2>2, <2>3, <2>4, SweepSaysLess
<1>3. CASE PromoteFails(s)
  <2>1. PICK x : x = [sweep[s] EXCEPT !.pc = "promote", !.next = NoRow]
    OBVIOUS
  <2>2. sweep' = [sweep EXCEPT ![s] = x] /\ UNCHANGED notices /\ sweep[s].pc = "write"
    BY <1>3, <2>1 DEF PromoteFails
  <2>3. /\ x.pc = "promote" /\ x.ended = sweep[s].ended /\ x.started = sweep[s].started
        /\ x.unsent = sweep[s].unsent /\ x.todo = sweep[s].todo
    BY <1>1, <2>1 DEF SweepState
  <2>4. SweepPlan(x)
    BY <1>1, <2>2, <2>3 DEF SweepPlan
  <2>. QED
    BY <2>2, <2>3, <2>4, SweepSaysLess
<1>4. CASE SweepDone(s)
  BY <1>4, SweepEndsSilent DEF SweepDone
<1>. QED
  BY <1>2, <1>3, <1>4, ExpireTells, PickTells, PromoteTells, BuildTells, NotifyTells DEF SweepStep

LEMMA NextTells == IInv /\ NoticeInv /\ [Next]_vars => NoticeInv'
<1>. SUFFICES ASSUME IInv, NoticeInv, [Next]_vars PROVE NoticeInv'
  OBVIOUS
<1>1. CASE UNCHANGED vars
  BY <1>1, NothingTold DEF vars, Forward, MovesForward
<1>2. CASE Next /\ Forward
  <2>1. CASE \E c \in Confirmers : MintStep(c)
    <3>1. UNCHANGED <<sweep, notices>>
      BY <2>1 DEF MintStep, MintBegin, MintSkip, MintCredits, MintCheck, MintReadActive,
                  MintReadQueued, MintBehind, MintStart, MintConflict
    <3>. QED
      BY <1>2, <3>1, NothingTold
  <2>2. CASE \E a \in Activators : ActivateStep(a)
    <3>1. UNCHANGED <<sweep, notices>>
      BY <2>2 DEF ActivateStep, ActivateRead, ActivateCheck, ActivateSpend, ActivateUsed, ActivateConflict
    <3>. QED
      BY <1>2, <3>1, NothingTold
  <2>3. CASE \E id \in DOMAIN subs : Lapse(id)
    BY <1>2, <2>3, NothingTold DEF Lapse
  <2>4. ASSUME NEW s \in Sweepers, SweepDies(s) PROVE NoticeInv'
    BY <1>2, <2>4, SweepEndsSilent DEF SweepDies
  <2>5. CASE \E c \in Confirmers : TxDies(c)
    BY <1>2, <2>5, NothingTold DEF TxDies
  <2>6. CASE \E a \in Activators : RequestDies(a)
    BY <1>2, <2>6, NothingTold DEF RequestDies
  <2>. QED
    BY <1>2, <2>1, <2>2, <2>3, <2>4, <2>5, <2>6, SweepStepTells DEF Next, Crash
<1>. QED
  BY <1>1, <1>2, NextForward DEF Forward

\* Maintenance tells the truth, once: what a notice says ended has ended, what
\* it says started was started, both are one user's, and no end or start is
\* announced twice, however many sweeps overlap, die or lose a promotion
\* (expireAndPromote and buildMaintenanceNotifications).
THEOREM NoticesAreTrue == Spec => []NoticesTrue
<1>1. Init => NoticeInv
  <2>. SUFFICES ASSUME Init PROVE NoticeInv
    OBVIOUS
  <2>1. notices = {} /\ \A s \in Sweepers : sweep[s] = IdleSweep
    BY DEF Init
  <2>2. SweepSays(IdleSweep) /\ Untold(IdleSweep) /\ Apart(IdleSweep, IdleSweep)
    BY <2>1, IdleSays DEF SweepSays, Untold, Apart, SaysEnded, SaysStarted
  <2>3. NoticesTrue
    BY <2>1 DEF NoticesTrue, SaysWhatIs, AnnouncedOnce
  <2>. QED
    BY <2>1, <2>2, <2>3, IdleSays DEF NoticeInv
<1>2. NoticeInv => NoticesTrue
  BY DEF NoticeInv
<1>. QED
  BY <1>1, <1>2, NextTells, Inductive, PTL DEF Spec

-----------------------------------------------------------------------------
(* Subscriptions implements Entitlements: a committed mint is a Grant, an  *)
(* activation or a promotion a Start, a lapse a ComesDue, an expiring      *)
(* sweep an End, and every other step leaves what was promised as it is.   *)

Mapped == [id \in BoughtPeriods |-> PeriodState(id)]

LEMMA BoughtIsRow ==
    ASSUME IInv, NEW id \in DOMAIN subs
    PROVE  id \in BoughtPeriods /\ id[1] \in Payments
<1>1. id \in RowId
  BY DEF IInv, TypeOK
<1>2. id[1] \in Payments /\ id \in RowsOf(id[1])
  BY <1>1 DEF RowId, RowsOf
<1>3. id \in Purchase(id[1])
  BY <1>2 DEF IInv, MintedOnce
<1>. QED
  BY <1>2, <1>3 DEF BoughtPeriods

LEMMA SamePeriods == Promise!Periods = BoughtPeriods
  BY DEF Promise!Periods, BoughtPeriods, Purchase

LEMMA SameBought ==
    ASSUME NEW p \in Payments
    PROVE  Promise!Bought(p) = Purchase(p)
<1>1. \A q \in BoughtPeriods : q[1] = p <=> q \in Purchase(p)
  BY DEF BoughtPeriods, Purchase
<1>2. Purchase(p) \subseteq BoughtPeriods
  BY DEF BoughtPeriods
<1>. QED
  BY <1>1, <1>2, SamePeriods DEF Promise!Bought

\* What is in use in the abstract state is an active row.
LEMMA InUseIsActive ==
    ASSUME IInv, NEW u \in Users
    PROVE  Promise!InUse(u) \subseteq Holding(u, "active")
<1>1. ASSUME NEW q \in BoughtPeriods, PeriodState(q) \in {"running", "due"}
      PROVE  q \in DOMAIN subs /\ subs[q].status = "active"
  BY <1>1 DEF PeriodState, IInv, TypeOK, Row
<1>. QED
  BY <1>1, SamePeriods DEF Promise!InUse, Holding, UserOf

\* The time of a new row is not out.
LEMMA InsertedInTime ==
    ASSUME TypeOK, NEW p \in Payments, RowsOf(p) = {}, NEW first, NEW rest,
           Insert(p, first, rest)
    PROVE  \A id \in Purchase(p) : subs'[id].lapsed = FALSE
<1>1. NewIds(p) = Purchase(p)
  <2>1. Cardinality(RowsOf(p)) = 0
    BY FS_EmptySet
  <2>2. Quantity[p] \in Nat \ {0}
    BY PurchaseAssumption
  <2>. QED
    BY <2>1, <2>2 DEF NewIds, Purchase
<1>2. ASSUME NEW id \in Purchase(p)
      PROVE  subs'[id] = [status |-> IF id = FirstId(p) THEN first ELSE rest, lapsed |-> FALSE]
  BY <1>1 DEF Insert
<1>3. ASSUME NEW id \in Purchase(p) PROVE subs'[id].lapsed = FALSE
  <2>1. PICK row : row = [status |-> IF id = FirstId(p) THEN first ELSE rest, lapsed |-> FALSE]
    OBVIOUS
  <2>2. subs'[id] = row
    BY <1>2, <2>1
  <2>3. row.lapsed = FALSE
    BY <2>1
  <2>. QED
    BY <2>2, <2>3
<1>. QED
  BY <1>3

LEMMA GrantStep ==
    ASSUME IInv, NEW p \in Payments, RowsOf(p) = {},
           NEW first \in {"ready", "active", "queued"}, NEW rest \in {"ready", "queued"},
           first = "active" => IndexAdmits(Owner[p]),
           Insert(p, first, rest)
    PROVE  Promise!Grant(p)
<1>1. /\ DOMAIN subs' = DOMAIN subs \cup Purchase(p)
      /\ \A id \in DOMAIN subs : subs'[id] = subs[id]
      /\ \A id \in Purchase(p) :
            /\ id = <<p, 1>> => subs'[id].status = first
            /\ id # <<p, 1>> => subs'[id].status = rest
            /\ subs'[id].lapsed = FALSE
  <2>1. /\ first \in {"ready", "active", "queued", "expired"}
        /\ rest \in {"ready", "active", "queued", "expired"}
    OBVIOUS
  <2>. QED
    <3>1. TypeOK
      BY DEF IInv
    <3>2. \A id \in Purchase(p) : subs'[id].lapsed = FALSE
      BY <3>1, InsertedInTime
    <3>. QED
      BY <2>1, <3>1, <3>2, InsertFacts
<1>2. \A id \in Purchase(p) : id \notin DOMAIN subs
  BY DEF Purchase, RowsOf
<1>3. \A id \in Purchase(p) : Mapped[id] = "none"
  BY <1>2 DEF Mapped, PeriodState, BoughtPeriods
<1>4. ASSUME NEW id \in BoughtPeriods, id \notin Purchase(p)
      PROVE  PeriodState(id)' = PeriodState(id)
  <2>1. CASE id \in DOMAIN subs
    BY <2>1, <1>1 DEF PeriodState
  <2>2. CASE id \notin DOMAIN subs
    BY <2>2, <1>1, <1>4 DEF PeriodState
  <2>. QED
    BY <2>1, <2>2
<1>5. ASSUME NEW id \in Purchase(p), subs'[id].status \in {"ready", "queued"}
      PROVE  PeriodState(id)' = "held"
  BY <1>1, <1>5 DEF PeriodState
<1>6. ASSUME NEW id \in Purchase(p), subs'[id].status = "active"
      PROVE  PeriodState(id)' = "running"
  BY <1>1, <1>6 DEF PeriodState
<1>7. BoughtPeriods' = BoughtPeriods /\ Purchase(p) \subseteq BoughtPeriods
  BY DEF BoughtPeriods
<1>8. CASE first = "active"
  <2>1. Promise!InUse(Owner[p]) = {}
    <3>1. Owner[p] \in Users
      BY PurchaseAssumption
    <3>. QED
      BY <1>8, <3>1, InUseIsActive DEF IndexAdmits
  <2>2. <<p, 1>> \in Purchase(p)
    BY PurchaseAssumption DEF Purchase
  <2>3. Mapped' = [q \in BoughtPeriods |->
                     IF q = <<p, 1>> THEN "running"
                     ELSE IF q \in Purchase(p) THEN "held" ELSE Mapped[q]]
    BY <1>1, <1>4, <1>5, <1>6, <1>7, <1>8, <2>2 DEF Mapped
  <2>. QED
    BY <1>3, <2>1, <2>3, SamePeriods, SameBought DEF Promise!Grant, Mapped
<1>9. CASE first # "active"
  <2>1. Mapped' = [q \in BoughtPeriods |->
                     IF q \in Purchase(p) THEN "held" ELSE Mapped[q]]
    BY <1>1, <1>4, <1>5, <1>7, <1>9 DEF Mapped
  <2>. QED
    BY <1>3, <2>1, SamePeriods, SameBought DEF Promise!Grant, Mapped
<1>. QED
  BY <1>8, <1>9

LEMMA StartStep ==
    ASSUME IInv, NEW id \in DOMAIN subs, subs[id].status \in {"ready", "queued"},
           IndexAdmits(UserOf(id)), SetActive(id)
    PROVE  Promise!Start(id)
<1>1. id \in BoughtPeriods /\ UserOf(id) \in Users
  BY BoughtIsRow, PurchaseAssumption DEF UserOf
<1>2. Mapped[id] = "held"
  BY <1>1 DEF Mapped, PeriodState
<1>3. Promise!InUse(UserOf(id)) = {}
  BY <1>1, InUseIsActive DEF IndexAdmits
<1>4. /\ DOMAIN subs' = DOMAIN subs
      /\ subs'[id].status = "active" /\ ~subs'[id].lapsed
      /\ \A other \in DOMAIN subs : other # id => subs'[other] = subs[other]
  BY DEF SetActive, IInv, TypeOK
<1>5. PeriodState(id)' = "running"
  BY <1>4 DEF PeriodState
<1>6. ASSUME NEW q \in BoughtPeriods, q # id
      PROVE  PeriodState(q)' = PeriodState(q)
  <2>1. CASE q \in DOMAIN subs
    BY <2>1, <1>4, <1>6 DEF PeriodState
  <2>2. CASE q \notin DOMAIN subs
    BY <2>2, <1>4 DEF PeriodState
  <2>. QED
    BY <2>1, <2>2
<1>7. Mapped' = [Mapped EXCEPT ![id] = "running"]
  BY <1>1, <1>5, <1>6 DEF Mapped, BoughtPeriods
<1>. QED
  BY <1>2, <1>3, <1>7 DEF Promise!Start, Mapped, UserOf

LEMMA EndStep ==
    ASSUME IInv, NEW s, SweepExpire(s)
    PROVE  Promise!End(Lapsed) /\ Lapsed \in SUBSET BoughtPeriods
<1>1. /\ Lapsed \subseteq DOMAIN subs /\ Lapsed \subseteq BoughtPeriods
      /\ \A id \in Lapsed : subs[id].status = "active" /\ subs[id].lapsed
  BY BoughtIsRow DEF Lapsed
<1>2. \A id \in Lapsed : Mapped[id] = "due"
  BY <1>1 DEF Mapped, PeriodState
<1>3. /\ DOMAIN subs' = DOMAIN subs
      /\ \A id \in DOMAIN subs \ Lapsed : subs'[id] = subs[id]
  BY DEF SweepExpire
<1>4. ASSUME NEW id \in Lapsed PROVE subs'[id].status = "expired"
  <2>1. subs[id] \in Row
    BY <1>1 DEF IInv, TypeOK
  <2>. QED
    BY <1>1, <2>1 DEF SweepExpire, Row
<1>5. \A id \in Lapsed : PeriodState(id)' = "over"
  BY <1>1, <1>3, <1>4 DEF PeriodState
<1>6. ASSUME NEW id \in BoughtPeriods, id \notin Lapsed
      PROVE  PeriodState(id)' = PeriodState(id)
  <2>1. CASE id \in DOMAIN subs
    BY <2>1, <1>3, <1>6 DEF PeriodState
  <2>2. CASE id \notin DOMAIN subs
    BY <2>2, <1>3 DEF PeriodState
  <2>. QED
    BY <2>1, <2>2
<1>7. Mapped' = [q \in BoughtPeriods |-> IF q \in Lapsed THEN "over" ELSE Mapped[q]]
  BY <1>5, <1>6 DEF Mapped, BoughtPeriods
<1>. QED
  BY <1>1, <1>2, <1>7, SamePeriods DEF Promise!End, Mapped

\* The clock passes the end of a period.
LEMMA DueStep ==
    ASSUME IInv, NEW id \in DOMAIN subs, Lapse(id)
    PROVE  Promise!ComesDue(id) /\ id \in BoughtPeriods
<1>1. subs \in [DOMAIN subs -> Row] /\ subs[id] \in Row /\ id \in BoughtPeriods
  BY BoughtIsRow DEF IInv, TypeOK
<1>2. PICK row : row = [subs[id] EXCEPT !.lapsed = TRUE]
  OBVIOUS
<1>3. row.status = "active" /\ row.lapsed = TRUE
  BY <1>1, <1>2 DEF Lapse, Row
<1>4. subs' = [subs EXCEPT ![id] = row]
  BY <1>1, <1>2 DEF Lapse
<1>5. /\ DOMAIN subs' = DOMAIN subs /\ subs'[id].status = "active" /\ subs'[id].lapsed
      /\ \A other \in DOMAIN subs : other # id => subs'[other] = subs[other]
  BY <1>1, <1>3, <1>4
<1>6. PeriodState(id)' = "due"
  BY <1>5 DEF PeriodState
<1>7. ASSUME NEW q \in BoughtPeriods, q # id
      PROVE  PeriodState(q)' = PeriodState(q)
  <2>1. CASE q \in DOMAIN subs
    BY <2>1, <1>5, <1>7 DEF PeriodState
  <2>2. CASE q \notin DOMAIN subs
    BY <2>2, <1>5 DEF PeriodState
  <2>. QED
    BY <2>1, <2>2
<1>8. Mapped[id] = "running"
  BY <1>1 DEF Mapped, PeriodState, Lapse
<1>9. Mapped' = [Mapped EXCEPT ![id] = "due"]
  BY <1>1, <1>6, <1>7 DEF Mapped, BoughtPeriods
<1>. QED
  BY <1>1, <1>8, <1>9 DEF Promise!ComesDue, Mapped

\* Steps that change no row change nothing of the promise.
LEMMA StutterStep ==
    ASSUME subs' = subs
    PROVE  Mapped' = Mapped
<1>1. ASSUME NEW id \in BoughtPeriods PROVE PeriodState(id)' = PeriodState(id)
  BY DEF PeriodState
<1>. QED
  BY <1>1 DEF Mapped, BoughtPeriods

LEMMA NextRefines == IInv /\ [Next]_vars => [Promise!Next]_Mapped
<1>. SUFFICES ASSUME IInv, [Next]_vars PROVE Promise!Next \/ Mapped' = Mapped
  OBVIOUS
<1>1. CASE UNCHANGED subs
  BY <1>1, StutterStep
<1>2. ASSUME NEW c \in Confirmers, MintStep(c)
      PROVE  Promise!Next \/ UNCHANGED subs
  <2>1. ASSUME NEW first \in {"ready", "active", "queued"}, NEW rest \in {"ready", "queued"},
               Insert(tx[c].payment, first, rest), tx[c].pc # "idle",
               RowsOf(tx[c].payment) = {},
               first = "active" => IndexAdmits(Owner[tx[c].payment])
        PROVE  Promise!Next
    <3>1. PICK p \in Payments : p = tx[c].payment
      BY <2>1 DEF IInv, TxInv
    <3>2. /\ Insert(p, first, rest) /\ RowsOf(p) = {}
          /\ first = "active" => IndexAdmits(Owner[p])
      BY <2>1, <3>1 DEF Insert, NewIds, FirstId, RowsOf, IndexAdmits, Holding
    <3>3. Promise!Grant(p)
      BY <3>2, GrantStep
    <3>. QED
      BY <3>3 DEF Promise!Next
  <2>2. CASE MintCredits(c)
    BY <2>1, <2>2 DEF MintCredits, AlreadyMinted
  <2>3. CASE MintBehind(c)
    BY <2>1, <2>3 DEF MintBehind, IInv, TxInv
  <2>4. CASE MintStart(c)
    BY <2>1, <2>4 DEF MintStart, IInv, TxInv
  <2>. QED
    BY <1>2, <2>2, <2>3, <2>4 DEF MintStep, MintBegin, MintSkip, MintCheck,
       MintReadActive, MintReadQueued, MintConflict
<1>3. ASSUME NEW id \in DOMAIN subs, subs[id].status \in {"ready", "queued"},
             IndexAdmits(UserOf(id)), SetActive(id)
      PROVE  Promise!Next
  <2>1. Promise!Start(id) /\ id \in BoughtPeriods
    BY <1>3, StartStep, BoughtIsRow
  <2>. QED
    BY <2>1, SamePeriods DEF Promise!Next
<1>4. ASSUME NEW a \in Activators, ActivateSpend(a)
      PROVE  Promise!Next
  <2>1. PICK id \in DOMAIN subs : id = request[a].credit
    BY <1>4 DEF ActivateSpend, IInv, CarriedIds
  <2>2. SetActive(id) /\ IndexAdmits(UserOf(id)) /\ subs[id].status = "ready"
    BY <2>1, <1>4 DEF ActivateSpend, SetActive, IndexAdmits, Holding, UserOf
  <2>. QED
    BY <1>3, <2>2
<1>5. ASSUME NEW s \in Sweepers, Promote(s)
      PROVE  Promise!Next
  <2>1. PICK id \in DOMAIN subs : id = sweep[s].next
    BY <1>5 DEF Promote, IInv, CarriedIds
  <2>2. SetActive(id) /\ IndexAdmits(UserOf(id)) /\ subs[id].status = "queued"
    BY <2>1, <1>5 DEF Promote, SetActive, IndexAdmits, Holding, UserOf, StillQueued
  <2>. QED
    BY <1>3, <2>2
<1>6. ASSUME NEW s \in Sweepers, SweepExpire(s)
      PROVE  Promise!Next
  <2>1. PICK over \in SUBSET BoughtPeriods : over = Lapsed
    BY <1>6, EndStep
  <2>2. Promise!End(over)
    BY <1>6, <2>1, EndStep DEF Promise!End
  <2>. QED
    BY <2>2, SamePeriods DEF Promise!Next
<1>7. ASSUME NEW id \in DOMAIN subs, Lapse(id)
      PROVE  Promise!Next
  <2>1. Promise!ComesDue(id) /\ id \in BoughtPeriods
    BY <1>7, DueStep
  <2>. QED
    BY <2>1, SamePeriods DEF Promise!Next
<1>8. CASE \E a \in Activators : ActivateStep(a)
  BY <1>1, <1>4, <1>8 DEF ActivateStep, ActivateRead, ActivateCheck, ActivateUsed,
     ActivateConflict
<1>9. CASE \E s \in Sweepers : SweepStep(s)
  BY <1>1, <1>5, <1>6, <1>9 DEF SweepStep, SweepWaiting, PromotePick, PromoteFails,
     SweepBuild, SweepNotify, SweepDone
<1>10. CASE Crash \/ UNCHANGED vars
  BY <1>1, <1>10 DEF Crash, TxDies, RequestDies, SweepDies, Dies, vars
<1>. QED
  BY <1>1, <1>2, <1>7, <1>8, <1>9, <1>10 DEF Next

LEMMA InitPromised == Init => Promise!Init
  BY SamePeriods DEF Init, Promise!Init, PeriodState

\* The tables keep the promise of Entitlements: each purchase is granted whole
\* and once, and a buyer's periods run one at a time, each of them once.
THEOREM Refinement == Spec => KeepsPromise
<1>1. Init => Promise!Init
  BY InitPromised
<1>2. IInv /\ [Next]_vars => [Promise!Next]_Mapped
  BY NextRefines
<1>. QED
  BY <1>1, <1>2, Inductive, PTL DEF Spec, KeepsPromise, Promise!Spec, Mapped
=============================================================================
