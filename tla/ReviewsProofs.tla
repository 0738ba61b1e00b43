---------------------------- MODULE ReviewsProofs ---------------------------
(***************************************************************************)
(* Reviews, for any bookings and any number of submits, removals and dying *)
(* processes: nobody can answer a review he has read, and two submits at   *)
(* once do not miss each other.                                            *)
(*                                                                         *)
(* The first needs that a window, once closed, is not opened again, which  *)
(* rests on the bookings underneath: a booking the trigger has still to    *)
(* stamp is completed and its window unset, and completed is final.  It    *)
(* also needs that what the two publishing updates have selected is still  *)
(* true when they run.  The second needs to know who will publish a pair   *)
(* that is complete and not yet visible: the handler that inserted last.   *)
(***************************************************************************)
EXTENDS Reviews, BookingsProofs

HandlerState == [pc : {"idle", "insert", "pair", "publish", "rate", "write"},
                 booking : Bookings \cup {NoBooking}, role : Roles \cup {"none"},
                 about : SUBSET Roles, target : Roles \cup {"none"}, seen : SUBSET Bookings]
RunState == [pc : {"idle", "send", "publish", "rate", "write"}, todo : SUBSET Bookings,
             about : SUBSET Roles, target : Roles \cup {"none"}, seen : SUBSET Bookings]

ReviewTypes ==
    /\ review \in [Reviews -> {"none", "hidden", "visible"}]
    /\ window \in [Bookings -> {"unset", "open", "closed"}]
    /\ rating \in [Roles -> SUBSET Bookings]
    /\ handler \in [Handlers -> HandlerState]
    /\ trigger \in RunState /\ unlock \in RunState
    /\ removed \subseteq Reviews

\* Both parties have written.
Both(b) == \A id \in Pair(b) : review[id] # "none"

\* A window is only set for a completed booking, and once.
Windows ==
    /\ \A b \in Bookings : window[b] # "unset" => booking[b] = "completed"
    /\ \A b \in trigger.todo : window[b] = "unset" /\ booking[b] = "completed"

\* What a publishing update has selected by.
Selected ==
    /\ \A w \in Handlers : handler[w].pc # "idle" => handler[w].booking \in Bookings
    /\ \A w \in Handlers : handler[w].pc = "insert" => handler[w].role \in Roles
    /\ \A w \in Handlers : handler[w].pc = "publish" => Both(handler[w].booking)
    /\ unlock.pc = "publish" => \A b \in unlock.todo : window[b] = "closed"

Settled(b) == \A id \in Pair(b) : review[id] = "visible" \/ id \in removed

\* Somebody is about to look at the pair, or to publish it.
Tended(b) == \E w \in Handlers : handler[w].booking = b /\ handler[w].pc \in {"pair", "publish"}

PairTended == \A b \in Bookings : Both(b) /\ deaths = 0 => Settled(b) \/ Tended(b)

Unanswerable == \A b \in Bookings :
    (\E id \in Pair(b) : review[id] = "visible") => Both(b) \/ window[b] = "closed"

ReviewInv == ReviewTypes /\ Windows /\ Selected /\ PairTended /\ Unanswerable

-----------------------------------------------------------------------------
LEMMA Pairs ==
    ASSUME NEW b \in Bookings
    PROVE  /\ Pair(b) \subseteq Reviews
           /\ \A id \in Reviews : id \in Pair(b) <=> id[1] = b
           /\ \A role \in Roles : <<b, role>> \in Pair(b)
  BY DEF Pair, Reviews, Roles

LEMMA ReviewsInitially == Init => ReviewInv
  <1> SUFFICES ASSUME Init
               PROVE  ReviewInv
    OBVIOUS
  <1>1. Free \in HandlerState /\ Free.pc = "idle" /\ NoRun \in RunState /\ NoRun.todo = {} /\ NoRun.pc = "idle"
    BY DEF Free, HandlerState, NoRun, RunState
  <1>2. ReviewTypes
    BY <1>1 DEF Init, ReviewInit, ReviewTypes
  <1>3. Windows /\ Selected
    BY <1>1 DEF Init, ReviewInit, Windows, Selected
  <1>4. ASSUME NEW b \in Bookings
        PROVE  ~Both(b) /\ \A id \in Pair(b) : review[id] # "visible"
    <2>1. <<b, "artist">> \in Pair(b) /\ Pair(b) \subseteq Reviews
      BY Pairs DEF Roles
    <2> QED BY <2>1 DEF Init, ReviewInit, Both
  <1>5. PairTended /\ Unanswerable
    BY <1>4 DEF PairTended, Unanswerable
  <1> QED BY <1>2, <1>3, <1>5 DEF ReviewInv

\* A step in which no review is written and no handler moves.
LEMMA Quiet ==
    ASSUME ReviewInv, UNCHANGED <<review, handler, removed>>, deaths' = 0 => deaths = 0,
           \A b \in Bookings : window[b] = "closed" => window'[b] = "closed"
    PROVE  PairTended' /\ Unanswerable'
  BY DEF ReviewInv, PairTended, Unanswerable, Both, Settled, Tended

\* A handler steps on.  It may write reviews: none is unwritten again, what was
\* settled stays so, and only a pair that is complete or a window that is over
\* makes one visible.  A pair that it completes or was tending is left settled
\* or in its care.
LEMMA OneHandler ==
    ASSUME ReviewInv, NEW w \in Handlers, NEW x \in HandlerState,
           handler' = [handler EXCEPT ![w] = x],
           x.pc # "idle" => x.booking \in Bookings,
           x.pc = "insert" => x.role \in Roles,
           x.pc = "publish" => Both(x.booking)',
           review' \in [Reviews -> {"none", "hidden", "visible"}],
           \A id \in Reviews : review[id] # "none" => review'[id] # "none",
           \A b \in Bookings : Settled(b) => Settled(b)',
           \A id \in Reviews : review'[id] = "visible" =>
               review[id] = "visible" \/ Both(id[1])' \/ window[id[1]] = "closed",
           \A b \in Bookings :
               /\ Both(b)'
               /\ ~Both(b) \/ (handler[w].booking = b /\ handler[w].pc \in {"pair", "publish"})
               => Settled(b)' \/ (x.booking = b /\ x.pc \in {"pair", "publish"}),
           removed' \subseteq Reviews, rating' \in [Roles -> SUBSET Bookings],
           UNCHANGED <<bookingVars, window, trigger, unlock>>
    PROVE  ReviewInv'
  <1>1. \A v \in Handlers : handler'[v] = IF v = w THEN x ELSE handler[v]
    BY DEF ReviewInv, ReviewTypes
  <1>2. ReviewTypes'
    BY DEF ReviewInv, ReviewTypes
  <1>3. Windows'
    BY DEF ReviewInv, Windows, bookingVars
  <1>4. \A b \in Bookings : Both(b) => Both(b)'
    BY Pairs DEF Both
  <1>5. Selected'
    <2>1. ASSUME NEW v \in Handlers, handler'[v].pc = "publish"
          PROVE  Both(handler[v].booking)'
      <3>1. PICK b : b = handler'[v].booking
        OBVIOUS
      <3>2. Both(b)'
        <4>1. CASE v = w
          BY <1>1, <2>1, <3>1, <4>1
        <4>2. CASE v # w
          BY <1>1, <1>4, <2>1, <3>1, <4>2 DEF ReviewInv, Selected
        <4> QED BY <4>1, <4>2
      <3> QED BY <3>1, <3>2 DEF Both
    <2>2. \A v \in Handlers : /\ handler'[v].pc # "idle" => handler'[v].booking \in Bookings
                              /\ handler'[v].pc = "insert" => handler'[v].role \in Roles
      BY <1>1 DEF ReviewInv, Selected
    <2>3. unlock'.pc = "publish" => \A b \in unlock'.todo : window'[b] = "closed"
      BY DEF ReviewInv, Selected
    <2> QED BY <2>1, <2>2, <2>3 DEF Selected
  <1>6. PairTended'
    <2> SUFFICES ASSUME NEW b \in Bookings, Both(b)', deaths = 0, ~Settled(b)'
                 PROVE  Tended(b)'
      BY DEF PairTended, bookingVars
    <2>1. CASE x.booking = b /\ x.pc \in {"pair", "publish"}
      BY <1>1, <2>1 DEF Tended
    <2>2. CASE ~(x.booking = b /\ x.pc \in {"pair", "publish"})
      <3>1. Both(b) /\ ~(handler[w].booking = b /\ handler[w].pc \in {"pair", "publish"})
        BY <2>2
      <3>2. Tended(b)
        BY <3>1 DEF ReviewInv, PairTended
      <3>3. PICK v \in Handlers : handler[v].booking = b /\ handler[v].pc \in {"pair", "publish"}
        BY <3>2 DEF Tended
      <3>4. handler'[v] = handler[v]
        BY <1>1, <3>1, <3>3
      <3> QED BY <3>3, <3>4 DEF Tended
    <2> QED BY <2>1, <2>2
  <1>7. Unanswerable'
    <2> SUFFICES ASSUME NEW b \in Bookings, NEW id \in Pair(b), review'[id] = "visible"
                 PROVE  Both(b)' \/ window[b] = "closed"
      BY DEF Unanswerable
    <2>1. id \in Reviews /\ id[1] = b
      BY Pairs
    <2>2. review[id] = "visible" => Both(b) \/ window[b] = "closed"
      BY DEF ReviewInv, Unanswerable
    <2> QED BY <1>4, <2>1, <2>2
  <1> QED BY <1>2, <1>3, <1>5, <1>6, <1>7 DEF ReviewInv

\* A handler that steps on without writing a review.
LEMMA HandlerOnly ==
    ASSUME ReviewInv, NEW w \in Handlers, NEW x \in HandlerState,
           handler' = [handler EXCEPT ![w] = x],
           x.pc # "idle" => x.booking \in Bookings,
           x.pc = "insert" => x.role \in Roles,
           x.pc = "publish" => Both(x.booking),
           handler[w].pc \in {"pair", "publish"} =>
               \/ x.booking = handler[w].booking /\ x.pc \in {"pair", "publish"}
               \/ ~Both(handler[w].booking),
           UNCHANGED <<review, removed>>, rating' \in [Roles -> SUBSET Bookings],
           UNCHANGED <<bookingVars, window, trigger, unlock>>
    PROVE  ReviewInv'
  <1>1. \A b : (Both(b)' <=> Both(b)) /\ (Settled(b)' <=> Settled(b))
    BY DEF Both, Settled
  <1>2. review' \in [Reviews -> {"none", "hidden", "visible"}] /\ removed' \subseteq Reviews
    BY DEF ReviewInv, ReviewTypes
  <1> QED BY <1>1, <1>2, OneHandler

-----------------------------------------------------------------------------
\* The handlers.

LEMMA SubmitCheckStep ==
    ASSUME ReviewInv, NEW w \in Handlers, NEW id \in Reviews, SubmitCheck(w, id[1], id[2])
    PROVE  ReviewInv'
  <1>1. PICK x : x = [Free EXCEPT !.pc = "insert", !.booking = id[1], !.role = id[2]]
    OBVIOUS
  <1>2. id[1] \in Bookings /\ id[2] \in Roles
    BY DEF Reviews
  <1>3. x \in HandlerState /\ x.pc = "insert" /\ x.booking = id[1] /\ x.role = id[2]
    BY <1>1, <1>2 DEF Free, HandlerState
  <1>4. handler' = [handler EXCEPT ![w] = x] /\ handler[w].pc = "idle"
    BY <1>1 DEF SubmitCheck, Free
  <1>5. rating' \in [Roles -> SUBSET Bookings]
    BY DEF SubmitCheck, ReviewInv, ReviewTypes
  <1> QED BY <1>2, <1>3, <1>4, <1>5, HandlerOnly DEF SubmitCheck

LEMMA SubmitInsertStep ==
    ASSUME ReviewInv, NEW w \in Handlers, SubmitInsert(w)
    PROVE  ReviewInv'
  <1>1. PICK b, role : b = handler[w].booking /\ role = handler[w].role
    OBVIOUS
  <1>2. /\ handler[w] \in HandlerState /\ handler[w].pc = "insert"
        /\ b \in Bookings /\ role \in Roles
    BY <1>1 DEF SubmitInsert, ReviewInv, ReviewTypes, Selected
  <1>3. rating' \in [Roles -> SUBSET Bookings] /\ removed' \subseteq Reviews
    BY DEF SubmitInsert, ReviewInv, ReviewTypes
  <1>4. PICK id : id = <<b, role>>
    OBVIOUS
  <1>5. id \in Reviews /\ id[1] = b
    BY <1>2, <1>4 DEF Reviews
  <1>6. CASE review[id] = "none" /\ review' = [review EXCEPT ![id] = "hidden"]
             /\ handler' = [handler EXCEPT ![w].pc = "pair", ![w].role = "none"]
    <2>1. PICK x : x = [handler[w] EXCEPT !.pc = "pair", !.role = "none"]
      OBVIOUS
    <2>2. x \in HandlerState /\ x.pc = "pair" /\ x.booking = b
      BY <1>1, <1>2, <2>1 DEF HandlerState
    <2>3. handler' = [handler EXCEPT ![w] = x]
      BY <1>6, <2>1 DEF ReviewInv, ReviewTypes
    <2>4. /\ review' \in [Reviews -> {"none", "hidden", "visible"}]
          /\ \A i \in Reviews : review'[i] = IF i = id THEN "hidden" ELSE review[i]
      BY <1>5, <1>6 DEF ReviewInv, ReviewTypes
    <2>5. ASSUME NEW c \in Bookings, Settled(c) PROVE Settled(c)'
      <3>1. \A i \in Pair(c) : i \in Reviews /\ (review[i] = "visible" \/ i \in removed)
        BY <2>5, Pairs DEF Settled
      <3> QED BY <1>6, <2>4, <3>1 DEF Settled, SubmitInsert
    <2>6. ASSUME NEW c \in Bookings, Both(c)', ~Both(c) PROVE c = b
      <3>1. PICK i \in Pair(c) : review[i] = "none"
        BY <2>6 DEF Both
      <3>2. i \in Reviews /\ i[1] = c /\ review'[i] # "none"
        BY <2>6, <3>1, Pairs DEF Both
      <3> QED BY <1>5, <2>4, <3>1, <3>2
    <2> QED BY <1>2, <1>3, <1>6, <2>2, <2>3, <2>4, <2>5, <2>6, OneHandler DEF SubmitInsert
  <1>7. CASE handler' = [handler EXCEPT ![w] = Free] /\ UNCHANGED review
    <2>1. Free \in HandlerState /\ Free.pc = "idle"
      BY DEF Free, HandlerState
    <2> QED BY <1>2, <1>3, <1>7, <2>1, HandlerOnly DEF SubmitInsert
  <1> QED BY <1>1, <1>4, <1>6, <1>7 DEF SubmitInsert

LEMMA PairReadStep ==
    ASSUME ReviewInv, NEW w \in Handlers, PairRead(w)
    PROVE  ReviewInv'
  <1>1. PICK b : b = handler[w].booking
    OBVIOUS
  <1>2. handler[w] \in HandlerState /\ handler[w].pc = "pair" /\ b \in Bookings
    BY <1>1 DEF PairRead, ReviewInv, ReviewTypes, Selected
  <1>3. rating' \in [Roles -> SUBSET Bookings]
    BY DEF PairRead, ReviewInv, ReviewTypes
  <1>4. Submitted(b) = Pair(b) <=> Both(b)
    BY DEF Submitted, Both
  <1>5. CASE Both(b)
    <2>1. PICK x : x = [handler[w] EXCEPT !.pc = "publish"]
      OBVIOUS
    <2>2. x \in HandlerState /\ x.pc = "publish" /\ x.booking = b
      BY <1>1, <1>2, <2>1 DEF HandlerState
    <2>3. handler' = [handler EXCEPT ![w] = x]
      BY <1>1, <1>4, <1>5, <2>1 DEF PairRead, ReviewInv, ReviewTypes
    <2> QED BY <1>1, <1>2, <1>3, <1>5, <2>2, <2>3, HandlerOnly DEF PairRead
  <1>6. CASE ~Both(b)
    <2>1. Free \in HandlerState /\ Free.pc = "idle"
      BY DEF Free, HandlerState
    <2>2. handler' = [handler EXCEPT ![w] = Free]
      BY <1>1, <1>4, <1>6 DEF PairRead, ReviewInv, ReviewTypes
    <2> QED BY <1>1, <1>3, <1>6, <2>1, <2>2, HandlerOnly DEF PairRead
  <1> QED BY <1>5, <1>6

LEMMA PairPublishStep ==
    ASSUME ReviewInv, NEW w \in Handlers, PairPublish(w)
    PROVE  ReviewInv'
  <1>1. PICK b : b = handler[w].booking
    OBVIOUS
  <1>2. handler[w] \in HandlerState /\ handler[w].pc = "publish" /\ b \in Bookings /\ Both(b)
    BY <1>1 DEF PairPublish, ReviewInv, ReviewTypes, Selected
  <1>3. rating' \in [Roles -> SUBSET Bookings] /\ removed' \subseteq Reviews /\ removed' = removed
    BY DEF PairPublish, ReviewInv, ReviewTypes
  <1>4. PICK x : x = [handler[w] EXCEPT !.pc = "rate", !.about = Roles]
    OBVIOUS
  <1>5. x \in HandlerState /\ x.pc = "rate" /\ x.booking = b
    BY <1>1, <1>2, <1>4 DEF HandlerState
  <1>6. handler' = [handler EXCEPT ![w] = x]
    BY <1>4 DEF PairPublish, ReviewInv, ReviewTypes
  <1>7. \A i \in Reviews : review'[i] = IF i \in Pair(b) THEN "visible" ELSE review[i]
    BY <1>1 DEF PairPublish
  <1>8. review' \in [Reviews -> {"none", "hidden", "visible"}]
    BY DEF PairPublish, ReviewInv, ReviewTypes
  <1>9. ASSUME NEW c \in Bookings, Settled(c) PROVE Settled(c)'
    <2>1. \A i \in Pair(c) : i \in Reviews /\ (review[i] = "visible" \/ i \in removed)
      BY <1>9, Pairs DEF Settled
    <2> QED BY <1>3, <1>7, <2>1 DEF Settled
  <1>10. ASSUME NEW c \in Bookings, Both(c)', ~Both(c) PROVE FALSE
    <2>1. PICK i \in Pair(c) : review[i] = "none"
      BY <1>10 DEF Both
    <2>2. i \in Reviews /\ i \notin Pair(b)
      BY <1>2, <2>1, Pairs DEF Both
    <2> QED BY <1>7, <1>10, <2>1, <2>2 DEF Both
  <1>11. Settled(b)' /\ Both(b)'
    BY <1>2, <1>7, Pairs DEF Settled, Both
  <1>12. \A i \in Reviews : review'[i] = "visible" => review[i] = "visible" \/ Both(i[1])'
    <2> SUFFICES ASSUME NEW i \in Reviews, review'[i] = "visible", review[i] # "visible"
                 PROVE  Both(i[1])'
      OBVIOUS
    <2>1. i \in Pair(b)
      BY <1>7
    <2>2. i[1] = b
      BY <1>2, <2>1, Pairs
    <2> QED BY <1>11, <2>2
  <1>13. \A i \in Reviews : review[i] # "none" => review'[i] # "none"
    BY <1>7
  <1>14. \A c \in Bookings :
             /\ Both(c)'
             /\ ~Both(c) \/ (handler[w].booking = c /\ handler[w].pc \in {"pair", "publish"})
             => Settled(c)' \/ (x.booking = c /\ x.pc \in {"pair", "publish"})
    BY <1>1, <1>10, <1>11
  <1>15. UNCHANGED <<bookingVars, window, trigger, unlock>>
    BY DEF PairPublish
  <1> QED BY <1>2, <1>3, <1>5, <1>6, <1>8, <1>9, <1>12, <1>13, <1>14, <1>15, OneHandler

LEMMA AdminRemoveStep ==
    ASSUME ReviewInv, NEW w \in Handlers, NEW id \in Reviews, AdminRemove(w, id)
    PROVE  ReviewInv'
  <1>1. PICK x : x = [Free EXCEPT !.pc = "rate", !.booking = id[1], !.about = {About(id[2])}]
    OBVIOUS
  <1>2. id[1] \in Bookings /\ About(id[2]) \in Roles
    BY DEF Reviews, About, Roles
  <1>3. x \in HandlerState /\ x.pc = "rate" /\ x.booking = id[1]
    BY <1>1, <1>2 DEF Free, HandlerState
  <1>4. /\ handler' = [handler EXCEPT ![w] = x] /\ handler[w].pc = "idle"
        /\ review[id] # "none" /\ removed' = removed \cup {id}
        /\ UNCHANGED <<bookingVars, window, rating, trigger, unlock>>
    BY <1>1 DEF AdminRemove, Free
  <1>5. /\ review' \in [Reviews -> {"none", "hidden", "visible"}]
        /\ \A i \in Reviews : review'[i] = IF i = id THEN "hidden" ELSE review[i]
    BY DEF AdminRemove, ReviewInv, ReviewTypes
  <1>6. rating' \in [Roles -> SUBSET Bookings] /\ removed' \subseteq Reviews
    BY <1>4 DEF ReviewInv, ReviewTypes
  <1>7. ASSUME NEW c \in Bookings, Settled(c) PROVE Settled(c)'
    <2>1. \A i \in Pair(c) : i \in Reviews /\ (review[i] = "visible" \/ i \in removed)
      BY <1>7, Pairs DEF Settled
    <2> QED BY <1>4, <1>5, <2>1 DEF Settled
  <1>8. ASSUME NEW c \in Bookings, Both(c)', ~Both(c) PROVE FALSE
    <2>1. PICK i \in Pair(c) : review[i] = "none"
      BY <1>8 DEF Both
    <2>2. i \in Reviews /\ review'[i] = "none"
      BY <1>4, <1>5, <2>1, Pairs
    <2> QED BY <1>8, <2>1, <2>2 DEF Both
  <1>9. /\ \A i \in Reviews : review[i] # "none" => review'[i] # "none"
        /\ \A i \in Reviews : review'[i] = "visible" => review[i] = "visible"
    BY <1>5
  <1>10. /\ x.pc # "idle" => x.booking \in Bookings
         /\ x.pc # "insert" /\ x.pc # "publish" /\ handler[w].pc \notin {"pair", "publish"}
    BY <1>2, <1>3, <1>4
  <1>11. /\ review' \in [Reviews -> {"none", "hidden", "visible"}]
         /\ handler' = [handler EXCEPT ![w] = x]
         /\ UNCHANGED <<bookingVars, window, trigger, unlock>>
    BY <1>4, <1>5
  <1>12. \A c \in Bookings :
             /\ Both(c)'
             /\ ~Both(c) \/ (handler[w].booking = c /\ handler[w].pc \in {"pair", "publish"})
             => Settled(c)' \/ (x.booking = c /\ x.pc \in {"pair", "publish"})
    BY <1>8, <1>10
  <1> QED BY <1>3, <1>6, <1>7, <1>9, <1>10, <1>11, <1>12, OneHandler

\* The rating is read and written without looking at anything else.
LEMMA Rated ==
    ASSUME ReviewInv
    PROVE  /\ \A role \in Roles : Counted(role) \subseteq Bookings
           /\ \A w \in Handlers : RateWrite(handler[w]) => rating' \in [Roles -> SUBSET Bookings]
           /\ RateWrite(unlock) => rating' \in [Roles -> SUBSET Bookings]
  <1>1. \A w \in Handlers : handler[w].seen \in SUBSET Bookings
    BY DEF ReviewInv, ReviewTypes, HandlerState
  <1>2. unlock.seen \in SUBSET Bookings
    BY DEF ReviewInv, ReviewTypes, RunState
  <1> QED BY <1>1, <1>2 DEF Counted, RateWrite, ReviewInv, ReviewTypes

LEMMA HandlerRatesStep ==
    ASSUME ReviewInv, NEW w \in Handlers, HandlerRates(w)
    PROVE  ReviewInv'
  <1>1. handler[w] \in HandlerState /\ handler[w].pc \in {"rate", "write"}
        /\ handler[w].booking \in Bookings
    BY DEF HandlerRates, RateWrite, ReviewInv, ReviewTypes, Selected
  <1>2. ASSUME NEW role \in handler[w].about, handler' = [handler EXCEPT ![w] = RateRead(@, role)],
               UNCHANGED rating
        PROVE  ReviewInv'
    <2>1. PICK x : x = RateRead(handler[w], role)
      OBVIOUS
    <2>2. Counted(role) \subseteq Bookings /\ role \in Roles
      BY <1>1, Rated DEF HandlerState
    <2>3. x \in HandlerState /\ x.pc = "write" /\ x.booking = handler[w].booking
      BY <1>1, <2>1, <2>2 DEF RateRead, HandlerState
    <2>4. handler' = [handler EXCEPT ![w] = x]
      BY <1>2, <2>1 DEF ReviewInv, ReviewTypes
    <2>5. rating' \in [Roles -> SUBSET Bookings]
      BY <1>2 DEF ReviewInv, ReviewTypes
    <2> QED BY <1>1, <2>3, <2>4, <2>5, HandlerOnly DEF HandlerRates
  <1>3. CASE RateWrite(handler[w]) /\ handler' = [handler EXCEPT ![w] = AfterWrite(@, Free)]
    <2>1. PICK x : x = AfterWrite(handler[w], Free)
      OBVIOUS
    <2>2. x = Free \/ x = [handler[w] EXCEPT !.pc = "rate", !.target = "none", !.seen = {}]
      BY <2>1 DEF AfterWrite
    <2>3. x \in HandlerState /\ x.pc \in {"idle", "rate"} /\ (x.pc = "rate" => x.booking = handler[w].booking)
      <3>1. CASE x = Free
        BY <3>1 DEF Free, HandlerState
      <3>2. CASE x = [handler[w] EXCEPT !.pc = "rate", !.target = "none", !.seen = {}]
        BY <1>1, <3>2 DEF HandlerState
      <3> QED BY <2>2, <3>1, <3>2
    <2>4. handler' = [handler EXCEPT ![w] = x]
      BY <1>3, <2>1 DEF ReviewInv, ReviewTypes
    <2>5. rating' \in [Roles -> SUBSET Bookings]
      BY <1>3, Rated
    <2> QED BY <1>1, <2>3, <2>4, <2>5, HandlerOnly DEF HandlerRates
  <1> QED BY <1>2, <1>3 DEF HandlerRates

-----------------------------------------------------------------------------
\* The bookings underneath, and the three jobs.

\* ReviewInv reads nothing of a booking but whether it is completed.
LEMMA BookingsMove ==
    ASSUME IInv, ReviewInv, BookingStep, UNCHANGED reviewVars
    PROVE  ReviewInv'
  <1>1. UNCHANGED <<review, window, rating, handler, trigger, unlock, removed>>
    BY DEF reviewVars
  <1>2. \A b \in Bookings : booking[b] = "completed" => booking'[b] = "completed"
    BY FinalKept DEF Final
  <1>3. deaths' = 0 => deaths = 0
    <2>1. deaths \in Nat
      BY BookingAssumption DEF IInv, Types
    <2>2. deaths' = deaths \/ deaths' = deaths + 1
      BY DEF BookingStep, CreateCheckBlocks, Respond, Cancel, StartSwap, CreateCheckConflict,
             CreateInsert, Swap, Notify, RequestDies, SetBlock, DatePasses
    <2> QED BY <2>1, <2>2
  <1>4. ReviewTypes' /\ Selected'
    BY <1>1 DEF ReviewInv, ReviewTypes, Selected, Both
  <1>5. Windows'
    <2>1. trigger.todo \subseteq Bookings
      BY DEF ReviewInv, ReviewTypes, RunState
    <2> QED BY <1>1, <1>2, <2>1 DEF ReviewInv, Windows
  <1>6. PairTended' /\ Unanswerable'
    BY <1>1, <1>3, Quiet
  <1> QED BY <1>4, <1>5, <1>6 DEF ReviewInv

\* Until the trigger completes it, a booking is accepted: no window is set.
LEMMA TriggerCompleteStep ==
    ASSUME IInv, ReviewInv, TriggerComplete
    PROVE  ReviewInv'
  <1>1. /\ UNCHANGED <<review, window, rating, handler, unlock, removed, deaths>>
        /\ trigger' = [NoRun EXCEPT !.pc = "send", !.todo = Completable]
        /\ booking' = [b \in Bookings |-> IF b \in Completable THEN "completed" ELSE booking[b]]
    BY DEF TriggerComplete, Complete, MarkCompleted
  <1>2. Completable \subseteq Bookings /\ \A b \in Completable : booking[b] = "accepted"
    BY DEF Completable
  <1>3. trigger' \in RunState /\ trigger'.todo = Completable
    BY <1>1, <1>2 DEF NoRun, RunState
  <1>4. ReviewTypes' /\ Selected'
    BY <1>1, <1>3 DEF ReviewInv, ReviewTypes, Selected, Both
  <1>5. Windows'
    BY <1>1, <1>2, <1>3 DEF ReviewInv, ReviewTypes, Windows
  <1>6. PairTended' /\ Unanswerable'
    BY <1>1, Quiet
  <1> QED BY <1>4, <1>5, <1>6 DEF ReviewInv

LEMMA TriggerStampStep ==
    ASSUME ReviewInv, NEW b \in Bookings, TriggerStamp(b)
    PROVE  ReviewInv'
  <1>1. /\ b \in trigger.todo /\ window[b] = "unset" /\ booking[b] = "completed"
        /\ \A c \in Bookings : window'[c] = IF c = b THEN "open" ELSE window[c]
        /\ window' \in [Bookings -> {"unset", "open", "closed"}]
        /\ UNCHANGED <<review, rating, handler, unlock, removed, booking, deaths>>
    BY DEF TriggerStamp, ReviewInv, ReviewTypes, Windows, bookingVars
  <1>2. trigger' \in RunState /\ trigger'.todo = trigger.todo \ {b}
    <2>1. trigger \in RunState
      BY DEF ReviewInv, ReviewTypes
    <2>2. CASE trigger.todo = {b}
      <3>1. trigger' = NoRun
        BY <2>2 DEF TriggerStamp
      <3> QED BY <2>2, <3>1 DEF NoRun, RunState
    <2>3. CASE trigger.todo # {b}
      <3>1. trigger' = [trigger EXCEPT !.todo = trigger.todo \ {b}]
        BY <2>3 DEF TriggerStamp
      <3> QED BY <2>1, <3>1 DEF RunState
    <2> QED BY <2>2, <2>3
  <1>3. trigger.todo \subseteq Bookings
    BY DEF ReviewInv, ReviewTypes, RunState
  <1>4. ReviewTypes'
    BY <1>1, <1>2 DEF ReviewInv, ReviewTypes
  <1>5. Selected'
    <2>1. unlock'.pc = "publish" => \A c \in unlock'.todo : window'[c] = "closed"
      <3>1. unlock.todo \subseteq Bookings
        BY DEF ReviewInv, ReviewTypes, RunState
      <3> QED BY <1>1, <3>1 DEF ReviewInv, Selected
    <2> QED BY <1>1, <2>1 DEF ReviewInv, Selected, Both
  <1>6. Windows'
    BY <1>1, <1>2, <1>3 DEF ReviewInv, Windows
  <1>7. \A c \in Bookings : window[c] = "closed" => window'[c] = "closed"
    BY <1>1
  <1>8. PairTended' /\ Unanswerable'
    BY <1>1, <1>7, Quiet
  <1> QED BY <1>4, <1>5, <1>6, <1>8 DEF ReviewInv

LEMMA WindowClosesStep ==
    ASSUME ReviewInv, NEW b \in Bookings, WindowCloses(b)
    PROVE  ReviewInv'
  <1>1. /\ window[b] = "open"
        /\ \A c \in Bookings : window'[c] = IF c = b THEN "closed" ELSE window[c]
        /\ window' \in [Bookings -> {"unset", "open", "closed"}]
        /\ UNCHANGED <<review, rating, handler, trigger, unlock, removed, booking, deaths>>
    BY DEF WindowCloses, ReviewInv, ReviewTypes, bookingVars
  <1>2. trigger.todo \subseteq Bookings /\ unlock.todo \subseteq Bookings
    BY DEF ReviewInv, ReviewTypes, RunState
  <1>3. ReviewTypes'
    BY <1>1 DEF ReviewInv, ReviewTypes
  <1>4. Selected'
    BY <1>1, <1>2 DEF ReviewInv, Selected, Both
  <1>5. Windows'
    BY <1>1, <1>2 DEF ReviewInv, Windows
  <1>6. \A c \in Bookings : window[c] = "closed" => window'[c] = "closed"
    BY <1>1
  <1>7. PairTended' /\ Unanswerable'
    BY <1>1, <1>6, Quiet
  <1> QED BY <1>3, <1>4, <1>5, <1>7 DEF ReviewInv

-----------------------------------------------------------------------------
\* The unlock job works on bookings whose windows are closed.

LEMMA UnlockSelectStep ==
    ASSUME ReviewInv, UnlockSelect
    PROVE  ReviewInv'
  <1>1. /\ UNCHANGED <<review, window, rating, handler, trigger, removed, booking, deaths>>
        /\ unlock' = [NoRun EXCEPT !.pc = "publish", !.todo = Expired]
    BY DEF UnlockSelect, bookingVars
  <1>2. Expired \subseteq Bookings /\ \A b \in Expired : window[b] = "closed"
    BY DEF Expired
  <1>3. unlock' \in RunState /\ unlock'.todo = Expired
    BY <1>1, <1>2 DEF NoRun, RunState
  <1>4. ReviewTypes' /\ Windows'
    BY <1>1, <1>3 DEF ReviewInv, ReviewTypes, Windows
  <1>5. Selected'
    BY <1>1, <1>2, <1>3 DEF ReviewInv, Selected, Both
  <1>6. PairTended' /\ Unanswerable'
    BY <1>1, Quiet
  <1> QED BY <1>4, <1>5, <1>6 DEF ReviewInv

LEMMA UnlockPublishStep ==
    ASSUME ReviewInv, UnlockPublish
    PROVE  ReviewInv'
  <1>1. /\ UNCHANGED <<window, rating, handler, trigger, removed, booking, deaths>>
        /\ \A c \in unlock.todo : window[c] = "closed"
        /\ \A id \in Reviews : review'[id] =
               IF id[1] \in unlock.todo /\ review[id] = "hidden" THEN "visible" ELSE review[id]
    BY DEF UnlockPublish, ReviewInv, Selected, bookingVars
  <1>2. unlock'.pc = "rate" /\ unlock' \in RunState
    <2>1. unlock \in RunState
      BY DEF ReviewInv, ReviewTypes
    <2>2. \A id \in Reviews : About(id[2]) \in Roles
      BY DEF About, Reviews, Roles
    <2>3. {About(id[2]) : id \in {i \in Reviews : i[1] \in unlock.todo /\ review[i] # "none"}} \subseteq Roles
      BY <2>2
    <2> QED BY <2>1, <2>3 DEF UnlockPublish, RunState
  <1>3. ReviewTypes'
    <2>1. review' \in [Reviews -> {"none", "hidden", "visible"}]
      BY DEF UnlockPublish, ReviewInv, ReviewTypes
    <2> QED BY <1>1, <1>2, <2>1 DEF ReviewInv, ReviewTypes
  <1>4. Windows'
    BY <1>1 DEF ReviewInv, Windows
  <1>5. \A b \in Bookings : Both(b)' <=> Both(b)
    <2>1. \A id \in Reviews : review'[id] = "none" <=> review[id] = "none"
      BY <1>1
    <2> QED BY <2>1, Pairs DEF Both
  <1>6. Selected'
    <2>1. ASSUME NEW w \in Handlers, handler'[w].pc = "publish"
          PROVE  Both(handler[w].booking)'
      <3>1. PICK b : b = handler'[w].booking
        OBVIOUS
      <3>2. b \in Bookings /\ Both(b)
        BY <1>1, <2>1, <3>1 DEF ReviewInv, Selected
      <3>3. Both(b)'
        BY <1>5, <3>2
      <3> QED BY <1>1, <3>1, <3>3 DEF Both
    <2> QED BY <1>1, <1>2, <2>1 DEF ReviewInv, Selected
  <1>7. ASSUME NEW b \in Bookings, Settled(b) PROVE Settled(b)'
    <2>1. \A id \in Pair(b) : id \in Reviews /\ (review[id] = "visible" \/ id \in removed)
      BY <1>7, Pairs DEF Settled
    <2> QED BY <1>1, <2>1 DEF Settled
  <1>8. \A b : Tended(b)' <=> Tended(b)
    BY <1>1 DEF Tended
  <1>9. PairTended'
    BY <1>1, <1>5, <1>7, <1>8 DEF ReviewInv, PairTended
  <1>10. Unanswerable'
    <2> SUFFICES ASSUME NEW b \in Bookings, NEW id \in Pair(b), review'[id] = "visible"
                 PROVE  Both(b)' \/ window'[b] = "closed"
      BY DEF Unanswerable
    <2>1. id \in Reviews /\ id[1] = b
      BY Pairs
    <2>2. review[id] = "visible" => Both(b) \/ window[b] = "closed"
      BY DEF ReviewInv, Unanswerable
    <2> QED BY <1>1, <1>5, <2>1, <2>2
  <1> QED BY <1>3, <1>4, <1>6, <1>9, <1>10 DEF ReviewInv

LEMMA UnlockRatesStep ==
    ASSUME ReviewInv, UnlockRates
    PROVE  ReviewInv'
  <1>1. /\ UNCHANGED <<review, window, handler, trigger, removed, booking, deaths>>
        /\ unlock \in RunState /\ rating \in [Roles -> SUBSET Bookings]
    BY DEF UnlockRates, bookingVars, ReviewInv, ReviewTypes
  <1>2. unlock' \in RunState /\ unlock'.pc # "publish" /\ rating' \in [Roles -> SUBSET Bookings]
    <2>1. ASSUME NEW role \in unlock.about, unlock' = RateRead(unlock, role), UNCHANGED rating
          PROVE  unlock' \in RunState /\ unlock'.pc # "publish"
      <3>1. Counted(role) \subseteq Bookings /\ role \in Roles
        BY <1>1, Rated DEF RunState
      <3> QED BY <1>1, <2>1, <3>1 DEF RateRead, RunState
    <2>2. ASSUME RateWrite(unlock), unlock' = AfterWrite(unlock, NoRun)
          PROVE  unlock' \in RunState /\ unlock'.pc # "publish" /\ rating' \in [Roles -> SUBSET Bookings]
      <3>1. rating' \in [Roles -> SUBSET Bookings]
        BY <2>2, Rated
      <3>2. CASE unlock' = NoRun
        BY <3>1, <3>2 DEF NoRun, RunState
      <3>3. CASE unlock' = [unlock EXCEPT !.pc = "rate", !.target = "none", !.seen = {}]
        BY <1>1, <3>1, <3>3 DEF RunState
      <3> QED BY <2>2, <3>2, <3>3 DEF AfterWrite
    <2> QED BY <1>1, <2>1, <2>2 DEF UnlockRates
  <1>3. ReviewTypes'
    BY <1>1, <1>2 DEF ReviewInv, ReviewTypes
  <1>4. Windows' /\ Selected'
    BY <1>1, <1>2 DEF ReviewInv, Windows, Selected, Both
  <1>5. PairTended' /\ Unanswerable'
    BY <1>1, Quiet
  <1> QED BY <1>3, <1>4, <1>5 DEF ReviewInv

\* What dies leaves its rows as they are; it may be what was tending a pair.
LEMMA DiesStep ==
    ASSUME IInv, ReviewInv, Dies
    PROVE  IInv' /\ ReviewInv'
  <1>1. /\ UNCHANGED <<booking, blocked, past, request, told, review, window, rating, removed>>
        /\ deaths \in Nat /\ deaths' = deaths + 1 /\ deaths' \in 0..MaxDeaths
    BY BookingAssumption DEF Dies, IInv, Types
  <1>2. IInv'
    BY <1>1 DEF IInv, Types, Named, Unborn, Aimed, Sayable, Truth
  <1>3. Free \in HandlerState /\ Free.pc = "idle" /\ NoRun \in RunState /\ NoRun.todo = {} /\ NoRun.pc = "idle"
    BY DEF Free, HandlerState, NoRun, RunState
  <1>4. /\ handler' \in [Handlers -> HandlerState]
        /\ \A w \in Handlers : handler'[w] = handler[w] \/ handler'[w] = Free
    BY <1>3 DEF Dies, ReviewInv, ReviewTypes
  <1>5. trigger' \in {trigger, NoRun} /\ unlock' \in {unlock, NoRun}
    BY DEF Dies
  <1>6. ReviewTypes'
    BY <1>1, <1>3, <1>4, <1>5 DEF ReviewInv, ReviewTypes
  <1>7. Windows'
    BY <1>1, <1>3, <1>5 DEF ReviewInv, Windows
  <1>8. Selected'
    <2>1. \A w \in Handlers : handler'[w].pc # "idle" => handler'[w] = handler[w]
      BY <1>3, <1>4
    <2>2. \A b : Both(b)' <=> Both(b)
      BY <1>1 DEF Both
    <2>3. ASSUME NEW w \in Handlers, handler'[w].pc = "publish"
          PROVE  Both(handler[w].booking)'
      <3>1. PICK b : b = handler'[w].booking
        OBVIOUS
      <3>2. Both(b)
        BY <2>1, <2>3, <3>1 DEF ReviewInv, Selected
      <3> QED BY <2>2, <3>1, <3>2 DEF Both
    <2>4. unlock'.pc = "publish" => unlock' = unlock
      BY <1>3, <1>5
    <2> QED BY <1>1, <2>1, <2>3, <2>4 DEF ReviewInv, Selected
  <1>9. PairTended' /\ Unanswerable'
    BY <1>1 DEF PairTended, ReviewInv, Unanswerable, Both
  <1> QED BY <1>2, <1>6, <1>7, <1>8, <1>9 DEF ReviewInv

-----------------------------------------------------------------------------
LEMMA ReviewsInductive == IInv /\ ReviewInv /\ [Next]_vars => IInv' /\ ReviewInv'
  <1> SUFFICES ASSUME IInv, ReviewInv, [Next]_vars
               PROVE  IInv' /\ ReviewInv'
    OBVIOUS
  <1>1. ASSUME UNCHANGED bookingVars PROVE IInv'
    BY <1>1, Inductive
  <1>2. ASSUME BookingStep \/ Complete PROVE IInv'
    BY <1>2, Inductive
  <1>3. CASE BookingStep /\ UNCHANGED reviewVars
    BY <1>2, <1>3, BookingsMove
  <1>4. CASE TriggerComplete
    <2>1. Complete
      BY <1>4 DEF TriggerComplete
    <2> QED BY <1>2, <1>4, <2>1, TriggerCompleteStep
  <1>5. ASSUME NEW b \in Bookings, TriggerStamp(b)
        PROVE  IInv' /\ ReviewInv'
    BY <1>1, <1>5, TriggerStampStep DEF TriggerStamp
  <1>6. ASSUME NEW b \in Bookings, WindowCloses(b)
        PROVE  IInv' /\ ReviewInv'
    BY <1>1, <1>6, WindowClosesStep DEF WindowCloses
  <1>7. ASSUME NEW w \in Handlers, NEW id \in Reviews, SubmitCheck(w, id[1], id[2])
        PROVE  IInv' /\ ReviewInv'
    BY <1>1, <1>7, SubmitCheckStep DEF SubmitCheck
  <1>8. ASSUME NEW w \in Handlers, NEW id \in Reviews, AdminRemove(w, id)
        PROVE  IInv' /\ ReviewInv'
    BY <1>1, <1>8, AdminRemoveStep DEF AdminRemove
  <1>9. ASSUME NEW w \in Handlers, SubmitInsert(w)
        PROVE  IInv' /\ ReviewInv'
    BY <1>1, <1>9, SubmitInsertStep DEF SubmitInsert
  <1>10. ASSUME NEW w \in Handlers, PairRead(w)
         PROVE  IInv' /\ ReviewInv'
    BY <1>1, <1>10, PairReadStep DEF PairRead
  <1>11. ASSUME NEW w \in Handlers, PairPublish(w)
         PROVE  IInv' /\ ReviewInv'
    BY <1>1, <1>11, PairPublishStep DEF PairPublish
  <1>12. ASSUME NEW w \in Handlers, HandlerRates(w)
         PROVE  IInv' /\ ReviewInv'
    BY <1>1, <1>12, HandlerRatesStep DEF HandlerRates
  <1>13. CASE UnlockSelect
    BY <1>1, <1>13, UnlockSelectStep DEF UnlockSelect
  <1>14. CASE UnlockPublish
    BY <1>1, <1>14, UnlockPublishStep DEF UnlockPublish
  <1>15. CASE UnlockRates
    BY <1>1, <1>15, UnlockRatesStep DEF UnlockRates
  <1>16. CASE Dies
    BY <1>16, DiesStep
  <1>17. CASE UNCHANGED vars
    <2>1. UNCHANGED bookingVars /\ UNCHANGED <<review, window, rating, handler, trigger, unlock, removed, booking, deaths>>
      BY <1>17 DEF vars, reviewVars, bookingVars
    <2>2. ReviewTypes' /\ Windows' /\ Selected'
      BY <2>1 DEF ReviewInv, ReviewTypes, Windows, Selected, Both
    <2>3. PairTended' /\ Unanswerable'
      BY <2>1, Quiet
    <2> QED BY <1>1, <2>1, <2>2, <2>3 DEF ReviewInv
  <1> QED BY <1>3, <1>4, <1>5, <1>6, <1>7, <1>8, <1>9, <1>10, <1>11, <1>12, <1>13, <1>14, <1>15,
             <1>16, <1>17 DEF Next

\* Every state the bookings and their reviews can reach satisfies both
\* inductive invariants: the one of the proposals underneath (respond, cancel,
\* markCompletedBatch) and the one of submit, the trigger and the unlock job.
THEOREM ReviewsStandOnBookings == Spec => [](IInv /\ ReviewInv)
  <1>1. Init => IInv /\ ReviewInv
    BY Initially, ReviewsInitially DEF Init
  <1> QED BY <1>1, ReviewsInductive, PTL DEF Spec

\* The shape of the rows: what submit, the trigger, unlockExpiredReviews,
\* adminRemove and recalculateAggregate write.
THEOREM ReviewsHaveTheirShape == Spec => []TypeOK
  <1>1. IInv /\ ReviewInv => TypeOK
    BY DEF IInv, Types, Statuses, ReviewInv, ReviewTypes, TypeOK
  <1> QED BY <1>1, ReviewsStandOnBookings, PTL

\* Whatever submits, removals and jobs run at once, and wherever they die,
\* nobody can read the other party's review and then answer it: it is visible
\* only when both are written or when submit no longer takes his.
THEOREM NobodyAnswersAReview == Spec => []NoAnswering
  <1>1. \A b : Both(b) <=> Submitted(b) = Pair(b)
    BY DEF Both, Submitted
  <1>2. ReviewInv => NoAnswering
    BY <1>1 DEF ReviewInv, Unanswerable, NoAnswering
  <1> QED BY <1>2, ReviewsStandOnBookings, PTL

\* tryUnlockPair: of two submits at once, the one that inserts last sees both
\* reviews.  With nobody at work on it, a complete pair is visible, unless an
\* admin removed a part of it or a process died.
THEOREM CompletePairsArePublished == Spec => []PairIsPublished
  <1>1. ReviewInv => PairIsPublished
    <2> SUFFICES ASSUME ReviewInv, NEW b \in Bookings, Submitted(b) = Pair(b), deaths = 0,
                        \A w \in Handlers : handler[w].booking # b
                 PROVE  Settled(b)
      BY DEF PairIsPublished, Settled
    <2>1. Both(b) /\ ~Tended(b)
      BY DEF Both, Submitted, Tended
    <2> QED BY <2>1 DEF ReviewInv, PairTended
  <1> QED BY <1>1, ReviewsStandOnBookings, PTL

-----------------------------------------------------------------------------
(***************************************************************************)
(* The promises of DoubleBlind and of Engagement, in every state above.    *)
(***************************************************************************)

Over == {b \in Bookings : window[b] = "closed"}

\* An insert writes a review that was not there, or nothing.
LEMMA InsertWrites ==
    ASSUME ReviewInv, NEW w \in Handlers, SubmitInsert(w)
    PROVE  Sealed!Next \/ UNCHANGED <<review, Over>>
  <1>1. PICK id : id = <<handler[w].booking, handler[w].role>>
    OBVIOUS
  <1>2. id \in Sealed!Reviews
    BY <1>1 DEF SubmitInsert, ReviewInv, Selected, Sealed!Reviews
  <1>3. Over' = Over
    BY DEF SubmitInsert, Over
  <1>4. CASE review[id] = "none" /\ review' = [review EXCEPT ![id] = "hidden"]
    <2>1. Sealed!Write(id)
      BY <1>3, <1>4 DEF Sealed!Write, Over
    <2> QED BY <1>2, <2>1 DEF Sealed!Next
  <1> QED BY <1>1, <1>3, <1>4 DEF SubmitInsert

LEMMA RemovalSeals ==
    ASSUME NEW w \in Handlers, NEW id \in Reviews, AdminRemove(w, id)
    PROVE  Sealed!Next
  <1>1. id \in Sealed!Reviews
    BY DEF Reviews, Sealed!Reviews
  <1>2. Sealed!Remove(id)
    BY DEF AdminRemove, Sealed!Remove
  <1> QED BY <1>1, <1>2 DEF Sealed!Next

\* A pair is opened as it was selected: complete, since nothing is unwritten.
LEMMA PairOpens ==
    ASSUME ReviewInv, NEW w \in Handlers, PairPublish(w)
    PROVE  Sealed!Next
  <1>1. PICK b : b = handler[w].booking
    OBVIOUS
  <1>2. b \in Bookings /\ Both(b)
    BY <1>1 DEF PairPublish, ReviewInv, Selected
  <1>3. \A id \in Reviews : id \in Pair(b) <=> id[1] \in {b} /\ review[id] # "none"
    BY <1>2, Pairs DEF Both
  <1>4. review' = [id \in Sealed!Reviews |->
            IF id[1] \in {b} /\ review[id] # "none" THEN "visible" ELSE review[id]]
    BY <1>1, <1>3 DEF PairPublish, Reviews, Sealed!Reviews
  <1>5. Sealed!Complete(b)
    BY <1>2, Pairs DEF Both, Sealed!Complete
  <1>6. Sealed!Open({b})
    BY <1>4, <1>5 DEF PairPublish, Sealed!Open
  <1> QED BY <1>2, <1>6 DEF Sealed!Next

\* The unlock job opens bookings whose days are over, both sides of each.
LEMMA JobOpens ==
    ASSUME ReviewInv, UnlockPublish
    PROVE  Sealed!Next
  <1>1. PICK which : which = unlock.todo
    OBVIOUS
  <1>2. which \in SUBSET Bookings /\ \A b \in which : window[b] = "closed"
    BY <1>1 DEF UnlockPublish, ReviewInv, ReviewTypes, RunState, Selected
  <1>3. \A id \in Reviews : review[id] \in {"none", "hidden", "visible"}
    BY DEF ReviewInv, ReviewTypes
  <1>4. review' = [id \in Sealed!Reviews |->
            IF id[1] \in which /\ review[id] # "none" THEN "visible" ELSE review[id]]
    BY <1>1, <1>3 DEF UnlockPublish, Reviews, Sealed!Reviews
  <1>5. Sealed!Open(which)
    BY <1>2, <1>4 DEF UnlockPublish, Sealed!Open
  <1> QED BY <1>2, <1>5 DEF Sealed!Next

\* The days start for a booking whose days were never over, and end once.
LEMMA WindowsEnd ==
    ASSUME ReviewInv, NEW b \in Bookings, TriggerStamp(b) \/ WindowCloses(b)
    PROVE  Sealed!Next \/ UNCHANGED <<review, Over>>
  <1>1. window \in [Bookings -> {"unset", "open", "closed"}] /\ review' = review
    BY DEF ReviewInv, ReviewTypes, TriggerStamp, WindowCloses
  <1>2. CASE TriggerStamp(b)
    <2>1. window[b] = "unset" /\ window' = [window EXCEPT ![b] = "open"]
      BY <1>2 DEF TriggerStamp, ReviewInv, Windows
    <2>2. Over' = Over
      BY <1>1, <2>1 DEF Over
    <2> QED BY <1>1, <2>2
  <1>3. CASE WindowCloses(b)
    <2>1. Over' = Over \cup {b}
      BY <1>1, <1>3 DEF WindowCloses, Over
    <2>2. Sealed!DaysEnd(b)
      BY <1>1, <2>1 DEF Sealed!DaysEnd, Over
    <2> QED BY <2>2 DEF Sealed!Next
  <1> QED BY <1>2, <1>3

LEMMA StepIsDoubleBlind == ReviewInv /\ [Next]_vars => [Sealed!Next]_<<review, Over>>
  <1> SUFFICES ASSUME ReviewInv, [Next]_vars
               PROVE  Sealed!Next \/ UNCHANGED <<review, Over>>
    OBVIOUS
  <1>1. ASSUME UNCHANGED <<review, window>> PROVE UNCHANGED <<review, Over>>
    BY <1>1 DEF Over
  <1>2. CASE \/ (BookingStep /\ UNCHANGED reviewVars) \/ UNCHANGED vars
             \/ TriggerComplete \/ UnlockSelect \/ UnlockRates \/ Dies
    BY <1>1, <1>2 DEF vars, reviewVars, TriggerComplete, UnlockSelect, UnlockRates, Dies
  <1>3. ASSUME NEW b \in Bookings, TriggerStamp(b) \/ WindowCloses(b)
        PROVE  Sealed!Next \/ UNCHANGED <<review, Over>>
    BY <1>3, WindowsEnd
  <1>4. ASSUME NEW w \in Handlers, NEW id \in Reviews, SubmitCheck(w, id[1], id[2])
        PROVE  UNCHANGED <<review, Over>>
    BY <1>1, <1>4 DEF SubmitCheck
  <1>5. ASSUME NEW w \in Handlers, NEW id \in Reviews, AdminRemove(w, id)
        PROVE  Sealed!Next
    BY <1>5, RemovalSeals
  <1>6. ASSUME NEW w \in Handlers, SubmitInsert(w)
        PROVE  Sealed!Next \/ UNCHANGED <<review, Over>>
    BY <1>6, InsertWrites
  <1>7. ASSUME NEW w \in Handlers, PairRead(w) \/ HandlerRates(w)
        PROVE  UNCHANGED <<review, Over>>
    BY <1>1, <1>7 DEF PairRead, HandlerRates
  <1>8. ASSUME NEW w \in Handlers, PairPublish(w)
        PROVE  Sealed!Next
    BY <1>8, PairOpens
  <1>9. CASE UnlockPublish
    BY <1>9, JobOpens
  <1> QED BY <1>2, <1>3, <1>4, <1>5, <1>6, <1>7, <1>8, <1>9 DEF Next

\* Submits, the two ways of publishing, removals, jobs and deaths implement
\* DoubleBlind: a review is sealed when it is written, both sides of a booking
\* are opened in one step, of a pair that is complete or once submit takes no
\* more, and what is written is never written again (submit, tryUnlockPair,
\* unlockExpiredReviews, adminRemove).
THEOREM ReviewsAreDoubleBlind == Spec => IsDoubleBlind
  <1>1. Init => Sealed!Init
    BY DEF Init, ReviewInit, Sealed!Init, Reviews, Sealed!Reviews
  <1>2. ReviewInv /\ [Next]_vars => [Sealed!Next]_<<review, {b \in Bookings : window[b] = "closed"}>>
    BY StepIsDoubleBlind DEF Over
  <1> QED BY <1>1, <1>2, ReviewsStandOnBookings, PTL DEF Spec, IsDoubleBlind, Sealed!Spec

\* With the trigger in the place of the job, and reviews around them, the
\* bookings still keep their word: every completion is the trigger's first
\* statement, and no other job of Reviews moves a booking or tells of one.
THEOREM EngagementsAreKeptInCompany == Spec => KeepsItsWord
  <1>1. Init => Promised!Init
    BY DEF Init, BookingInit, Promised!Init
  <1>2. IInv /\ [Next]_vars => [Promised!Next]_<<booking, told>>
    <2> SUFFICES ASSUME IInv, [Next]_vars
                 PROVE  [Promised!Next]_<<booking, told>>
      OBVIOUS
    <2>1. ASSUME BookingStep \/ Complete \/ UNCHANGED bookingVars
          PROVE  [Promised!Next]_<<booking, told>>
      BY <2>1, StepKeepsWord
    <2>2. ASSUME NEW b \in Bookings, TriggerStamp(b) \/ WindowCloses(b)
          PROVE  UNCHANGED bookingVars
      BY <2>2 DEF TriggerStamp, WindowCloses
    <2>3. ASSUME NEW w \in Handlers, NEW id \in Reviews, SubmitCheck(w, id[1], id[2]) \/ AdminRemove(w, id)
          PROVE  UNCHANGED bookingVars
      BY <2>3 DEF SubmitCheck, AdminRemove
    <2>4. ASSUME NEW w \in Handlers, SubmitInsert(w) \/ PairRead(w) \/ PairPublish(w) \/ HandlerRates(w)
          PROVE  UNCHANGED bookingVars
      BY <2>4 DEF SubmitInsert, PairRead, PairPublish, HandlerRates
    <2>5. CASE UnlockSelect \/ UnlockPublish \/ UnlockRates \/ UNCHANGED vars
      BY <2>1, <2>5 DEF UnlockSelect, UnlockPublish, UnlockRates, vars
    <2>6. CASE Dies
      BY <2>6 DEF Dies
    <2>7. CASE BookingStep \/ TriggerComplete
      BY <2>1, <2>7 DEF TriggerComplete
    <2> QED BY <2>1, <2>2, <2>3, <2>4, <2>5, <2>6, <2>7 DEF Next
  <1> QED BY <1>1, <1>2, ReviewsStandOnBookings, PTL DEF Spec, KeepsItsWord, Promised!Spec
=============================================================================
