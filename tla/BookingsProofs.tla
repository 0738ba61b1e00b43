--------------------------- MODULE BookingsProofs ---------------------------
(***************************************************************************)
(* Bookings keeps its shape, tells nobody what is not so, and never leaves *)
(* a final status: for any number of bookings and handlers.                *)
(*                                                                         *)
(* ToldTheTruth is not inductive: a handler that has swapped the status    *)
(* and not yet notified must be known to have something true to say, and a *)
(* handler about to swap may only carry a status that the one it expects   *)
(* can become.  FinalIsFinal also needs that nobody but its creator knows  *)
(* a row that does not exist yet, since the insert looks at nothing.       *)
(***************************************************************************)
EXTENDS Bookings, TLAPS

Statuses == {"none"} \cup Live \cup Final
Said == {"pending", "accepted", "declined", "cancelled"}
Steps == {"idle", "check", "insert", "swap", "notify"}

Types ==
    /\ booking \in [Bookings -> Statuses]
    /\ request \in [Requests -> [pc : Steps, booking : Bookings \cup {NoBooking},
                                 to : Said \cup {"none"}, from : SUBSET Live]]
    /\ told \subseteq Bookings \X Said
    /\ deaths \in 0..MaxDeaths

\* A handler is about a booking exactly while it is at work.
Named == \A r \in Requests :
    /\ request[r].pc = "idle" <=> request[r].booking = NoBooking
    /\ request[r].pc = "idle" => request[r] = Idle

\* A row that is being created is known to its creator alone.
Unborn == \A r \in Requests : request[r].pc \in {"check", "insert"} =>
    /\ booking[request[r].booking] = "none"
    /\ \A q \in Requests : q # r => request[q].booking # request[r].booking

\* What a pending swap expects can become what it writes.
Aimed == \A r \in Requests : request[r].pc = "swap" =>
    \/ request[r].from = {"pending"} /\ request[r].to \in {"accepted", "declined"}
    \/ request[r].from = Live /\ request[r].to = "cancelled"

\* Of a booking that is now so, it is still true that it became s.
Stands(now, s) ==
    /\ s \in {"declined", "cancelled"} => now = s
    /\ s = "accepted" => now \in {"accepted", "cancelled", "completed"}
    /\ s = "pending" => now # "none"

Sayable == \A r \in Requests :
    request[r].pc = "notify" => request[r].to \in Said /\ Stands(booking[request[r].booking], request[r].to)

Truth == \A b \in Bookings, s \in Said : <<b, s>> \in told => Stands(booking[b], s)

IInv == Types /\ Named /\ Unborn /\ Aimed /\ Sayable /\ Truth

USE DEF Live, Final, Statuses, Said, Steps

-----------------------------------------------------------------------------
\* The statuses that a step may move a booking between.
Moves(old, new) ==
    \/ new = old
    \/ old = "none" /\ new = "pending"
    \/ old = "pending" /\ new \in {"accepted", "declined", "cancelled"}
    \/ old = "accepted" /\ new \in {"cancelled", "completed"}

\* What stood still stands after every booking has made such a move.
LEMMA MovesKeep ==
    ASSUME NEW old, NEW new, NEW s \in Said, Stands(old, s), Moves(old, new)
    PROVE  Stands(new, s)
  BY DEF Stands, Moves

LEMMA Initially == BookingInit => IInv
  BY BookingAssumption DEF BookingInit, IInv, Types, Named, Unborn, Aimed, Sayable, Truth, Idle

-----------------------------------------------------------------------------
\* A handler that only steps on, or ends, with no row touched.
LEMMA OnlyRequest ==
    ASSUME IInv, NEW r \in Requests, NEW x,
           x \in [pc : Steps, booking : Bookings \cup {NoBooking},
                  to : Said \cup {"none"}, from : SUBSET Live],
           x.pc = "idle" <=> x.booking = NoBooking,
           x.pc = "idle" => x = Idle,
           x.pc \in {"check", "insert"} =>
               booking[x.booking] = "none" /\ \A q \in Requests \ {r} : request[q].booking # x.booking,
           x.booking \notin {NoBooking, request[r].booking} /\ x.pc \notin {"check", "insert"} =>
               booking[x.booking] # "none",
           x.pc = "swap" =>
               \/ x.from = {"pending"} /\ x.to \in {"accepted", "declined"}
               \/ x.from = Live /\ x.to = "cancelled",
           x.pc = "notify" => x.to \in Said /\ Stands(booking[x.booking], x.to),
           x.booking = request[r].booking /\ x.pc \notin {"check", "insert"} =>
               request[r].pc \notin {"check", "insert"} \/ x.booking = NoBooking,
           request' = [request EXCEPT ![r] = x],
           booking' = booking, told' = told, deaths' \in 0..MaxDeaths
    PROVE  IInv'
  <1>1. Types'
    BY DEF IInv, Types
  <1>2. \A q \in Requests : request'[q] = IF q = r THEN x ELSE request[q]
    BY DEF IInv, Types
  <1>3. Named'
    BY <1>2 DEF IInv, Named
  <1>4. Unborn'
    <2> SUFFICES ASSUME NEW p \in Requests, request'[p].pc \in {"check", "insert"}
                 PROVE  /\ booking[request'[p].booking] = "none"
                        /\ \A q \in Requests : q # p => request'[q].booking # request'[p].booking
      BY DEF Unborn
    <2>1. CASE p = r
      BY <1>2, <2>1
    <2>2. CASE p # r
      <3>1. /\ request'[p] = request[p]
            /\ booking[request[p].booking] = "none"
            /\ \A o \in Requests : o # p => request[o].booking # request[p].booking
        BY <1>2, <2>2 DEF IInv, Unborn
      <3>2. request[p].booking # NoBooking
        BY <3>1 DEF IInv, Named
      <3>3. ASSUME NEW q \in Requests, q # p
            PROVE  request'[q].booking # request[p].booking
        <4>1. CASE q = r
          <5>1. request[r].booking # request[p].booking
            BY <3>1, <2>2
          <5>2. CASE x.pc \in {"check", "insert"}
            BY <5>2, <4>1, <1>2, <2>2
          <5>3. CASE x.pc \notin {"check", "insert"}
            BY <5>1, <5>3, <4>1, <1>2, <3>1, <3>2
          <5> QED BY <5>2, <5>3
        <4>2. CASE q # r
          BY <1>2, <3>1, <3>3, <4>2
        <4> QED BY <4>1, <4>2
      <3> QED BY <1>2, <3>1, <3>3
    <2> QED BY <2>1, <2>2
  <1>5. Aimed'
    BY <1>2 DEF IInv, Aimed
  <1>6. Sayable' /\ Truth'
    BY <1>2 DEF IInv, Sayable, Truth, Stands
  <1> QED BY <1>1, <1>3, <1>4, <1>5, <1>6 DEF IInv

-----------------------------------------------------------------------------
\* A step that moves bookings, while no handler starts on one.
LEMMA OnlyBookings ==
    ASSUME IInv, booking' \in [Bookings -> Statuses],
           \A b \in Bookings : Moves(booking[b], booking'[b]),
           \A r \in Requests : request[r].pc \in {"check", "insert"} =>
               booking'[request[r].booking] = booking[request[r].booking],
           request' = request, told' = told, deaths' = deaths
    PROVE  IInv'
  <1>1. Types' /\ Named' /\ Aimed'
    BY DEF IInv, Types, Named, Aimed
  <1>2. Unborn'
    BY DEF IInv, Unborn
  <1>3. ASSUME NEW b \in Bookings, NEW s \in Said, Stands(booking[b], s)
        PROVE  Stands(booking'[b], s)
    BY <1>3, MovesKeep
  <1>4. Sayable'
    <2> SUFFICES ASSUME NEW r \in Requests, request[r].pc = "notify"
                 PROVE  request[r].to \in Said /\ Stands(booking'[request[r].booking], request[r].to)
      BY DEF Sayable
    <2>1. request[r].to \in Said /\ Stands(booking[request[r].booking], request[r].to)
      BY DEF IInv, Sayable
    <2>2. request[r].booking \in Bookings
      BY DEF IInv, Types, Named
    <2> QED BY <2>1, <2>2, <1>3
  <1>5. Truth'
    BY <1>3 DEF IInv, Truth
  <1> QED BY <1>1, <1>2, <1>4, <1>5 DEF IInv

\* The two steps that write a row and go on to say so.
LEMMA WriteAndNotify ==
    ASSUME IInv, NEW r \in Requests, NEW s \in Said,
           request[r].pc \in {"insert", "swap"},
           Moves(booking[request[r].booking], s),
           booking' = [booking EXCEPT ![request[r].booking] = s],
           request' = [request EXCEPT ![r] = [@ EXCEPT !.pc = "notify", !.to = s]],
           told' = told, deaths' = deaths
    PROVE  IInv'
  <1> DEFINE b == request[r].booking
  <1>1. b \in Bookings /\ b # NoBooking
    BY BookingAssumption DEF IInv, Types, Named
  <1>2. /\ booking' \in [Bookings -> Statuses]
        /\ booking'[b] = s
        /\ \A c \in Bookings : Moves(booking[c], booking'[c])
    BY <1>1 DEF IInv, Types, Moves
  <1>3. \A q \in Requests : request'[q] = IF q = r THEN [request[r] EXCEPT !.pc = "notify", !.to = s]
                                                  ELSE request[q]
    BY DEF IInv, Types
  <1>4. Types'
    <2> DEFINE Handler == [pc : Steps, booking : Bookings \cup {NoBooking}, to : Said \cup {"none"}, from : SUBSET Live]
    <2> DEFINE x == [request[r] EXCEPT !.pc = "notify", !.to = s]
    <2>1. request \in [Requests -> Handler]
      BY DEF IInv, Types
    <2>2. x \in Handler
      <3>1. request[r] \in Handler
        BY <2>1
      <3>2. "notify" \in Steps
        BY DEF Steps
      <3> QED BY <3>1, <3>2
    <2>3. request' = [request EXCEPT ![r] = x]
      OBVIOUS
    <2>4. request' \in [Requests -> Handler]
      <3> HIDE DEF x, Handler
      <3> QED BY <2>1, <2>2, <2>3
    <2>5. told' \subseteq Bookings \X Said /\ deaths' \in 0..MaxDeaths
      BY DEF IInv, Types
    <2> QED BY <1>2, <2>4, <2>5 DEF Types
  <1>5. Named' /\ Aimed'
    BY <1>1, <1>3 DEF IInv, Types, Named, Aimed
  <1>6. Unborn'
    <2> SUFFICES ASSUME NEW p \in Requests, request'[p].pc \in {"check", "insert"}
                 PROVE  /\ booking'[request'[p].booking] = "none"
                        /\ \A q \in Requests : q # p => request'[q].booking # request'[p].booking
      BY DEF Unborn
    <2>1. p # r /\ request'[p] = request[p]
      BY <1>3 DEF IInv, Types
    <2>2. /\ booking[request[p].booking] = "none"
          /\ \A q \in Requests : q # p => request[q].booking # request[p].booking
      BY <2>1 DEF IInv, Unborn
    <2>3. \A q \in Requests : request'[q].booking = request[q].booking
      BY <1>3 DEF IInv, Types
    <2> QED BY <2>1, <2>2, <2>3 DEF IInv, Types
  <1>7. ASSUME NEW c \in Bookings, NEW w \in Said, Stands(booking[c], w)
        PROVE  Stands(booking'[c], w)
    BY <1>2, <1>7, MovesKeep
  <1>8. Sayable'
    <2> SUFFICES ASSUME NEW q \in Requests, request'[q].pc = "notify"
                 PROVE  request'[q].to \in Said /\ Stands(booking'[request'[q].booking], request'[q].to)
      BY DEF Sayable
    <2>1. CASE q = r
      <3>1. request'[q].to = s /\ request'[q].booking = b
        BY <1>3, <2>1 DEF IInv, Types
      <3>2. s # "none"
        OBVIOUS
      <3> QED BY <1>2, <3>1, <3>2 DEF Stands
    <2>2. CASE q # r
      <3>1. request'[q] = request[q]
        BY <1>3, <2>2
      <3>2. request[q].to \in Said /\ Stands(booking[request[q].booking], request[q].to)
        BY <3>1 DEF IInv, Sayable
      <3>3. request[q].booking \in Bookings
        BY <3>1 DEF IInv, Types, Named
      <3> QED BY <1>7, <3>1, <3>2, <3>3
    <2> QED BY <2>1, <2>2
  <1>9. Truth'
    BY <1>7 DEF IInv, Truth
  <1> QED BY <1>4, <1>5, <1>6, <1>8, <1>9 DEF IInv

-----------------------------------------------------------------------------
\* The handlers of one request, step by step.

LEMMA CheckBlocksStep ==
    ASSUME IInv, NEW r \in Requests, NEW b \in Bookings, CreateCheckBlocks(r, b)
    PROVE  IInv'
  <1> DEFINE x == [Idle EXCEPT !.pc = "check", !.booking = b]
  <1>1. /\ x \in [pc : Steps, booking : Bookings \cup {NoBooking}, to : Said \cup {"none"}, from : SUBSET Live]
        /\ x.pc = "check" /\ x.booking = b /\ b # NoBooking
    BY BookingAssumption DEF Idle
  <1>2. booking[b] = "none" /\ \A q \in Requests : request[q].booking # b
    BY DEF CreateCheckBlocks
  <1>3. request' = [request EXCEPT ![r] = x] /\ booking' = booking /\ told' = told /\ deaths' \in 0..MaxDeaths
    BY DEF CreateCheckBlocks, IInv, Types
  <1> HIDE DEF x
  <1> QED BY <1>1, <1>2, <1>3, OnlyRequest

LEMMA CheckConflictStep ==
    ASSUME IInv, NEW r \in Requests, CreateCheckConflict(r)
    PROVE  IInv'
  <1>1. request[r].pc = "check" /\ booking' = booking /\ told' = told /\ deaths' \in 0..MaxDeaths
    BY DEF CreateCheckConflict, IInv, Types
  <1>2. CASE request' = [request EXCEPT ![r] = Idle]
    <2>1. /\ Idle \in [pc : Steps, booking : Bookings \cup {NoBooking}, to : Said \cup {"none"}, from : SUBSET Live]
          /\ Idle.pc = "idle" /\ Idle.booking = NoBooking
      BY DEF Idle
    <2> QED BY <1>1, <1>2, <2>1, OnlyRequest
  <1>3. CASE request' = [request EXCEPT ![r] = [@ EXCEPT !.pc = "insert"]]
    <2> DEFINE x == [request[r] EXCEPT !.pc = "insert"]
    <2>1. /\ x \in [pc : Steps, booking : Bookings \cup {NoBooking}, to : Said \cup {"none"}, from : SUBSET Live]
          /\ x.pc = "insert" /\ x.booking = request[r].booking /\ x.booking # NoBooking
      BY <1>1 DEF IInv, Types, Named
    <2>2. booking[x.booking] = "none" /\ \A q \in Requests \ {r} : request[q].booking # x.booking
      BY <1>1, <2>1 DEF IInv, Unborn
    <2>3. request' = [request EXCEPT ![r] = x]
      BY <1>3
    <2> HIDE DEF x
    <2> QED BY <1>1, <2>1, <2>2, <2>3, OnlyRequest
  <1> QED BY <1>2, <1>3 DEF CreateCheckConflict

LEMMA InsertStep ==
    ASSUME IInv, NEW r \in Requests, CreateInsert(r)
    PROVE  IInv'
  <1>1. request[r].pc = "insert" /\ booking[request[r].booking] = "none"
    BY DEF CreateInsert, IInv, Unborn
  <1>2. Moves(booking[request[r].booking], "pending")
    BY <1>1 DEF Moves
  <1>3. request' = [request EXCEPT ![r] = [@ EXCEPT !.pc = "notify", !.to = "pending"]]
    BY DEF CreateInsert, IInv, Types
  <1> QED BY <1>1, <1>2, <1>3, WriteAndNotify DEF CreateInsert

LEMMA StartSwapStep ==
    ASSUME IInv, NEW r \in Requests, NEW b \in Bookings, Respond(r, b) \/ Cancel(r, b)
    PROVE  IInv'
  <1>1. PICK from \in SUBSET Live, to \in Said :
            /\ StartSwap(r, b, from, to)
            /\ \/ from = {"pending"} /\ to \in {"accepted", "declined"}
               \/ from = Live /\ to = "cancelled"
    BY DEF Respond, Cancel
  <1> DEFINE x == [pc |-> "swap", booking |-> b, to |-> to, from |-> from]
  <1>2. /\ x \in [pc : Steps, booking : Bookings \cup {NoBooking}, to : Said \cup {"none"}, from : SUBSET Live]
        /\ x.pc = "swap" /\ x.booking = b /\ b # NoBooking /\ x.from = from /\ x.to = to
    BY BookingAssumption
  <1>3. /\ request' = [request EXCEPT ![r] = x]
        /\ booking' = booking /\ told' = told /\ deaths' \in 0..MaxDeaths
        /\ booking[b] # "none" /\ request[r].pc = "idle"
    BY <1>1 DEF StartSwap, IInv, Types, Idle
  <1> HIDE DEF x
  <1> QED BY <1>1, <1>2, <1>3, OnlyRequest

LEMMA SwapStep ==
    ASSUME IInv, NEW r \in Requests, Swap(r)
    PROVE  IInv'
  <1>1. request[r].pc = "swap" /\ told' = told /\ deaths' = deaths
    BY DEF Swap
  <1>2. CASE SwapMatches(r) /\ booking' = [booking EXCEPT ![request[r].booking] = request[r].to]
                            /\ request' = [request EXCEPT ![r].pc = "notify"]
    <2>1. request[r].to \in Said /\ Moves(booking[request[r].booking], request[r].to)
      BY <1>1, <1>2 DEF SwapMatches, IInv, Aimed, Moves
    <2>2. request' = [request EXCEPT ![r] = [@ EXCEPT !.pc = "notify", !.to = request[r].to]]
      BY <1>2 DEF IInv, Types
    <2> QED BY <1>1, <1>2, <2>1, <2>2, WriteAndNotify
  <1>3. CASE request' = [request EXCEPT ![r] = Idle] /\ booking' = booking
    <2>1. /\ Idle \in [pc : Steps, booking : Bookings \cup {NoBooking}, to : Said \cup {"none"}, from : SUBSET Live]
          /\ Idle.pc = "idle" /\ Idle.booking = NoBooking /\ deaths' \in 0..MaxDeaths
      BY <1>1 DEF Idle, IInv, Types
    <2> QED BY <1>1, <1>3, <2>1, OnlyRequest
  <1> QED BY <1>2, <1>3 DEF Swap

LEMMA DeathStep ==
    ASSUME IInv, NEW r \in Requests, RequestDies(r)
    PROVE  IInv'
  <1>1. /\ Idle \in [pc : Steps, booking : Bookings \cup {NoBooking}, to : Said \cup {"none"}, from : SUBSET Live]
        /\ Idle.pc = "idle" /\ Idle.booking = NoBooking
    BY DEF Idle
  <1>2. deaths' \in 0..MaxDeaths
    BY BookingAssumption DEF RequestDies, IInv, Types
  <1> QED BY <1>1, <1>2, OnlyRequest DEF RequestDies

\* A notification says what stands, and nothing else changes.
LEMMA NotifyStep ==
    ASSUME IInv, NEW r \in Requests, Notify(r)
    PROVE  IInv'
  <1> DEFINE n == <<request[r].booking, request[r].to>>
  <1>1. /\ request[r].booking \in Bookings /\ request[r].to \in Said
        /\ Stands(booking[request[r].booking], request[r].to)
    BY DEF Notify, IInv, Types, Named, Sayable
  <1>2. \A q \in Requests : request'[q] = IF q = r THEN Idle ELSE request[q]
    BY DEF Notify, IInv, Types
  <1>3. booking' = booking /\ told' = told \cup {n} /\ deaths' = deaths
    BY DEF Notify
  <1>4. Types'
    BY <1>1, <1>3 DEF Notify, IInv, Types, Idle
  <1>5. Named'
    BY <1>2 DEF IInv, Named, Idle
  <1>6. Aimed'
    BY <1>2 DEF IInv, Aimed, Idle
  <1>7. Sayable'
    BY <1>2, <1>3 DEF IInv, Sayable, Idle
  <1>8. Unborn'
    BY <1>2, <1>3 DEF IInv, Unborn, Named, Idle
  <1>9. Truth'
    BY <1>1, <1>3 DEF IInv, Truth
  <1> QED BY <1>4, <1>5, <1>6, <1>7, <1>8, <1>9 DEF IInv

LEMMA CompleteStep ==
    ASSUME IInv, Complete
    PROVE  IInv'
  <1>1. booking' \in [Bookings -> Statuses]
    BY DEF Complete, MarkCompleted, IInv, Types
  <1>2. \A b \in Bookings : Moves(booking[b], booking'[b]) /\ (booking[b] = "none" => booking'[b] = "none")
    BY DEF Complete, MarkCompleted, Completable, Moves
  <1>3. \A r \in Requests : request[r].pc \in {"check", "insert"} =>
            booking'[request[r].booking] = booking[request[r].booking]
    BY <1>2 DEF IInv, Unborn, Types, Named
  <1> QED BY <1>1, <1>2, <1>3, OnlyBookings DEF Complete

LEMMA Elsewhere ==
    ASSUME IInv, UNCHANGED <<booking, request, told, deaths>>
    PROVE  IInv'
  BY DEF IInv, Types, Named, Unborn, Aimed, Sayable, Truth

-----------------------------------------------------------------------------
LEMMA Inductive == IInv /\ [BookingStep \/ Complete]_bookingVars => IInv'
  <1> SUFFICES ASSUME IInv, [BookingStep \/ Complete]_bookingVars PROVE IInv'
    OBVIOUS
  <1>1. ASSUME NEW r \in Requests, NEW b \in Bookings, CreateCheckBlocks(r, b) PROVE IInv'
    BY <1>1, CheckBlocksStep
  <1>2. ASSUME NEW r \in Requests, NEW b \in Bookings, Respond(r, b) \/ Cancel(r, b) PROVE IInv'
    BY <1>2, StartSwapStep
  <1>3. ASSUME NEW r \in Requests, CreateCheckConflict(r) PROVE IInv'
    BY <1>3, CheckConflictStep
  <1>4. ASSUME NEW r \in Requests, CreateInsert(r) PROVE IInv'
    BY <1>4, InsertStep
  <1>5. ASSUME NEW r \in Requests, Swap(r) PROVE IInv'
    BY <1>5, SwapStep
  <1>6. ASSUME NEW r \in Requests, Notify(r) PROVE IInv'
    BY <1>6, NotifyStep
  <1>7. ASSUME NEW r \in Requests, RequestDies(r) PROVE IInv'
    BY <1>7, DeathStep
  <1>8. CASE Complete
    BY <1>8, CompleteStep
  <1>9. CASE SetBlock \/ DatePasses \/ UNCHANGED bookingVars
    BY <1>9, Elsewhere DEF SetBlock, DatePasses, bookingVars
  <1> QED BY <1>1, <1>2, <1>3, <1>4, <1>5, <1>6, <1>7, <1>8, <1>9 DEF BookingStep

\* The inductive invariant: a swap of the status aims only where the status it
\* expects may go, and what a handler is about to tell is true and stays so.
THEOREM Invariance == BookingSpec => []IInv
  BY Initially, Inductive, PTL DEF BookingSpec

LEMMA Shown == IInv => BookingTypeOK /\ ToldTheTruth
  BY DEF IInv, Types, Named, Truth, Stands, BookingTypeOK, ToldTheTruth

\* The shape of the state: statuses of the enum, and handlers that are busy
\* with one booking each (the status column and the handlers of
\* bookings.service).
THEOREM TypeCorrect == BookingSpec => []BookingTypeOK
  BY Shown, Invariance, PTL

\* What a party was notified of happened and stands (respond and cancel,
\* which notify only after their compare-and-swap).
THEOREM Truthful == BookingSpec => []ToldTheTruth
  BY Shown, Invariance, PTL

LEMMA FinalKept ==
    ASSUME IInv, [BookingStep \/ Complete]_bookingVars
    PROVE  \A b \in Bookings : booking[b] \in Final => booking'[b] = booking[b]
  <1> DEFINE Kept == \A b \in Bookings : booking[b] \in Final => booking'[b] = booking[b]
  <1>1. ASSUME NEW r \in Requests, CreateInsert(r) PROVE Kept
    BY <1>1 DEF CreateInsert, IInv, Unborn, Types
  <1>2. ASSUME NEW r \in Requests, Swap(r) PROVE Kept
    BY <1>2 DEF Swap, SwapMatches, IInv, Aimed, Types
  <1>3. CASE Complete
    BY <1>3 DEF Complete, MarkCompleted, Completable
  <1>4. CASE booking' = booking
    BY <1>4
  <1>5. ASSUME NEW r \in Requests, NEW b \in Bookings, Respond(r, b) \/ Cancel(r, b) PROVE booking' = booking
    BY <1>5 DEF Respond, Cancel, StartSwap
  <1> QED
    BY <1>1, <1>2, <1>3, <1>4, <1>5
    DEF BookingStep, CreateCheckBlocks, CreateCheckConflict, Notify, RequestDies, SetBlock, DatePasses, bookingVars

\* No handler, and no completion, changes a booking that was declined,
\* cancelled or completed (the condition every update of the status carries).
THEOREM Finality == BookingSpec => FinalIsFinal
  <1>1. IInv /\ [BookingStep \/ Complete]_bookingVars
            => [\A b \in Bookings : booking[b] \in Final => booking'[b] = booking[b]]_bookingVars
    BY FinalKept
  <1> QED BY <1>1, Invariance, PTL DEF BookingSpec, FinalIsFinal

-----------------------------------------------------------------------------
(* Bookings implements Engagement: an insert is a Propose, a swap that     *)
(* matches an Accept, a Decline or a CallOff, the completion a Hold, a     *)
(* notification a Tell; every other step leaves rows and notices alone.    *)

\* One row turns: its creator's insert, or the swap of an answer.
LEMMA RowTurns ==
    ASSUME IInv, NEW r \in Requests, CreateInsert(r) \/ Swap(r)
    PROVE  Promised!Next \/ UNCHANGED <<booking, told>>
  <1>1. PICK b : b = request[r].booking
    OBVIOUS
  <1>2. told' = told
    BY DEF CreateInsert, Swap
  <1>3. CASE CreateInsert(r)
    <2>1. b \in Bookings /\ booking[b] = "none"
      BY <1>1, <1>3 DEF CreateInsert, IInv, Unborn, Types, Named
    <2>2. Promised!Propose(b)
      BY <1>1, <1>2, <1>3, <2>1 DEF CreateInsert, Promised!Propose, Promised!Turns
    <2> QED BY <2>1, <2>2 DEF Promised!Next
  <1>4. CASE Swap(r) /\ booking' # booking
    <2>1. /\ b \in Bookings /\ booking[b] \in request[r].from
          /\ booking' = [booking EXCEPT ![b] = request[r].to] /\ request[r].pc = "swap"
      BY <1>1, <1>4 DEF Swap, SwapMatches, IInv, Types, Named
    <2>2. CASE request[r].from = {"pending"} /\ request[r].to \in {"accepted", "declined"}
      <3>1. Promised!Accept(b) \/ Promised!Decline(b)
        BY <1>2, <2>1, <2>2 DEF Promised!Accept, Promised!Decline, Promised!Turns
      <3> QED BY <2>1, <3>1 DEF Promised!Next
    <2>3. CASE request[r].from = Live /\ request[r].to = "cancelled"
      <3>1. Promised!CallOff(b)
        BY <1>2, <2>1, <2>3 DEF Promised!CallOff, Promised!Turns
      <3> QED BY <2>1, <3>1 DEF Promised!Next
    <2> QED BY <2>1, <2>2, <2>3 DEF IInv, Aimed
  <1> QED BY <1>2, <1>3, <1>4

\* What is told stands.
LEMMA NoticeTells ==
    ASSUME IInv, NEW r \in Requests, Notify(r)
    PROVE  Promised!Next
  <1>1. PICK b, s : b = request[r].booking /\ s = request[r].to
    OBVIOUS
  <1>2. b \in Bookings /\ s \in Said /\ Stands(booking[b], s)
    BY <1>1 DEF Notify, IInv, Types, Named, Sayable
  <1>3. booking[b] \in Statuses
    BY <1>2 DEF IInv, Types
  <1>4. \/ booking[b] = s
        \/ s = "accepted" /\ booking[b] \in {"cancelled", "completed"}
        \/ s = "pending" /\ booking[b] # "none"
    BY <1>2, <1>3 DEF Stands
  <1>5. Promised!Tell(b, s)
    BY <1>1, <1>4 DEF Notify, Promised!Tell
  <1> QED BY <1>2, <1>5 DEF Promised!Next

LEMMA DateHolds ==
    ASSUME Complete
    PROVE  Promised!Next
  <1>1. past
    BY DEF Complete, Completable
  <1>2. booking' = [b \in Bookings |-> IF booking[b] = "accepted" THEN "completed" ELSE booking[b]]
    BY <1>1 DEF Complete, MarkCompleted, Completable
  <1>3. Promised!Hold
    BY <1>2 DEF Complete, Promised!Hold
  <1> QED BY <1>3 DEF Promised!Next

LEMMA StepKeepsWord == IInv /\ [BookingStep \/ Complete]_bookingVars => [Promised!Next]_<<booking, told>>
  <1> SUFFICES ASSUME IInv, [BookingStep \/ Complete]_bookingVars
               PROVE  Promised!Next \/ UNCHANGED <<booking, told>>
    OBVIOUS
  <1>1. ASSUME NEW r \in Requests, CreateInsert(r) \/ Swap(r)
        PROVE  Promised!Next \/ UNCHANGED <<booking, told>>
    BY <1>1, RowTurns
  <1>2. ASSUME NEW r \in Requests, Notify(r) PROVE Promised!Next
    BY <1>2, NoticeTells
  <1>3. CASE Complete
    BY <1>3, DateHolds
  <1>4. ASSUME NEW r \in Requests, NEW b \in Bookings, CreateCheckBlocks(r, b) \/ Respond(r, b) \/ Cancel(r, b)
        PROVE  UNCHANGED <<booking, told>>
    BY <1>4 DEF CreateCheckBlocks, Respond, Cancel, StartSwap
  <1>5. ASSUME NEW r \in Requests, CreateCheckConflict(r) \/ RequestDies(r)
        PROVE  UNCHANGED <<booking, told>>
    BY <1>5 DEF CreateCheckConflict, RequestDies
  <1>6. CASE SetBlock \/ DatePasses \/ UNCHANGED bookingVars
    BY <1>6 DEF SetBlock, DatePasses, bookingVars
  <1> QED BY <1>1, <1>2, <1>3, <1>4, <1>5, <1>6 DEF BookingStep

\* A booking goes no way that Engagement does not have, and no party is told of
\* a change that no longer stands: for any number of handlers that answer,
\* call off, complete and die half-way (respond, cancel, markCompletedBatch).
THEOREM EngagementsAreKept == BookingSpec => KeepsItsWord
  <1>1. BookingInit => Promised!Init
    BY DEF BookingInit, Promised!Init
  <1> QED BY <1>1, StepKeepsWord, Invariance, PTL DEF BookingSpec, KeepsItsWord, Promised!Spec
=============================================================================
