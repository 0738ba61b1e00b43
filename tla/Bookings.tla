------------------------------ MODULE Bookings ------------------------------
(***************************************************************************)
(* Booking proposals between one artist and one planner for one event      *)
(* date: BookingsService.create, respond, cancel and markCompletedBatch,   *)
(* and the artist's availability blocks that create consults.              *)
(*                                                                         *)
(* No statement here runs in a transaction.  A handler reads the row,      *)
(* swaps the status if it is still one it may leave, and only then         *)
(* notifies the other party, so each is three steps; create makes its two  *)
(* checks and its insert in three statements of their own.                 *)
(*                                                                         *)
(* Guards on who is calling, on the artist's account and on paid access    *)
(* are constant here: every call modelled comes from a party allowed to    *)
(* make it.                                                                *)
(***************************************************************************)
EXTENDS Naturals

CONSTANTS
    Bookings,    \* rows that may come to exist
    Requests,    \* slots for concurrent handlers
    MaxDeaths,   \* bound on the processes that die half-way
    NoBooking

ASSUME BookingAssumption == MaxDeaths \in Nat /\ NoBooking \notin Bookings

VARIABLES
    booking,   \* status of each row, "none" before its insert
    blocked,   \* an availability block covers the date
    past,      \* the event date is over
    request,   \* handlers in progress
    told,      \* <<b, s>>: a party was notified that b became s
    deaths

bookingVars == <<booking, blocked, past, request, told, deaths>>

Live == {"pending", "accepted"}            \* CANCELLABLE_STATUSES
Final == {"declined", "cancelled", "completed"}

Idle == [pc |-> "idle", booking |-> NoBooking, to |-> "none", from |-> {}]

-----------------------------------------------------------------------------
\* POST /bookings.  The planner accepts implicitly by proposing.

CreateCheckBlocks(r, b) ==
    /\ request[r] = Idle
    /\ booking[b] = "none"
    /\ \A q \in Requests : request[q].booking # b
    /\ ~past
    /\ ~blocked
    /\ request' = [request EXCEPT ![r] = [Idle EXCEPT !.pc = "check", !.booking = b]]
    /\ UNCHANGED <<booking, blocked, past, told, deaths>>

\* The guard against a second live booking for the same artist and date.
CreateCheckConflict(r) ==
    /\ request[r].pc = "check"
    /\ request' = [request EXCEPT ![r] =
           IF \E b \in Bookings : booking[b] \in Live THEN Idle ELSE [@ EXCEPT !.pc = "insert"]]
    /\ UNCHANGED <<booking, blocked, past, told, deaths>>

CreateInsert(r) ==
    /\ request[r].pc = "insert"
    /\ booking' = [booking EXCEPT ![request[r].booking] = "pending"]
    /\ request' = [request EXCEPT ![r].pc = "notify", ![r].to = "pending"]
    /\ UNCHANGED <<blocked, past, told, deaths>>

-----------------------------------------------------------------------------
\* respond and cancel: a check on what was read, then a compare-and-swap
\* that carries the same condition.

StartSwap(r, b, from, to) ==
    /\ request[r] = Idle
    /\ booking[b] \in from
    /\ request' = [request EXCEPT ![r] = [pc |-> "swap", booking |-> b, to |-> to, from |-> from]]
    /\ UNCHANGED <<booking, blocked, past, told, deaths>>

Respond(r, b) == \E decision \in {"accepted", "declined"} : StartSwap(r, b, {"pending"}, decision)

Cancel(r, b) == StartSwap(r, b, Live, "cancelled")

\* (mutant: the update carries only the id, as it did before the compare-and-swap)
MatchesById(r) == request[r].booking \in Bookings

\* The WHERE of the update.
SwapMatches(r) == booking[request[r].booking] \in request[r].from

Swap(r) ==
    /\ request[r].pc = "swap"
    /\ \/ /\ SwapMatches(r)
          /\ booking' = [booking EXCEPT ![request[r].booking] = request[r].to]
          /\ request' = [request EXCEPT ![r].pc = "notify"]
       \/ /\ ~SwapMatches(r)                 \* 409, "changed by someone else"
          /\ request' = [request EXCEPT ![r] = Idle]
          /\ UNCHANGED booking
    /\ UNCHANGED <<blocked, past, told, deaths>>

Notify(r) ==
    /\ request[r].pc = "notify"
    /\ told' = told \cup {<<request[r].booking, request[r].to>>}
    /\ request' = [request EXCEPT ![r] = Idle]
    /\ UNCHANGED <<booking, blocked, past, deaths>>

RequestDies(r) ==
    /\ request[r] # Idle
    /\ deaths < MaxDeaths
    /\ deaths' = deaths + 1
    /\ request' = [request EXCEPT ![r] = Idle]
    /\ UNCHANGED <<booking, blocked, past, told>>

-----------------------------------------------------------------------------
\* AvailabilityService.create and remove: neither looks at the bookings.

SetBlock ==
    /\ ~past
    /\ blocked' = ~blocked
    /\ UNCHANGED <<booking, past, request, told, deaths>>

\* A day lies between the last moment at which a proposal is accepted and
\* the first at which markCompletedBatch counts the event as over, longer
\* than any create takes.  Blocks are only asked about dates to come.
DatePasses ==
    /\ ~past
    /\ \A r \in Requests : request[r].pc \notin {"check", "insert"}
    /\ past' = TRUE
    /\ blocked' = FALSE
    /\ UNCHANGED <<booking, request, told, deaths>>

\* (mutant: markCompletedBatch forgets the status in its WHERE)
CompletableAny == {b \in Bookings : past /\ booking[b] # "none"}

\* The rows markCompletedBatch updates, and returns to its caller.
Completable == {b \in Bookings : past /\ booking[b] = "accepted"}

\* (mutant: the job writes a status the enum does not have)
MarkDone == booking' = [b \in Bookings |-> IF b \in Completable THEN "complete" ELSE booking[b]]

MarkCompleted == booking' = [b \in Bookings |-> IF b \in Completable THEN "completed" ELSE booking[b]]

-----------------------------------------------------------------------------
BookingInit ==
    /\ booking = [b \in Bookings |-> "none"]
    /\ blocked = FALSE
    /\ past = FALSE
    /\ request = [r \in Requests |-> Idle]
    /\ told = {}
    /\ deaths = 0

\* Everything but the completion, which in Reviews the trigger performs.
BookingStep ==
    \/ \E r \in Requests, b \in Bookings : CreateCheckBlocks(r, b) \/ Respond(r, b) \/ Cancel(r, b)
    \/ \E r \in Requests : \/ CreateCheckConflict(r) \/ CreateInsert(r) \/ Swap(r)
                           \/ Notify(r) \/ RequestDies(r)
    \/ SetBlock
    \/ DatePasses

Complete ==
    /\ Completable # {}
    /\ MarkCompleted
    /\ UNCHANGED <<blocked, past, request, told, deaths>>

BookingSpec == BookingInit /\ [][BookingStep \/ Complete]_bookingVars

-----------------------------------------------------------------------------
BookingTypeOK ==
    /\ booking \in [Bookings -> {"none"} \cup Live \cup Final]
    /\ \A r \in Requests : request[r].pc = "idle" <=> request[r].booking = NoBooking
    /\ told \subseteq Bookings \X {"pending", "accepted", "declined", "cancelled"}
    /\ deaths \in 0..MaxDeaths

\* Whatever a party was notified of happened and was not undone behind its
\* back: "declined" and "cancelled" are still the status, and an acceptance
\* can only have been cancelled since, or completed.  In particular nobody
\* hears both "accepted" and "declined" of one booking (respond, the
\* compare-and-swap comment at lines 113-123).
ToldTheTruth ==
    \A b \in Bookings :
        /\ \A s \in {"declined", "cancelled"} : <<b, s>> \in told => booking[b] = s
        /\ <<b, "accepted">> \in told => booking[b] \in {"accepted", "cancelled", "completed"}

\* The rows keep what Engagement promises: no order of answers, cancellations
\* and completions takes a booking along a way that Engagement does not have,
\* and nobody is told of a change that no longer stands (respond and cancel,
\* the compare-and-swap at lines 113-135, and markCompletedBatch).
Promised == INSTANCE Engagement
KeepsItsWord == Promised!Spec

\* A booking that was declined, cancelled or completed never changes again:
\* a cancellation is not overwritten by an acceptance that had read the row
\* before it, nor a completion by either.
FinalIsFinal ==
    [][\A b \in Bookings : booking[b] \in Final => booking'[b] = booking[b]]_bookingVars
=============================================================================
