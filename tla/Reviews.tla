------------------------------ MODULE Reviews -------------------------------
(***************************************************************************)
(* What happens to a booking once its date is over: the daily trigger that *)
(* completes it and asks both parties for a review, ReviewsService.submit, *)
(* the two ways a review is published (the pair is complete, or the seven  *)
(* days are over), the admin's removal, and the rating on the profiles.    *)
(*                                                                         *)
(* A review is named by its booking and the role of its author; it is      *)
(* about the other role.  A profile's rating is modelled as the set of     *)
(* bookings whose reviews it counts.  Each statement is a step of its own: *)
(* nothing here runs in a transaction.                                     *)
(***************************************************************************)
EXTENDS Bookings

CONSTANT Handlers   \* slots for concurrent submits and admin removals

VARIABLES
    review,    \* is_visible of each review: "none", "hidden" or "visible"
    window,    \* of a booking: "unset" (no review_emails_sent_at), "open", "closed"
    rating,    \* of the profile of each role: the bookings it counts
    handler,   \* submits and removals in progress
    trigger,   \* the daily review trigger
    unlock,    \* the expired-review unlock
    removed    \* reviews an admin has removed

reviewVars == <<review, window, rating, handler, trigger, unlock, removed>>
vars == <<bookingVars, reviewVars>>

Roles == {"artist", "planner"}
About(role) == IF role = "artist" THEN "planner" ELSE "artist"
Pair(b) == {b} \X Roles
Reviews == Bookings \X Roles

Free == [pc |-> "idle", booking |-> NoBooking, role |-> "none", about |-> {},
         target |-> "none", seen |-> {}]
NoRun == [pc |-> "idle", todo |-> {}, about |-> {}, target |-> "none", seen |-> {}]

-----------------------------------------------------------------------------
\* handleDailyReviewTrigger.

TriggerComplete ==
    /\ trigger = NoRun
    /\ Complete
    /\ trigger' = [NoRun EXCEPT !.pc = "send", !.todo = Completable]
    /\ UNCHANGED <<review, window, rating, handler, unlock, removed>>

\* sendReviewRequests, then the stamp from which the seven days count.
TriggerStamp(b) ==
    /\ b \in trigger.todo
    /\ window' = [window EXCEPT ![b] = "open"]
    /\ trigger' = IF trigger.todo = {b} THEN NoRun ELSE [trigger EXCEPT !.todo = @ \ {b}]
    /\ UNCHANGED bookingVars
    /\ UNCHANGED <<review, rating, handler, unlock, removed>>

WindowCloses(b) ==
    /\ window[b] = "open"
    /\ window' = [window EXCEPT ![b] = "closed"]
    /\ UNCHANGED bookingVars
    /\ UNCHANGED <<review, rating, handler, trigger, unlock, removed>>

-----------------------------------------------------------------------------
\* submit.

Submitted(b) == {id \in Pair(b) : review[id] # "none"}

SubmitCheck(w, b, role) ==
    /\ handler[w] = Free
    /\ booking[b] = "completed"
    /\ window[b] # "closed"
    /\ review[<<b, role>>] = "none"
    /\ handler' = [handler EXCEPT ![w] = [Free EXCEPT !.pc = "insert", !.booking = b, !.role = role]]
    /\ UNCHANGED bookingVars
    /\ UNCHANGED <<review, window, rating, trigger, unlock, removed>>

SubmitInsert(w) ==
    LET id == <<handler[w].booking, handler[w].role>> IN
    /\ handler[w].pc = "insert"
    /\ \/ /\ review[id] = "none"
          /\ review' = [review EXCEPT ![id] = "hidden"]
          /\ handler' = [handler EXCEPT ![w].pc = "pair", ![w].role = "none"]
       \/ /\ review[id] # "none"             \* UNIQUE (booking_id, reviewer_id)
          /\ handler' = [handler EXCEPT ![w] = Free]
          /\ UNCHANGED review
    /\ UNCHANGED bookingVars
    /\ UNCHANGED <<window, rating, trigger, unlock, removed>>

\* (mutant: tryUnlockPair looks for two published reviews)
PairReadVisible(w) ==
    /\ handler[w].pc = "pair"
    /\ handler' = [handler EXCEPT ![w] =
           IF \A id \in Pair(@.booking) : review[id] = "visible" THEN [@ EXCEPT !.pc = "publish"] ELSE Free]
    /\ UNCHANGED bookingVars
    /\ UNCHANGED <<review, window, rating, trigger, unlock, removed>>

\* tryUnlockPair.
PairRead(w) ==
    /\ handler[w].pc = "pair"
    /\ handler' = [handler EXCEPT ![w] =
           IF Submitted(@.booking) = Pair(@.booking) THEN [@ EXCEPT !.pc = "publish"] ELSE Free]
    /\ UNCHANGED bookingVars
    /\ UNCHANGED <<review, window, rating, trigger, unlock, removed>>

PairPublish(w) ==
    /\ handler[w].pc = "publish"
    /\ review' = [id \in Reviews |->
           IF id \in Pair(handler[w].booking) THEN "visible" ELSE review[id]]
    /\ handler' = [handler EXCEPT ![w].pc = "rate", ![w].about = Roles]
    /\ UNCHANGED bookingVars
    /\ UNCHANGED <<window, rating, trigger, unlock, removed>>

\* adminRemove: the same column that keeps an unpublished review hidden.
AdminRemove(w, id) ==
    /\ handler[w] = Free
    /\ review[id] # "none"
    /\ review' = [review EXCEPT ![id] = "hidden"]
    /\ removed' = removed \cup {id}
    /\ handler' = [handler EXCEPT ![w] =
           [Free EXCEPT !.pc = "rate", !.booking = id[1], !.about = {About(id[2])}]]
    /\ UNCHANGED bookingVars
    /\ UNCHANGED <<window, rating, trigger, unlock>>

-----------------------------------------------------------------------------
\* recalculateAggregate: read the visible reviews, then write the profile.
\* The same for a handler and for the unlock job, whose record x is.

\* (mutant: a profile collects the ids of its reviews)
CountedIds(role) == {id \in Reviews : id[2] = About(role) /\ review[id] = "visible"}

Counted(role) == {b \in Bookings : review[<<b, About(role)>>] = "visible"}

RateRead(x, role) ==
    [x EXCEPT !.pc = "write", !.about = @ \ {role}, !.target = role, !.seen = Counted(role)]

RateWrite(x) == x.pc = "write" /\ rating' = [rating EXCEPT ![x.target] = x.seen]

\* The next profile, or the end of the call.
AfterWrite(x, idle) ==
    IF x.about = {} THEN idle ELSE [x EXCEPT !.pc = "rate", !.target = "none", !.seen = {}]

HandlerRates(w) ==
    /\ \/ /\ handler[w].pc = "rate"
          /\ \E role \in handler[w].about : handler' = [handler EXCEPT ![w] = RateRead(@, role)]
          /\ UNCHANGED rating
       \/ /\ RateWrite(handler[w])
          /\ handler' = [handler EXCEPT ![w] = AfterWrite(@, Free)]
    /\ UNCHANGED bookingVars
    /\ UNCHANGED <<review, window, trigger, unlock, removed>>

-----------------------------------------------------------------------------
\* unlockExpiredReviews.

\* (mutant: the cut-off is the day the requests went out)
ExpiredEarly == {b \in Bookings :
    booking[b] = "completed" /\ window[b] # "unset" /\ \E id \in Pair(b) : review[id] = "hidden"}

\* (mutant: the cron only unlocks pairs, as submit does)
ExpiredPairs == {b \in Bookings : window[b] = "closed" /\ Submitted(b) = Pair(b)
                                        /\ \E id \in Pair(b) : review[id] = "hidden"}

Expired == {b \in Bookings :
    booking[b] = "completed" /\ window[b] = "closed" /\ \E id \in Pair(b) : review[id] = "hidden"}

UnlockSelect ==
    /\ unlock = NoRun
    /\ Expired # {}
    /\ unlock' = [NoRun EXCEPT !.pc = "publish", !.todo = Expired]
    /\ UNCHANGED bookingVars
    /\ UNCHANGED <<review, window, rating, handler, trigger, removed>>

\* (mutant: an UPDATE for each review in the place of one for all)
UnlockOneByOne ==
    /\ unlock.pc = "publish"
    /\ \E id \in Reviews : /\ id[1] \in unlock.todo /\ review[id] = "hidden"
                          /\ review' = [review EXCEPT ![id] = "visible"]
    /\ unlock' = [unlock EXCEPT !.pc = "rate", !.about = Roles]
    /\ UNCHANGED bookingVars
    /\ UNCHANGED <<window, rating, handler, trigger, removed>>

UnlockPublish ==
    /\ unlock.pc = "publish"
    /\ review' = [id \in Reviews |->
           IF id[1] \in unlock.todo /\ review[id] = "hidden" THEN "visible" ELSE review[id]]
    /\ unlock' = [unlock EXCEPT !.pc = "rate",
           !.about = {About(id[2]) : id \in {i \in Reviews : i[1] \in unlock.todo /\ review[i] # "none"}}]
    /\ UNCHANGED bookingVars
    /\ UNCHANGED <<window, rating, handler, trigger, removed>>

UnlockRates ==
    /\ \/ /\ unlock.pc = "rate"
          /\ \E role \in unlock.about : unlock' = RateRead(unlock, role)
          /\ UNCHANGED rating
       \/ /\ RateWrite(unlock)
          /\ unlock' = AfterWrite(unlock, NoRun)
    /\ UNCHANGED bookingVars
    /\ UNCHANGED <<review, window, handler, trigger, removed>>

-----------------------------------------------------------------------------
\* A process dies, or a statement throws and the rest is skipped.
Dies ==
    /\ deaths < MaxDeaths
    /\ deaths' = deaths + 1
    /\ \/ \E w \in Handlers : /\ handler[w] # Free
                              /\ handler' = [handler EXCEPT ![w] = Free]
                              /\ UNCHANGED <<trigger, unlock>>
       \/ trigger # NoRun /\ trigger' = NoRun /\ UNCHANGED <<handler, unlock>>
       \/ unlock # NoRun /\ unlock' = NoRun /\ UNCHANGED <<handler, trigger>>
    /\ UNCHANGED <<booking, blocked, past, request, told, review, window, rating, removed>>

ReviewInit ==
    /\ review = [id \in Reviews |-> "none"]
    /\ window = [b \in Bookings |-> "unset"]
    /\ rating = [role \in Roles |-> {}]
    /\ handler = [w \in Handlers |-> Free]
    /\ trigger = NoRun
    /\ unlock = NoRun
    /\ removed = {}

Init == BookingInit /\ ReviewInit

Next ==
    \/ BookingStep /\ UNCHANGED reviewVars
    \/ TriggerComplete
    \/ \E b \in Bookings : TriggerStamp(b) \/ WindowCloses(b)
    \/ \E w \in Handlers :
           \/ \E id \in Reviews : SubmitCheck(w, id[1], id[2]) \/ AdminRemove(w, id)
           \/ SubmitInsert(w) \/ PairRead(w) \/ PairPublish(w) \/ HandlerRates(w)
    \/ UnlockSelect \/ UnlockPublish \/ UnlockRates
    \/ Dies

Spec == Init /\ [][Next]_vars

\* Time passes, and the unlock job runs every day to its end.
Fairness ==
    /\ \A b \in Bookings : WF_vars(WindowCloses(b))
    /\ WF_vars(UnlockSelect) /\ WF_vars(UnlockPublish) /\ WF_vars(UnlockRates)

FairSpec == Spec /\ Fairness

-----------------------------------------------------------------------------
TypeOK ==
    /\ booking \in [Bookings -> {"none"} \cup Live \cup Final]
    /\ review \in [Reviews -> {"none", "hidden", "visible"}]
    /\ window \in [Bookings -> {"unset", "open", "closed"}]
    /\ rating \in [Roles -> SUBSET Bookings]
    /\ removed \subseteq Reviews
    /\ deaths \in 0..MaxDeaths

\* Nobody can read the other party's review and answer it with his own:
\* a review is visible only once both are written, or once the seven days,
\* after which submit refuses, are over (migration 003, lines 88-90).
NoAnswering ==
    \A b \in Bookings : (\E id \in Pair(b) : review[id] = "visible") =>
        \/ Submitted(b) = Pair(b)
        \/ window[b] = "closed"

\* The reviews keep what DoubleBlind promises: they are sealed when written,
\* both sides of a booking are opened in one step, of a complete pair or after
\* the seven days and never before, and nothing is written twice (submit,
\* tryUnlockPair, unlockExpiredReviews, adminRemove).
Sealed == INSTANCE DoubleBlind WITH over <- {b \in Bookings : window[b] = "closed"}
IsDoubleBlind == Sealed!Spec

\* "It will be published once the other party also reviews" (submit, line
\* 77): two submits at once cannot both miss each other.  When both reviews
\* are written and no handler is at work on the booking, both are visible,
\* whoever was first, unless an admin removed one or a handler died.
PairIsPublished ==
    \A b \in Bookings :
        Submitted(b) = Pair(b) /\ deaths = 0 /\ (\A w \in Handlers : handler[w].booking # b)
            => \A id \in Pair(b) : review[id] = "visible" \/ id \in removed

\* "... or after 7 days": a review whose window was started is visible in
\* the end, if the other party never writes and if handlers die.
ReviewIsPublished ==
    \A id \in Reviews :
        review[id] = "hidden" /\ window[id[1]] # "unset" ~> review[id] = "visible" \/ id \in removed

\* "Admin: remove a review (soft removal - just hides it)" (line 171): what
\* an admin removed is not shown again.
RemovedStaysHidden == \A id \in removed : review[id] # "visible"
=============================================================================
