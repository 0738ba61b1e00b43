----------------------------- MODULE Messaging ------------------------------
(***************************************************************************)
(* Conversations between artists and planners: MessagingService's          *)
(* startAsPlanner, startAsArtist, respondToRequest and sendMessage, with   *)
(* the notification of a new message, the reading of notifications, and    *)
(* the paid pass that lets a planner write and caps how much.              *)
(*                                                                         *)
(* A handler is one step per statement (two reads of which nothing between *)
(* them depends are one).  Only startAsArtist runs in a transaction, under *)
(* an advisory lock of the artist, held to its commit.  The notifications  *)
(* of a request and of its acceptance, the last statement of their         *)
(* handlers, are left out: nothing reads them back.  The subscription      *)
(* itself is external here: the passes of PaidPlanners start and end.      *)
(***************************************************************************)
EXTENDS Naturals, FiniteSets

CONSTANTS
    Artists, Planners,
    PaidPlanners,    \* planners who may buy a pass with a message cap
    Handlers,        \* slots for concurrent requests
    RequestCap,      \* MAX_PENDING_ARTIST_REQUESTS
    MessageCap,      \* subscription_plans.message_cap of that pass
    MaxDeaths,       \* bound on the requests that die half-way
    MaxPasses,       \* bound on the passes bought
    Nobody

ASSUME MessagingAssumption ==
    /\ RequestCap \in Nat \ {0} /\ MessageCap \in Nat \ {0}
    /\ MaxDeaths \in Nat /\ MaxPasses \in Nat
    /\ IsFiniteSet(Handlers)
    /\ PaidPlanners \subseteq Planners
    /\ Artists \cap Planners = {}
    /\ Nobody \notin Artists \cup Planners

VARIABLES
    conversation,   \* row of each pair; "none" before its insert
    handler,        \* requests in progress
    onPass,         \* planners whose pass is live
    passes,         \* passes bought so far
    sent,           \* messages of a planner since his pass started, while it lasts
    late,           \* messages of a planner since his pass ended
    notice,         \* <<c, u>>: new_message notification: "none", "unread", "read"
    silent,         \* <<c, u>>: c holds a message to u that no unread notice covered
    deaths

messagingVars == <<conversation, handler, onPass, passes, sent, late, notice, silent, deaths>>

Conversations == Artists \X Planners
\* A conversation and one of its two parties.
Ends == {end \in Conversations \X (Artists \cup Planners) : end[2] \in {end[1][1], end[1][2]}}

NoThread == [status |-> "none", by |-> Nobody]
Free == [pc |-> "idle", who |-> Nobody, to |-> <<>>, decision |-> "none"]

Become(h, pc) == handler' = [handler EXCEPT ![h].pc = pc]
Finish(h) == handler' = [handler EXCEPT ![h] = Free]
Begin(h, pc, who, c, decision) ==
    /\ handler[h] = Free
    /\ handler' = [handler EXCEPT ![h] = [pc |-> pc, who |-> who, to |-> c, decision |-> decision]]

Pending(a) == {c \in Conversations : c[1] = a /\ conversation[c] = [status |-> "pending", by |-> a]}

\* (mutant: initiated_by is left to its default)
InsertUnsigned(c, status, by) ==
    /\ conversation[c] = NoThread
    /\ conversation' = [conversation EXCEPT ![c].status = status]

\* UNIQUE (artist_id, planner_id).
InsertThread(c, status, by) ==
    /\ conversation[c] = NoThread
    /\ conversation' = [conversation EXCEPT ![c] = [status |-> status, by |-> by]]

-----------------------------------------------------------------------------
\* POST /conversations by a planner: behind the guard, open at once.

StartAsPlanner(h, c) ==
    /\ c[2] \in onPass
    /\ conversation[c] = NoThread
    /\ Begin(h, "open", c[2], c, "none")
    /\ UNCHANGED <<conversation, onPass, passes, sent, late, notice, silent, deaths>>

OpenThread(h) ==
    /\ handler[h].pc = "open"
    /\ \/ InsertThread(handler[h].to, "accepted", handler[h].who)
       \/ conversation[handler[h].to] # NoThread /\ UNCHANGED conversation
    /\ Finish(h)
    /\ UNCHANGED <<onPass, passes, sent, late, notice, silent, deaths>>

\* POST /conversations by an artist: a request, if not too many wait.

StartAsArtist(h, c) ==
    /\ conversation[c] = NoThread
    /\ Begin(h, "lock", c[1], c, "none")
    /\ UNCHANGED <<conversation, onPass, passes, sent, late, notice, silent, deaths>>

\* (mutant: a plain count-then-insert, without the advisory lock)
LockSkipped(a) == a \in Artists

LockFree(a) == \A h \in Handlers : ~(handler[h].who = a /\ handler[h].pc \in {"count", "insert"})

TakeLock(h) ==
    /\ handler[h].pc = "lock"
    /\ LockFree(handler[h].who)
    /\ Become(h, "count")
    /\ UNCHANGED <<conversation, onPass, passes, sent, late, notice, silent, deaths>>

CountPending(h) ==
    /\ handler[h].pc = "count"
    /\ IF Cardinality(Pending(handler[h].who)) >= RequestCap THEN Finish(h) ELSE Become(h, "insert")
    /\ UNCHANGED <<conversation, onPass, passes, sent, late, notice, silent, deaths>>

\* The insert and the commit that publishes it and drops the lock.
InsertRequest(h) ==
    /\ handler[h].pc = "insert"
    /\ \/ InsertThread(handler[h].to, "pending", handler[h].who)
       \/ conversation[handler[h].to] # NoThread /\ UNCHANGED conversation
    /\ Finish(h)
    /\ UNCHANGED <<onPass, passes, sent, late, notice, silent, deaths>>

-----------------------------------------------------------------------------
\* respondToRequest: the status is checked on the row that was read and
\* written by id alone.

Respond(h, c) ==
    /\ conversation[c].status = "pending"
    /\ \E decision \in {"accepted", "declined"} : Begin(h, "respond", c[2], c, decision)
    /\ UNCHANGED <<conversation, onPass, passes, sent, late, notice, silent, deaths>>

WriteDecision(h) ==
    /\ handler[h].pc = "respond"
    /\ conversation' = [conversation EXCEPT ![handler[h].to].status = handler[h].decision]
    /\ Finish(h)
    /\ UNCHANGED <<onPass, passes, sent, late, notice, silent, deaths>>

-----------------------------------------------------------------------------
\* sendMessage.

Other(c, u) == IF u = c[1] THEN c[2] ELSE c[1]

\* (mutant: whoever is a participant may write in a pending thread)
MayWriteAnyPending(c, u) == conversation[c].status \in {"pending", "accepted"}

\* A request may carry an opening message of whoever initiated it.
MayWrite(c, u) ==
    \/ conversation[c].status = "accepted"
    \/ conversation[c] = [status |-> "pending", by |-> u]

\* The guard, then the thread.
Send(h, c, u) ==
    /\ u \in {c[1], c[2]}
    /\ u \in Planners => u \in onPass
    /\ MayWrite(c, u)
    /\ Begin(h, "cap", u, c, "none")
    /\ UNCHANGED <<conversation, onPass, passes, sent, late, notice, silent, deaths>>

\* (mutant: the cap allows the message that reaches it)
SpentTooLate(u) == u \in onPass /\ sent[u] > MessageCap

\* Whoever has no live subscription has no cap, which lets a planner whose
\* pass ended after the guard write once more.
Spent(u) == u \in onPass /\ sent[u] >= MessageCap

CheckCap(h) ==
    /\ handler[h].pc = "cap"
    /\ IF Spent(handler[h].who) THEN Finish(h) ELSE Become(h, "message")
    /\ UNCHANGED <<conversation, onPass, passes, sent, late, notice, silent, deaths>>

InsertMessage(h) ==
    LET u == handler[h].who
        end == <<handler[h].to, Other(handler[h].to, u)>> IN
    /\ handler[h].pc = "message"
    /\ sent' = IF u \in onPass THEN [sent EXCEPT ![u] = @ + 1] ELSE sent
    /\ late' = IF u \in PaidPlanners \ onPass THEN [late EXCEPT ![u] = @ + 1] ELSE late
    /\ silent' = IF notice[end] = "unread" THEN silent ELSE silent \cup {end}
    /\ Become(h, "notify")
    /\ UNCHANGED <<conversation, onPass, passes, notice, deaths>>

\* (mutant: a notification that was already read counts as well)
CoveredByAny(end) == notice[end] # "none"

Covered(end) == notice[end] = "unread"

CheckUnread(h) ==
    /\ handler[h].pc = "notify"
    /\ IF Covered(<<handler[h].to, Other(handler[h].to, handler[h].who)>>)
       THEN Finish(h)
       ELSE Become(h, "write")
    /\ UNCHANGED <<conversation, onPass, passes, sent, late, notice, silent, deaths>>

InsertNotice(h) ==
    LET end == <<handler[h].to, Other(handler[h].to, handler[h].who)>> IN
    /\ handler[h].pc = "write"
    /\ notice' = [notice EXCEPT ![end] = "unread"]
    /\ silent' = silent \ {end}
    /\ Finish(h)
    /\ UNCHANGED <<conversation, onPass, passes, sent, late, deaths>>

\* NotificationsService.markRead and markAllRead.
ReadNotice(end) ==
    /\ notice[end] = "unread"
    /\ notice' = [notice EXCEPT ![end] = "read"]
    /\ UNCHANGED <<conversation, handler, onPass, passes, sent, late, silent, deaths>>

-----------------------------------------------------------------------------
\* The subscription, as far as messaging sees it.

PassStarts(u) ==
    /\ u \notin onPass
    /\ passes < MaxPasses
    /\ passes' = passes + 1
    /\ onPass' = onPass \cup {u}
    /\ sent' = [sent EXCEPT ![u] = 0]
    /\ late' = [late EXCEPT ![u] = 0]
    /\ UNCHANGED <<conversation, handler, notice, silent, deaths>>

PassEnds(u) ==
    /\ u \in onPass
    /\ onPass' = onPass \ {u}
    /\ UNCHANGED <<conversation, handler, passes, sent, late, notice, silent, deaths>>

HandlerDies(h) ==
    /\ handler[h] # Free
    /\ deaths < MaxDeaths
    /\ deaths' = deaths + 1
    /\ Finish(h)
    /\ UNCHANGED <<conversation, onPass, passes, sent, late, notice, silent>>

MessagingInit ==
    /\ conversation = [c \in Conversations |-> NoThread]
    /\ handler = [h \in Handlers |-> Free]
    /\ onPass = {}
    /\ passes = 0
    /\ sent = [u \in PaidPlanners |-> 0]
    /\ late = [u \in PaidPlanners |-> 0]
    /\ notice = [end \in Ends |-> "none"]
    /\ silent = {}
    /\ deaths = 0

MessagingNext ==
    \/ \E h \in Handlers :
           \/ \E c \in Conversations :
                  \/ StartAsPlanner(h, c) \/ StartAsArtist(h, c) \/ Respond(h, c)
                  \/ \E u \in Artists \cup Planners : Send(h, c, u)
           \/ OpenThread(h) \/ TakeLock(h) \/ CountPending(h) \/ InsertRequest(h)
           \/ WriteDecision(h)
           \/ CheckCap(h) \/ InsertMessage(h) \/ CheckUnread(h) \/ InsertNotice(h)
           \/ HandlerDies(h)
    \/ \E end \in Ends : ReadNotice(end)
    \/ \E u \in PaidPlanners : PassStarts(u) \/ PassEnds(u)

MessagingSpec == MessagingInit /\ [][MessagingNext]_messagingVars

-----------------------------------------------------------------------------
MessagingTypeOK ==
    /\ \A c \in Conversations :
           /\ conversation[c].status \in {"none", "pending", "accepted", "declined"}
           /\ conversation[c].by \in {c[1], c[2], Nobody}
           /\ conversation[c].status = "none" <=> conversation[c].by = Nobody
    /\ notice \in [Ends -> {"none", "unread", "read"}]
    /\ silent \subseteq Ends
    /\ onPass \subseteq PaidPlanners /\ passes \in 0..MaxPasses /\ deaths \in 0..MaxDeaths

PendingCapHolds == \A a \in Artists : Cardinality(Pending(a)) <= RequestCap

CapIsSoftButBounded ==
    \A u \in PaidPlanners :
        /\ sent[u] <= MessageCap + Cardinality(Handlers) - 1
        /\ late[u] <= Cardinality(Handlers)

\* The two caps, with several requests in flight.  However many an artist
\* sends at once, no more than RequestCap wait for an answer (lines 219-226
\* of startAsArtist).  assertWithinMessageCap, which counts and inserts in
\* two statements, costs no more than this: a pass buys MessageCap messages
\* and one more for each other request in flight, and a pass that ends lets
\* through no more than the requests that were in flight.
CapsHold == PendingCapHolds /\ CapIsSoftButBounded

\* notifyNewMessage skips the notification when an unread one exists: still,
\* whoever was sent a message has, or had since, an unread notification of
\* it, or a handler is about to write one (or died).
NoSilentMessage ==
    \A end \in silent :
        \/ \E h \in Handlers : /\ handler[h].to = end[1]
                               /\ handler[h].pc \in {"notify", "write"}
                               /\ Other(end[1], handler[h].who) = end[2]
        \/ deaths > 0

\* "While a request is pending only the initiator may write" (sendMessage):
\* true of the insert too, two statements after the row was read.
NoReplyWhilePending ==
    [][\A h \in Handlers : InsertMessage(h) =>
           \/ conversation[handler[h].to].status # "pending"
           \/ conversation[handler[h].to].by = handler[h].who]_messagingVars
=============================================================================
