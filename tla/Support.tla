------------------------------ MODULE Support -------------------------------
(***************************************************************************)
(* A support ticket and its thread: SupportService's create and update,    *)
(* with the mails to the inbox and to the requester.                       *)
(*                                                                         *)
(* No handler runs in a transaction: the ticket and its opening message    *)
(* are two inserts, and an administrator writes the status by id with the  *)
(* resolution time of the row read before.                                 *)
(***************************************************************************)
EXTENDS Naturals, FiniteSets

CONSTANTS
    Tickets,
    Desks,          \* handlers of tickets at work
    MaxReplies,     \* bound on the replies of a ticket
    MaxClock,       \* bound on the resolutions that are told apart by time
    SupportDeaths   \* bound on the handlers that die

ASSUME SupportAssumption ==
    IsFiniteSet(Desks) /\ MaxReplies \in Nat /\ MaxClock \in Nat \ {0} /\ SupportDeaths \in Nat

VARIABLES
    ticket,         \* [status, resolved] of each
    thread,         \* [opened, replies]: the messages of each
    inbox,          \* tickets the support inbox was mailed
    answered,       \* per ticket, the replies mailed to the requester
    desk,           \* [pc, on, seen, status, reply] of each handler
    clock,          \* resolutions so far: a later one has a later time
    supportDeaths   \* deaths so far

supportVars == <<ticket, thread, inbox, answered, desk, clock, supportDeaths>>

Terminal == {"resolved", "closed"}
Statuses == {"open", "in_progress"} \cup Terminal
Never == 0                                    \* resolved_at is null
NoTicket == [status |-> "none", resolved |-> Never]
FreeDesk == [pc |-> "idle", on |-> {}, seen |-> Never, status |-> "same", reply |-> FALSE]

Leave(d) == desk' = [desk EXCEPT ![d] = FreeDesk]
Proceed(d, pc) == desk' = [desk EXCEPT ![d].pc = pc]

-----------------------------------------------------------------------------
\* create: a guest without an address is refused; then the ticket, ...
CreateTicket(d, t, asker, address) ==
    /\ desk[d] = FreeDesk
    /\ asker = "guest" => address = "given"
    /\ ticket[t] = NoTicket
    /\ ticket' = [ticket EXCEPT ![t] = [status |-> "open", resolved |-> Never]]
    /\ desk' = [desk EXCEPT ![d] = [FreeDesk EXCEPT !.pc = "open", !.on = {t}]]
    /\ UNCHANGED <<thread, inbox, answered, clock, supportDeaths>>

\* ... its opening message, ...
OpenThread(d, t) ==
    /\ desk[d].pc = "open"
    /\ thread' = [thread EXCEPT ![t].opened = TRUE]
    /\ Proceed(d, "tell")
    /\ UNCHANGED <<ticket, inbox, answered, clock, supportDeaths>>

\* ... and the mail to the inbox, whose failure is swallowed.
NotifyInbox(d, t) ==
    /\ desk[d].pc = "tell"
    /\ inbox' \in {inbox, inbox \cup {t}}
    /\ Leave(d)
    /\ UNCHANGED <<ticket, thread, answered, clock, supportDeaths>>

-----------------------------------------------------------------------------
\* update: the row is read, ...
LookAtTicket(d, t) ==
    /\ desk[d] = FreeDesk
    /\ ticket[t] # NoTicket
    /\ \E status \in Statuses \cup {"same"}, reply \in BOOLEAN :
           desk' = [desk EXCEPT ![d] = [pc |-> "write", on |-> {t}, seen |-> ticket[t].resolved,
                                        status |-> status, reply |-> reply]]
    /\ UNCHANGED <<ticket, thread, inbox, answered, clock, supportDeaths>>

\* The time that was read, or now; none when the ticket is open again; and
\* without a status in the request the column is left alone.
ResolvedAt(d, t) ==
    IF desk[d].status = "same" THEN ticket[t].resolved
    ELSE IF desk[d].status \notin Terminal THEN Never
    ELSE IF desk[d].seen # Never THEN desk[d].seen ELSE clock + 1

\* ... written by id, ...
WriteTicket(d, t) ==
    /\ desk[d].pc = "write"
    /\ ResolvedAt(d, t) <= MaxClock
    /\ ticket' = [ticket EXCEPT ![t] =
           [status |-> IF desk[d].status = "same" THEN ticket[t].status ELSE desk[d].status,
            resolved |-> ResolvedAt(d, t)]]
    /\ clock' = IF ResolvedAt(d, t) > clock THEN clock + 1 ELSE clock
    /\ IF desk[d].reply THEN Proceed(d, "reply") ELSE Leave(d)
    /\ UNCHANGED <<thread, inbox, answered, supportDeaths>>

\* (mutant: the reply is mailed and not stored)
MailOnly(d, t) ==
    /\ thread' = thread
    /\ Proceed(d, "mail")

\* ... the reply appended to the thread ...
AppendReply(d, t) ==
    /\ thread' = [thread EXCEPT ![t].replies = @ + 1]
    /\ Proceed(d, "mail")

Reply(d, t) ==
    /\ desk[d].pc = "reply"
    /\ thread[t].replies < MaxReplies
    /\ AppendReply(d, t)
    /\ UNCHANGED <<ticket, inbox, answered, clock, supportDeaths>>

\* ... and mailed to whoever asked: failures are swallowed.
NotifyRequester(d, t) ==
    /\ desk[d].pc = "mail"
    /\ answered' \in {answered, [answered EXCEPT ![t] = @ + 1]}
    /\ Leave(d)
    /\ UNCHANGED <<ticket, thread, inbox, clock, supportDeaths>>

\* The handler dies, or a statement of it fails.
DeskDies(d) ==
    /\ desk[d] # FreeDesk
    /\ supportDeaths < SupportDeaths
    /\ supportDeaths' = supportDeaths + 1
    /\ Leave(d)
    /\ UNCHANGED <<ticket, thread, inbox, answered, clock>>

-----------------------------------------------------------------------------
SupportInit ==
    /\ ticket = [t \in Tickets |-> NoTicket]
    /\ thread = [t \in Tickets |-> [opened |-> FALSE, replies |-> 0]]
    /\ inbox = {}
    /\ answered = [t \in Tickets |-> 0]
    /\ desk = [d \in Desks |-> FreeDesk]
    /\ clock = 0
    /\ supportDeaths = 0

SupportNext ==
    \E d \in Desks :
        \/ \E t \in Tickets, asker \in {"user", "guest"}, address \in {"given", "missing"} :
               CreateTicket(d, t, asker, address)
        \/ \E t \in Tickets : LookAtTicket(d, t)
        \/ \E t \in desk[d].on :
               \/ OpenThread(d, t) \/ NotifyInbox(d, t)
               \/ WriteTicket(d, t) \/ Reply(d, t) \/ NotifyRequester(d, t)
        \/ DeskDies(d)

SupportSpec == SupportInit /\ [][SupportNext]_supportVars

-----------------------------------------------------------------------------
SupportTypeOK ==
    /\ \A t \in Tickets : /\ ticket[t].status \in Statuses \cup {"none"}
                          /\ ticket[t].resolved \in 0..clock
                          /\ thread[t] \in [opened : BOOLEAN, replies : 0..MaxReplies]
    /\ inbox \subseteq Tickets
    /\ answered \in [Tickets -> 0..MaxReplies]
    /\ \A d \in Desks : desk[d].on \subseteq Tickets /\ desk[d].seen \in 0..clock
    /\ clock \in 0..MaxClock
    /\ supportDeaths \in 0..SupportDeaths

\* "The row is the source of truth; the email is a convenience" (notifyInbox):
\* whoever writes over whom and wherever a handler dies, nobody is mailed what
\* the tables do not hold, and a ticket without its opening message is one
\* still being filed, or whose handler died.
TablesFirst ==
    \A t \in Tickets :
        /\ answered[t] <= thread[t].replies
        /\ t \in inbox => thread[t].opened
        /\ ticket[t] # NoTicket /\ ~thread[t].opened =>
               supportDeaths > 0 \/ \E d \in Desks : desk[d].pc = "open" /\ desk[d].on = {t}

\* The resolution time is "stamped when it first reaches a terminal state and
\* left alone after, so reopening and re-resolving does not rewrite the
\* original resolution time" (update, lines 224 to 226).
ResolutionTimeStands ==
    [][\A t \in Tickets :
          ticket[t].resolved # Never => ticket'[t].resolved = ticket[t].resolved]_supportVars
=============================================================================
