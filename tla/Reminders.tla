----------------------------- MODULE Reminders ------------------------------
(***************************************************************************)
(* The renewal reminders and the lock every scheduled job runs under:      *)
(* SchedulerService.withCronLock and doRenewalReminders, with              *)
(* findDueRenewalReminders of the subscriptions service and the two ways a *)
(* job is started.                                                         *)
(*                                                                         *)
(* The lock belongs to one connection; the work uses others.  So the lock  *)
(* may go with its connection while the work goes on, and a second         *)
(* instance then runs beside the first.  The notification is what tells    *)
(* the next run that a warning was given.                                  *)
(***************************************************************************)
EXTENDS Integers, FiniteSets

CONSTANTS
    Runners,        \* instances that may run the job
    Plans,          \* subscriptions, each running from the start
    RemindAt,       \* RENEWAL_REMINDER_DAYS of the plan of each
    ExpiresAt,      \* when each ends, on the clock
    DayLength,      \* ticks of the clock in a day
    LockLosses      \* bound on the connections lost

ASSUME ReminderAssumption ==
    /\ DayLength \in Nat \ {0} /\ LockLosses \in Nat /\ IsFiniteSet(Plans)
    /\ IsFiniteSet(Runners) /\ "free" \notin Runners
    /\ ExpiresAt \in [Plans -> Nat]
    /\ \A s \in Plans : IsFiniteSet(RemindAt[s]) /\ RemindAt[s] \subseteq Nat \ {0}

VARIABLES
    now,
    cronMode,   \* SCHEDULER_MODE
    cronLock,   \* the runner whose connection holds the lock, or "free"
    runner,     \* [pc, due, cur, read] of each instance
    warned,     \* per subscription and threshold, the notifications written
    mailed,     \* and the mails sent
    covered,    \* <<s, t>>: a run that read inside that window ended well
    lockLost    \* connections lost so far

reminderVars == <<now, cronMode, cronLock, runner, warned, mailed, covered, lockLost>>

Warnings == {w \in Plans \X UNION {RemindAt[s] : s \in Plans} : w[2] \in RemindAt[w[1]]}
NoRun == [pc |-> "idle", due |-> {}, cur |-> {}, read |-> {}]
Horizon == CHOOSE n \in {0} \cup {ExpiresAt[s] : s \in Plans} : \A s \in Plans : ExpiresAt[s] <= n

-----------------------------------------------------------------------------
\* (mutant: the job runs whether or not it got the lock)
LockRegardless(i) == cronLock' = i /\ runner' = [runner EXCEPT ![i].pc = "find"]

\* withCronLock: try, and skip the run when another has it.
Lock(i) ==
    /\ cronLock = "free"
    /\ cronLock' = i
    /\ runner' = [runner EXCEPT ![i].pc = "find"]

Start(i) ==
    /\ runner[i] = NoRun
    /\ Lock(i)
    /\ UNCHANGED <<now, cronMode, warned, mailed, covered, lockLost>>

\* handleRenewalReminders under @Cron, every instance at the same moment.
StartInProcess(i) == cronMode = "in-process" /\ Start(i)

\* CronController: the mode, and a secret that is configured and matches.
AssertAuthorised(secret) == cronMode = "http" /\ secret = "configured"

StartOverHttp(i) == (\E secret \in {"configured", "wrong", "unset"} : AssertAuthorised(secret)) /\ Start(i)

-----------------------------------------------------------------------------
\* wholeDaysUntil, rounded up.
DaysLeft(s) == (ExpiresAt[s] - now + DayLength - 1) \div DayLength

\* (mutant: the thresholds are scanned from the largest)
LargestThreshold(s) ==
    {t \in RemindAt[s] : DaysLeft(s) <= t /\ \A u \in RemindAt[s] : u <= t}

\* The smallest threshold at or above the days left, if there is one.
Threshold(s) ==
    {t \in RemindAt[s] : DaysLeft(s) <= t /\ \A u \in RemindAt[s] : DaysLeft(s) <= u => t <= u}

\* What the thresholds are for, in ticks: the end is ahead and at most w[2]
\* days off, and further than any smaller threshold of the plan.
InWindow(w) ==
    /\ now < ExpiresAt[w[1]]
    /\ ExpiresAt[w[1]] <= now + w[2] * DayLength
    /\ \A t \in RemindAt[w[1]] : t < w[2] => ExpiresAt[w[1]] > now + t * DayLength

\* The subscriptions still running, each with its threshold, ...
FindCandidates(i) ==
    /\ runner[i].pc = "find"
    /\ runner' = [runner EXCEPT ![i] = [@ EXCEPT
           !.pc = "filter", !.read = {w \in Warnings : InWindow(w)},
           !.due = {w \in Warnings : ExpiresAt[w[1]] > now /\ w[2] \in Threshold(w[1])}]]
    /\ UNCHANGED <<now, cronMode, cronLock, warned, mailed, covered, lockLost>>

\* ... less those a notification was already written for.
FilterSent(i) ==
    /\ runner[i].pc = "filter"
    /\ runner' = [runner EXCEPT ![i] = [@ EXCEPT !.pc = "loop", !.due = {w \in runner[i].due : warned[w] = 0}]]
    /\ UNCHANGED <<now, cronMode, cronLock, warned, mailed, covered, lockLost>>

\* One at a time: the notification, ...
WriteNotice(i, w) ==
    /\ runner[i].pc = "loop"
    /\ w \in runner[i].due
    /\ warned' = [warned EXCEPT ![w] = @ + 1]
    /\ runner' = [runner EXCEPT ![i] = [@ EXCEPT !.pc = "mail", !.due = runner[i].due \ {w}, !.cur = {w}]]
    /\ UNCHANGED <<now, cronMode, cronLock, mailed, covered, lockLost>>

Release(i) ==
    /\ runner' = [runner EXCEPT ![i] = NoRun]
    /\ cronLock' = IF cronLock = i THEN "free" ELSE cronLock

\* ... then the mail, which EmailService.send drops without a word when the
\* provider is down or refuses it.
SendMail(i) ==
    /\ runner[i].pc = "mail"
    /\ mailed' \in {mailed, [w \in Warnings |-> mailed[w] + Cardinality(runner[i].cur \cap {w})]}
    /\ runner' = [runner EXCEPT ![i] = [@ EXCEPT !.pc = "loop", !.cur = {}]]
    /\ UNCHANGED <<now, cronMode, cronLock, warned, covered, lockLost>>

\* The loop is through; the finally releases the lock.
Finish(i) ==
    /\ runner[i].pc = "loop"
    /\ runner[i].due = {}
    /\ covered' = covered \cup runner[i].read
    /\ Release(i)
    /\ UNCHANGED <<now, cronMode, warned, mailed, lockLost>>

\* A statement fails, which the job catches, or the instance dies and its
\* connection with it: either way the lock is free and the rest unwarned.
RunnerDies(i) ==
    /\ runner[i] # NoRun
    /\ Release(i)
    /\ UNCHANGED <<now, cronMode, warned, mailed, covered, lockLost>>

\* Only the connection goes.
LoseLock ==
    /\ cronLock # "free"
    /\ lockLost < LockLosses
    /\ cronLock' = "free"
    /\ lockLost' = lockLost + 1
    /\ UNCHANGED <<now, cronMode, runner, warned, mailed, covered>>

ReminderTick ==
    /\ now < Horizon
    /\ now' = now + 1
    /\ UNCHANGED <<cronMode, cronLock, runner, warned, mailed, covered, lockLost>>

-----------------------------------------------------------------------------
ReminderInit ==
    /\ now = 0
    /\ cronMode \in {"in-process", "http"}
    /\ cronLock = "free"
    /\ runner = [i \in Runners |-> NoRun]
    /\ warned = [w \in Warnings |-> 0]
    /\ mailed = [w \in Warnings |-> 0]
    /\ covered = {}
    /\ lockLost = 0

ReminderNext ==
    \/ \E i \in Runners :
           \/ StartInProcess(i) \/ StartOverHttp(i) \/ FindCandidates(i) \/ FilterSent(i)
           \/ SendMail(i) \/ Finish(i) \/ RunnerDies(i)
           \/ \E w \in Warnings : WriteNotice(i, w)
    \/ LoseLock
    \/ ReminderTick

ReminderSpec == ReminderInit /\ [][ReminderNext]_reminderVars

-----------------------------------------------------------------------------
ReminderTypeOK ==
    /\ now \in 0..Horizon
    /\ cronMode \in {"in-process", "http"}
    /\ cronLock \in Runners \cup {"free"}
    /\ \A i \in Runners : /\ runner[i].pc \in {"idle", "find", "filter", "loop", "mail"}
                          /\ runner[i].due \cup runner[i].cur \cup runner[i].read \subseteq Warnings
    /\ warned \in [Warnings -> Nat]
    /\ mailed \in [Warnings -> Nat]
    /\ covered \subseteq Warnings
    /\ lockLost \in 0..LockLosses

NotTwice ==
    \A w \in Warnings : mailed[w] <= warned[w] /\ warned[w] <= 1 + lockLost

CatchesUp == \A w \in covered : warned[w] > 0

\* Nobody is told twice of one threshold, by the bell or by mail, except
\* that each connection lost under a running job may cost one repetition; and
\* a run that ends well leaves nobody unwarned whose days left were, when it
\* read, in the window of a threshold, from just above the next smaller one
\* up, even if the runs before it were missed ("a cron that misses a day
\* still catches the window", subscriptions.service.ts lines 659 and 660).
WarnedOnce == NotTwice /\ CatchesUp
=============================================================================
