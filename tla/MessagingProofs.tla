-------------------------- MODULE MessagingProofs ---------------------------
(***************************************************************************)
(* Messaging for any artists, planners and number of requests in flight:   *)
(* the caps hold, no message stays unannounced while its handler lives,    *)
(* and nobody answers a request that has not been accepted.                *)
(*                                                                         *)
(* What each needs besides itself.  The cap on requests: the advisory lock *)
(* is exclusive, and a handler between its count and its insert holds room *)
(* for one more request.  The cap on messages: each handler that has       *)
(* passed the check is a message to come, and is counted with those sent.  *)
(* The notification: an end with an unread notice is not silent.  The last *)
(* one: what sendMessage read of the row may change before its insert, but *)
(* never back to pending.                                                  *)
(***************************************************************************)
EXTENDS Messaging, FiniteSetTheorems, TLAPS

Users == Artists \cup Planners
Statuses == {"none", "pending", "accepted", "declined"}
Stages == {"idle", "open", "lock", "count", "insert", "respond",
           "cap", "message", "notify", "write"}

ThreadState == [status : Statuses, by : Users \cup {Nobody}]
HandlerState == [pc : Stages, who : Users \cup {Nobody}, to : Conversations \cup {<<>>},
                 decision : {"none", "accepted", "declined"}]

Types ==
    /\ conversation \in [Conversations -> ThreadState]
    /\ handler \in [Handlers -> HandlerState]
    /\ onPass \subseteq PaidPlanners /\ passes \in 0..MaxPasses /\ deaths \in 0..MaxDeaths
    /\ sent \in [PaidPlanners -> Nat] /\ late \in [PaidPlanners -> Nat]
    /\ notice \in [Ends -> {"none", "unread", "read"}]
    /\ silent \subseteq Ends

\* A row names who initiated it exactly once it exists.
Signed == \A c \in Conversations :
    /\ conversation[c].by \in {c[1], c[2], Nobody}
    /\ conversation[c].status = "none" <=> conversation[c].by = Nobody

\* A request at work is about a pair, on behalf of one of the two, and what it
\* has read of the row allows what it is about to write.
Sound(x) ==
    /\ x.pc = "idle" => x = Free
    /\ x.pc # "idle" => x.to \in Conversations /\ x.who \in {x.to[1], x.to[2]}
    /\ x.pc \in {"lock", "count", "insert"} => x.who = x.to[1]
    /\ x.pc = "respond" => x.decision # "none" /\ conversation[x.to].status # "none"
    /\ x.pc \in {"cap", "message"} =>
           /\ conversation[x.to].status # "none"
           /\ conversation[x.to].status = "pending" => conversation[x.to].by = x.who

\* The advisory lock, and what it protects.
HoldsLock(x) == x.pc \in {"count", "insert"}

Exclusive == \A g, h \in Handlers :
    HoldsLock(handler[g]) /\ HoldsLock(handler[h]) /\ handler[g].who = handler[h].who => g = h

Room(a, n) == IsFiniteSet(Pending(a)) /\ Cardinality(Pending(a)) + n <= RequestCap

Queue ==
    /\ \A a \in Artists : Room(a, 0)
    /\ \A h \in Handlers : handler[h].pc = "insert" => Room(handler[h].who, 1)

Threads == Signed /\ (\A h \in Handlers : Sound(handler[h])) /\ Exclusive /\ Queue

\* The requests of u that are past the guard of the pass, and past its cap.
Guarded(u) == {h \in Handlers : handler[h].who = u /\ handler[h].pc \in {"cap", "message"}}
Allowed(u) == {h \in Handlers : handler[h].who = u /\ handler[h].pc = "message"}

Budget == \A u \in PaidPlanners :
    /\ u \in onPass => /\ sent[u] + Cardinality(Allowed(u)) <= MessageCap + Cardinality(Handlers) - 1
                       /\ late[u] = 0
    /\ u \notin onPass => /\ sent[u] <= MessageCap + Cardinality(Handlers) - 1
                          /\ late[u] + Cardinality(Guarded(u)) <= Cardinality(Handlers)

\* The end that a handler's message reaches.
EndOf(x) == <<x.to, Other(x.to, x.who)>>

Announced ==
    /\ \A end \in silent : notice[end] # "unread"
    /\ \A end \in silent :
          \/ \E h \in Handlers : handler[h].pc \in {"notify", "write"} /\ EndOf(handler[h]) = end
          \/ deaths > 0

IInv == Types /\ Threads /\ Budget /\ Announced

-----------------------------------------------------------------------------
LEMMA Pairs ==
    ASSUME NEW c \in Conversations
    PROVE  /\ c[1] \in Artists /\ c[2] \in Planners
           /\ c[1] # c[2] /\ c[1] # Nobody /\ c[2] # Nobody
  BY MessagingAssumption DEF Conversations

\* Fewer wait, and there is still room.
LEMMA RoomKept ==
    ASSUME NEW a, NEW n \in {0, 1}, Room(a, n), Pending(a)' \subseteq Pending(a)
    PROVE  Room(a, n)'
  <1>1. IsFiniteSet(Pending(a)')
    BY FS_Subset DEF Room
  <1>2. Cardinality(Pending(a)') <= Cardinality(Pending(a))
    BY FS_Subset DEF Room
  <1>3. Cardinality(Pending(a)') \in Nat /\ Cardinality(Pending(a)) \in Nat
    BY <1>1, FS_CardinalityType DEF Room
  <1> QED BY <1>1, <1>2, <1>3, MessagingAssumption DEF Room

LEMMA RoomUsed ==
    ASSUME NEW a, NEW c, Room(a, 1), Pending(a)' = Pending(a) \cup {c}
    PROVE  Room(a, 0)'
  <1>1. Cardinality(Pending(a)) \in Nat /\ IsFiniteSet(Pending(a))
    BY FS_CardinalityType DEF Room
  <1>2. /\ IsFiniteSet(Pending(a)')
        /\ Cardinality(Pending(a)') = IF c \in Pending(a) THEN Cardinality(Pending(a))
                                      ELSE Cardinality(Pending(a)) + 1
    BY <1>1, FS_AddElement
  <1> QED BY <1>1, <1>2, MessagingAssumption DEF Room

-----------------------------------------------------------------------------
\* The threads, and what is known of each request at work.

\* A request steps on, and no row changes.
LEMMA ThreadsKept ==
    ASSUME Types, Threads, NEW h \in Handlers, NEW x \in HandlerState,
           handler' = [handler EXCEPT ![h] = x], conversation' = conversation,
           Sound(x),
           HoldsLock(x) =>
               \/ HoldsLock(handler[h]) /\ x.who = handler[h].who
               \/ LockFree(x.who),
           x.pc = "insert" => Room(x.who, 1)
    PROVE  Threads'
  <1>1. \A g \in Handlers : handler'[g] = IF g = h THEN x ELSE handler[g]
    BY DEF Types
  <1>2. Signed'
    BY DEF Threads, Signed
  <1>3. \A g \in Handlers : Sound(handler[g])'
    BY <1>1 DEF Threads, Sound
  <1>4. Exclusive'
    <2> SUFFICES ASSUME NEW f \in Handlers, NEW g \in Handlers, f # g,
                        HoldsLock(handler'[f]), HoldsLock(handler'[g]),
                        handler'[f].who = handler'[g].who
                 PROVE  FALSE
      BY DEF Exclusive, HoldsLock
    <2>1. CASE f # h /\ g # h
      BY <1>1, <2>1 DEF Threads, Exclusive
    <2>2. CASE f = h
      BY <1>1, <2>2 DEF Threads, Exclusive, LockFree, HoldsLock
    <2>3. CASE g = h
      BY <1>1, <2>3 DEF Threads, Exclusive, LockFree, HoldsLock
    <2> QED BY <2>1, <2>2, <2>3
  <1>5. \A a : Pending(a)' = Pending(a)
    BY DEF Pending
  <1>6. Queue'
    BY <1>1, <1>5 DEF Threads, Queue, Room
  <1> QED BY <1>2, <1>3, <1>4, <1>6 DEF Threads

\* A request writes one row and ends.  A row that exists keeps its initiator
\* and does not go back to pending; a new pending one uses up the room that
\* its handler was holding.
LEMMA ThreadsWritten ==
    ASSUME Types, Threads, NEW h \in Handlers, NEW c \in Conversations, NEW y \in ThreadState,
           handler' = [handler EXCEPT ![h] = Free], conversation' = [conversation EXCEPT ![c] = y],
           y.status # "none", y.by \in {c[1], c[2]},
           conversation[c].status # "none" => y.by = conversation[c].by /\ y.status # "pending",
           y.status = "pending" => /\ handler[h].pc = "insert"
                                   /\ y.by = handler[h].who /\ y.by = c[1]
    PROVE  Threads'
  <1>1. \A g \in Handlers : handler'[g] = IF g = h THEN Free ELSE handler[g]
    BY DEF Types
  <1>2. \A d \in Conversations : conversation'[d] = IF d = c THEN y ELSE conversation[d]
    BY DEF Types
  <1>3. Signed'
    BY <1>2, Pairs DEF Threads, Signed
  <1>4. \A g \in Handlers : Sound(handler[g])'
    <2> SUFFICES ASSUME NEW g \in Handlers
                 PROVE  Sound(handler[g])'
      OBVIOUS
    <2>1. CASE g = h
      BY <1>1, <2>1 DEF Sound, Free
    <2>2. CASE g # h
      <3>1. handler'[g] = handler[g] /\ Sound(handler[g])
        BY <1>1, <2>2 DEF Threads
      <3> QED BY <1>2, <3>1 DEF Sound
    <2> QED BY <2>1, <2>2
  <1>5. Exclusive'
    BY <1>1 DEF Threads, Exclusive, HoldsLock, Free
  <1>6. ASSUME NEW a, ~(y.status = "pending" /\ a = c[1])
        PROVE  Pending(a)' \subseteq Pending(a)
    BY <1>2, <1>6 DEF Pending
  <1>7. y.status = "pending" => Pending(c[1])' = Pending(c[1]) \cup {c}
    BY <1>2 DEF Pending, ThreadState
  <1>8. ASSUME NEW a \in Artists PROVE Room(a, 0)'
    <2>1. CASE y.status = "pending" /\ a = c[1]
      <3>1. Room(c[1], 1)
        BY <2>1 DEF Threads, Queue
      <3> QED BY <1>7, <2>1, <3>1, RoomUsed
    <2>2. CASE ~(y.status = "pending" /\ a = c[1])
      BY <1>6, <2>2, RoomKept DEF Threads, Queue
    <2> QED BY <2>1, <2>2
  <1>9. ASSUME NEW g \in Handlers, handler'[g].pc = "insert" PROVE Room(handler[g].who, 1)'
    <2>1. g # h /\ handler'[g] = handler[g]
      BY <1>1, <1>9 DEF Free
    <2>2. PICK a : a = handler[g].who
      OBVIOUS
    <2>3. Room(a, 1) /\ ~(y.status = "pending" /\ a = c[1])
      BY <1>9, <2>1, <2>2 DEF Threads, Queue, Exclusive, HoldsLock
    <2>4. Room(a, 1)'
      BY <1>6, <2>3, RoomKept
    <2> QED BY <2>1, <2>2, <2>4 DEF Room, Pending
  <1> QED BY <1>3, <1>4, <1>5, <1>8, <1>9 DEF Threads, Queue

-----------------------------------------------------------------------------
\* The messages of a pass.

LEMMA Sizes ==
    /\ Cardinality(Handlers) \in Nat
    /\ \A S \in SUBSET Handlers : /\ IsFiniteSet(S) /\ Cardinality(S) \in Nat
                                  /\ Cardinality(S) <= Cardinality(Handlers)
                                  /\ \A T \in SUBSET S : Cardinality(T) <= Cardinality(S)
                                  /\ \A h \in S : Cardinality(S \ {h}) = Cardinality(S) - 1
  <1>1. IsFiniteSet(Handlers)
    BY MessagingAssumption
  <1>2. Cardinality(Handlers) \in Nat
    BY <1>1, FS_CardinalityType
  <1>3. ASSUME NEW S \in SUBSET Handlers
        PROVE  /\ IsFiniteSet(S) /\ Cardinality(S) \in Nat
               /\ Cardinality(S) <= Cardinality(Handlers)
               /\ \A T \in SUBSET S : Cardinality(T) <= Cardinality(S)
               /\ \A h \in S : Cardinality(S \ {h}) = Cardinality(S) - 1
    <2>1. IsFiniteSet(S) /\ Cardinality(S) <= Cardinality(Handlers)
      BY <1>1, FS_Subset
    <2>2. Cardinality(S) \in Nat
      BY <2>1, FS_CardinalityType
    <2>3. \A T \in SUBSET S : Cardinality(T) <= Cardinality(S)
      BY <2>1, FS_Subset
    <2>4. \A h \in S : Cardinality(S \ {h}) = Cardinality(S) - 1
      BY <2>1, FS_RemoveElement
    <2> QED BY <2>1, <2>2, <2>3, <2>4
  <1> QED BY <1>2, <1>3

\* A request steps on and nothing is sent: whoever passes the cap had some of
\* it left, and whoever passes the guard had a live pass.
LEMMA BudgetKept ==
    ASSUME Types, Budget, NEW h \in Handlers, NEW x \in HandlerState,
           handler' = [handler EXCEPT ![h] = x],
           onPass' = onPass, sent' = sent, late' = late,
           x.pc = "message" => ~Spent(x.who),
           x.pc \in {"cap", "message"} =>
               \/ handler[h].pc \in {"cap", "message"} /\ handler[h].who = x.who
               \/ x.who \in onPass
               \/ x.who \notin PaidPlanners
    PROVE  Budget'
  <1>1. \A g \in Handlers : handler'[g] = IF g = h THEN x ELSE handler[g]
    BY DEF Types
  <1> SUFFICES ASSUME NEW u \in PaidPlanners
               PROVE  /\ u \in onPass =>
                            /\ sent[u] + Cardinality(Allowed(u)') <= MessageCap + Cardinality(Handlers) - 1
                            /\ late[u] = 0
                      /\ u \notin onPass =>
                            /\ sent[u] <= MessageCap + Cardinality(Handlers) - 1
                            /\ late[u] + Cardinality(Guarded(u)') <= Cardinality(Handlers)
    BY DEF Budget
  <1>2. Allowed(u) \in SUBSET Handlers /\ Guarded(u) \in SUBSET Handlers
    BY DEF Allowed, Guarded
  <1>3. Allowed(u)' \in SUBSET Handlers /\ Guarded(u)' \in SUBSET Handlers
    BY DEF Allowed, Guarded
  <1>4. sent[u] \in Nat /\ late[u] \in Nat /\ MessageCap \in Nat
    BY MessagingAssumption DEF Types
  <1>5. ASSUME u \in onPass
        PROVE  sent[u] + Cardinality(Allowed(u)') <= MessageCap + Cardinality(Handlers) - 1 /\ late[u] = 0
    <2>1. CASE x.pc = "message" /\ x.who = u
      <3>1. sent[u] < MessageCap
        BY <1>4, <1>5, <2>1 DEF Spent
      <3> QED BY <1>3, <1>4, <1>5, <3>1, Sizes DEF Budget
    <2>2. CASE ~(x.pc = "message" /\ x.who = u)
      <3>1. Allowed(u)' \subseteq Allowed(u)
        BY <1>1, <2>2 DEF Allowed
      <3>2. Cardinality(Allowed(u)') <= Cardinality(Allowed(u))
        BY <1>2, <3>1, Sizes
      <3> QED BY <1>2, <1>3, <1>4, <1>5, <3>2, Sizes DEF Budget
    <2> QED BY <2>1, <2>2
  <1>6. ASSUME u \notin onPass
        PROVE  /\ sent[u] <= MessageCap + Cardinality(Handlers) - 1
               /\ late[u] + Cardinality(Guarded(u)') <= Cardinality(Handlers)
    <2>1. Guarded(u)' \subseteq Guarded(u)
      BY <1>1, <1>6 DEF Guarded
    <2>2. Cardinality(Guarded(u)') <= Cardinality(Guarded(u))
      BY <1>2, <2>1, Sizes
    <2> QED BY <1>2, <1>3, <1>4, <1>6, <2>2, Sizes DEF Budget
  <1> QED BY <1>5, <1>6

\* A message to come becomes a message sent.
LEMMA BudgetSpent ==
    ASSUME Types, Budget, NEW h \in Handlers, InsertMessage(h)
    PROVE  Budget'
  <1> DEFINE w == handler[h].who
  <1>1. \A g \in Handlers : /\ g # h => handler'[g] = handler[g]
                            /\ handler'[h].pc = "notify"
    BY DEF Types, InsertMessage, Become, HandlerState
  <1>2. handler[h].pc = "message" /\ onPass' = onPass
    BY DEF InsertMessage
  <1>3. \A u \in PaidPlanners :
           /\ sent'[u] = IF u = w /\ w \in onPass THEN sent[u] + 1 ELSE sent[u]
           /\ late'[u] = IF u = w /\ w \in PaidPlanners \ onPass THEN late[u] + 1 ELSE late[u]
    BY DEF Types, InsertMessage
  <1> SUFFICES ASSUME NEW u \in PaidPlanners
               PROVE  /\ u \in onPass =>
                            /\ sent'[u] + Cardinality(Allowed(u)') <= MessageCap + Cardinality(Handlers) - 1
                            /\ late'[u] = 0
                      /\ u \notin onPass =>
                            /\ sent'[u] <= MessageCap + Cardinality(Handlers) - 1
                            /\ late'[u] + Cardinality(Guarded(u)') <= Cardinality(Handlers)
    BY <1>2 DEF Budget
  <1>4. /\ Allowed(u) \in SUBSET Handlers /\ Guarded(u) \in SUBSET Handlers
        /\ Allowed(u)' \in SUBSET Handlers /\ Guarded(u)' \in SUBSET Handlers
    BY DEF Allowed, Guarded
  <1>5. sent[u] \in Nat /\ late[u] \in Nat /\ MessageCap \in Nat
    BY MessagingAssumption DEF Types
  <1>6. CASE u = w
    <2>1. /\ Allowed(u)' = Allowed(u) \ {h} /\ h \in Allowed(u)
          /\ Guarded(u)' = Guarded(u) \ {h} /\ h \in Guarded(u)
      BY <1>1, <1>2, <1>6 DEF Allowed, Guarded
    <2>2. /\ Cardinality(Allowed(u)') = Cardinality(Allowed(u)) - 1
          /\ Cardinality(Guarded(u)') = Cardinality(Guarded(u)) - 1
      BY <1>4, <2>1, Sizes
    <2> HIDE DEF w
    <2> QED BY <1>3, <1>4, <1>5, <1>6, <2>2, Sizes DEF Budget
  <1>7. CASE u # w
    <2>1. Allowed(u)' = Allowed(u) /\ Guarded(u)' = Guarded(u)
      BY <1>1, <1>2, <1>7 DEF Allowed, Guarded
    <2> HIDE DEF w
    <2> QED BY <1>3, <1>7, <2>1 DEF Budget
  <1> QED BY <1>6, <1>7

LEMMA BudgetOfPass ==
    ASSUME Types, Budget, NEW v \in PaidPlanners, PassStarts(v) \/ PassEnds(v)
    PROVE  Budget'
  <1> SUFFICES ASSUME NEW u \in PaidPlanners
               PROVE  /\ u \in onPass' =>
                            /\ sent'[u] + Cardinality(Allowed(u)') <= MessageCap + Cardinality(Handlers) - 1
                            /\ late'[u] = 0
                      /\ u \notin onPass' =>
                            /\ sent'[u] <= MessageCap + Cardinality(Handlers) - 1
                            /\ late'[u] + Cardinality(Guarded(u)') <= Cardinality(Handlers)
    BY DEF Budget
  <1>1. Allowed(u) \in SUBSET Handlers /\ Guarded(u) \in SUBSET Handlers
    BY DEF Allowed, Guarded
  <1>2. Allowed(u)' = Allowed(u) /\ Guarded(u)' = Guarded(u)
    BY DEF Allowed, Guarded, PassStarts, PassEnds
  <1>3. sent[u] \in Nat /\ late[u] \in Nat /\ MessageCap \in Nat /\ MessageCap > 0
    BY MessagingAssumption DEF Types
  <1>4. CASE PassStarts(v)
    <2>1. /\ v # u => sent'[u] = sent[u] /\ late'[u] = late[u] /\ (u \in onPass' <=> u \in onPass)
          /\ v = u => sent'[u] = 0 /\ late'[u] = 0 /\ u \in onPass'
      BY <1>4 DEF PassStarts, Types
    <2> QED BY <1>1, <1>2, <1>3, <2>1, Sizes DEF Budget
  <1>5. CASE PassEnds(v)
    <2>1. /\ sent'[u] = sent[u] /\ late'[u] = late[u]
          /\ v # u => (u \in onPass' <=> u \in onPass)
          /\ v = u => u \in onPass /\ u \notin onPass'
      BY <1>5 DEF PassEnds
    <2> QED BY <1>1, <1>2, <1>3, <2>1, Sizes DEF Budget
  <1> QED BY <1>4, <1>5

-----------------------------------------------------------------------------
\* The notices.

LEMMA EndsReached ==
    ASSUME Threads, NEW h \in Handlers, handler[h].pc # "idle"
    PROVE  EndOf(handler[h]) \in Ends
  <1>1. handler[h].to \in Conversations /\ handler[h].who \in {handler[h].to[1], handler[h].to[2]}
    BY DEF Threads, Sound
  <1> QED BY <1>1, Pairs DEF EndOf, Other, Ends

\* A request that owes a notice goes on, or its message turned out announced.
LEMMA AnnouncedKept ==
    ASSUME Types, Announced, NEW h \in Handlers, NEW x \in HandlerState,
           handler' = [handler EXCEPT ![h] = x],
           notice' = notice, silent' = silent, deaths' \in Nat, deaths' >= deaths,
           handler[h].pc \in {"notify", "write"} =>
               \/ x.pc \in {"notify", "write"} /\ EndOf(x) = EndOf(handler[h])
               \/ EndOf(handler[h]) \notin silent
               \/ deaths' > 0
    PROVE  Announced'
  <1>1. \A g \in Handlers : handler'[g] = IF g = h THEN x ELSE handler[g]
    BY DEF Types
  <1>2. deaths \in Nat
    BY DEF Types
  <1>3. ASSUME NEW end \in silent, deaths' = 0
        PROVE  \E g \in Handlers : handler'[g].pc \in {"notify", "write"} /\ EndOf(handler'[g]) = end
    <2>1. PICK g \in Handlers : handler[g].pc \in {"notify", "write"} /\ EndOf(handler[g]) = end
      BY <1>2, <1>3 DEF Announced
    <2>2. CASE g = h
      BY <1>1, <1>3, <2>1, <2>2
    <2>3. CASE g # h
      BY <1>1, <2>1, <2>3
    <2> QED BY <2>2, <2>3
  <1> QED BY <1>3 DEF Announced, EndOf, Other

LEMMA AnnouncedOwed ==
    ASSUME Types, Threads, Announced, NEW h \in Handlers, InsertMessage(h)
    PROVE  Announced' /\ silent' \subseteq Ends
  <1> DEFINE e == EndOf(handler[h])
  <1>1. \A g \in Handlers : /\ g # h => handler'[g] = handler[g]
                            /\ handler'[h].pc = "notify"
                            /\ handler'[h].to = handler[h].to /\ handler'[h].who = handler[h].who
    BY DEF Types, InsertMessage, Become, HandlerState
  <1>2. /\ silent' = IF notice[e] = "unread" THEN silent ELSE silent \cup {e}
        /\ notice' = notice /\ deaths' = deaths
        /\ handler[h].pc = "message"
    BY DEF InsertMessage, EndOf
  <1>3. EndOf(handler'[h]) = e
    BY <1>1 DEF EndOf
  <1>4. e \in Ends
    BY <1>2, EndsReached
  <1>5. ASSUME NEW end \in silent', ~(deaths > 0)
        PROVE  \E g \in Handlers : handler'[g].pc \in {"notify", "write"} /\ EndOf(handler'[g]) = end
    <2>1. CASE end = e
      BY <1>1, <1>3, <2>1
    <2>2. CASE end # e
      <3>1. PICK g \in Handlers : handler[g].pc \in {"notify", "write"} /\ EndOf(handler[g]) = end
        BY <1>2, <1>5, <2>2 DEF Announced
      <3>2. g # h
        BY <1>2, <3>1
      <3> QED BY <1>1, <3>1, <3>2
    <2> QED BY <2>1, <2>2
  <1>6. \A end \in silent' : notice'[end] # "unread"
    BY <1>2 DEF Announced
  <1>7. silent' \subseteq Ends
    BY <1>2, <1>4 DEF Types
  <1> HIDE DEF e
  <1> QED BY <1>2, <1>5, <1>6, <1>7 DEF Announced, EndOf, Other

LEMMA AnnouncedPaid ==
    ASSUME Types, Threads, Announced, NEW h \in Handlers, InsertNotice(h)
    PROVE  /\ Announced' /\ silent' \subseteq Ends
           /\ notice' \in [Ends -> {"none", "unread", "read"}]
  <1> DEFINE e == EndOf(handler[h])
  <1>1. \A g \in Handlers : g # h => handler'[g] = handler[g]
    BY DEF Types, InsertNotice, Finish
  <1>2. /\ silent' = silent \ {e}
        /\ notice' = [notice EXCEPT ![e] = "unread"] /\ deaths' = deaths
    BY DEF InsertNotice, EndOf
  <1>3. \A end \in silent' : notice'[end] = notice[end]
    BY <1>2 DEF Types
  <1>4. ASSUME NEW end \in silent', ~(deaths > 0)
        PROVE  \E g \in Handlers : handler'[g].pc \in {"notify", "write"} /\ EndOf(handler'[g]) = end
    <2>1. PICK g \in Handlers : handler[g].pc \in {"notify", "write"} /\ EndOf(handler[g]) = end
      BY <1>2, <1>4 DEF Announced
    <2>2. g # h
      BY <1>2, <2>1
    <2> QED BY <1>1, <2>1, <2>2
  <1>5. silent' \subseteq Ends /\ notice' \in [Ends -> {"none", "unread", "read"}]
    BY <1>2 DEF Types
  <1> HIDE DEF e
  <1> QED BY <1>2, <1>3, <1>4, <1>5 DEF Announced, EndOf, Other

-----------------------------------------------------------------------------
\* Any step that only moves one request on.
LEMMA OneRequest ==
    ASSUME IInv, NEW h \in Handlers, NEW x \in HandlerState,
           handler' = [handler EXCEPT ![h] = x],
           Sound(x),
           HoldsLock(x) =>
               \/ HoldsLock(handler[h]) /\ x.who = handler[h].who
               \/ LockFree(x.who),
           x.pc = "insert" => Room(x.who, 1),
           x.pc = "message" => ~Spent(x.who),
           x.pc \in {"cap", "message"} =>
               \/ handler[h].pc \in {"cap", "message"} /\ handler[h].who = x.who
               \/ x.who \in onPass
               \/ x.who \notin PaidPlanners,
           handler[h].pc \in {"notify", "write"} =>
               \/ x.pc \in {"notify", "write"} /\ EndOf(x) = EndOf(handler[h])
               \/ EndOf(handler[h]) \notin silent
               \/ deaths' > 0,
           UNCHANGED <<conversation, onPass, passes, sent, late, notice, silent>>,
           deaths' \in 0..MaxDeaths, deaths' >= deaths
    PROVE  IInv'
  <1>1. Types'
    BY DEF IInv, Types
  <1>2. Threads'
    BY ThreadsKept DEF IInv
  <1>3. Budget'
    BY BudgetKept DEF IInv
  <1>4. Announced'
    <2>1. Types /\ Announced /\ deaths' \in Nat
      BY DEF IInv
    <2>2. notice' = notice /\ silent' = silent
      OBVIOUS
    <2> QED BY <2>1, <2>2, AnnouncedKept
  <1> QED BY <1>1, <1>2, <1>3, <1>4 DEF IInv

-----------------------------------------------------------------------------
\* The requests, one lemma for each kind.

LEMMA BeginStep ==
    ASSUME IInv, NEW h \in Handlers, NEW pc \in {"open", "lock", "respond", "cap"},
           NEW c \in Conversations, NEW who \in {c[1], c[2]},
           NEW decision \in {"none", "accepted", "declined"},
           Begin(h, pc, who, c, decision),
           pc = "lock" => who = c[1],
           pc = "respond" => decision # "none" /\ conversation[c].status # "none",
           pc = "cap" => /\ MayWrite(c, who)
                         /\ who \in Planners => who \in onPass,
           UNCHANGED <<conversation, onPass, passes, sent, late, notice, silent, deaths>>
    PROVE  IInv'
  <1> DEFINE x == [pc |-> pc, who |-> who, to |-> c, decision |-> decision]
  <1>1. x \in HandlerState
    BY Pairs DEF HandlerState, Stages, Users
  <1>2. handler' = [handler EXCEPT ![h] = x] /\ handler[h].pc = "idle"
    BY DEF Begin, Free
  <1>3. /\ x.pc \in {"open", "lock", "respond", "cap"} /\ x.who = who /\ x.to = c
        /\ x.decision = decision /\ x.pc = pc
    OBVIOUS
  <1> HIDE DEF x
  <1>4. Sound(x)
    BY <1>3 DEF Sound, MayWrite
  <1>5. x.pc = "cap" => x.who \in onPass \/ x.who \notin PaidPlanners
    BY <1>3, MessagingAssumption
  <1>6. deaths' \in 0..MaxDeaths /\ deaths' >= deaths
    BY DEF IInv, Types
  <1> QED BY <1>1, <1>2, <1>3, <1>4, <1>5, <1>6, OneRequest DEF HoldsLock

\* A request that ends without having written anything more.
LEMMA FinishStep ==
    ASSUME IInv, NEW h \in Handlers, Finish(h),
           handler[h].pc \in {"notify", "write"} =>
               EndOf(handler[h]) \notin silent \/ deaths' > 0,
           UNCHANGED <<conversation, onPass, passes, sent, late, notice, silent>>,
           deaths' \in 0..MaxDeaths, deaths' >= deaths
    PROVE  IInv'
  <1>1. /\ Free \in HandlerState /\ Free.pc = "idle" /\ Sound(Free)
    BY DEF Free, HandlerState, Stages, Sound
  <1> QED BY <1>1, OneRequest DEF Finish, HoldsLock

\* A request that goes on to its next statement.
LEMMA BecomeStep ==
    ASSUME IInv, NEW h \in Handlers,
           NEW pc \in {"count", "insert", "message", "write"}, Become(h, pc),
           pc = "count" => handler[h].pc = "lock" /\ LockFree(handler[h].who),
           pc = "insert" => handler[h].pc = "count" /\ Room(handler[h].who, 1),
           pc = "message" => handler[h].pc = "cap" /\ ~Spent(handler[h].who),
           pc = "write" => handler[h].pc = "notify",
           UNCHANGED <<conversation, onPass, passes, sent, late, notice, silent, deaths>>
    PROVE  IInv'
  <1> DEFINE x == [handler[h] EXCEPT !.pc = pc]
  <1>1. handler[h] \in HandlerState
    BY DEF IInv, Types
  <1>2. /\ x \in HandlerState /\ x.pc = pc /\ x.who = handler[h].who
        /\ x.to = handler[h].to /\ x.decision = handler[h].decision
    BY <1>1 DEF HandlerState, Stages
  <1>3. handler' = [handler EXCEPT ![h] = x]
    BY DEF Become
  <1> HIDE DEF x
  <1>4. Sound(handler[h]) /\ handler[h].pc # "idle" /\ pc # "idle"
    BY DEF IInv, Threads
  <1>5. Sound(x)
    BY <1>2, <1>4 DEF Sound
  <1>6. EndOf(x) = EndOf(handler[h])
    BY <1>2 DEF EndOf
  <1>7. deaths' \in 0..MaxDeaths /\ deaths' >= deaths
    BY DEF IInv, Types
  <1> QED BY <1>2, <1>3, <1>5, <1>6, <1>7, OneRequest DEF HoldsLock

\* A request that writes a row of its thread and ends.
LEMMA WriteStep ==
    ASSUME IInv, NEW h \in Handlers, NEW c \in Conversations, NEW y \in ThreadState,
           handler[h].pc \in {"open", "insert", "respond"},
           Finish(h), conversation' = [conversation EXCEPT ![c] = y],
           y.status # "none", y.by \in {c[1], c[2]},
           conversation[c].status # "none" => y.by = conversation[c].by /\ y.status # "pending",
           y.status = "pending" => /\ handler[h].pc = "insert"
                                   /\ y.by = handler[h].who /\ y.by = c[1],
           UNCHANGED <<onPass, passes, sent, late, notice, silent, deaths>>
    PROVE  IInv'
  <1>1. Free \in HandlerState /\ Free.pc = "idle"
    BY DEF Free, HandlerState, Stages
  <1>2. Types'
    BY <1>1 DEF IInv, Types, Finish
  <1>3. Threads'
    BY ThreadsWritten DEF IInv, Finish
  <1>4. Budget'
    BY <1>1, BudgetKept DEF IInv, Finish
  <1>5. deaths' \in Nat /\ deaths' >= deaths
    BY MessagingAssumption DEF IInv, Types
  <1>6. Announced'
    <2>1. Types /\ Announced /\ handler[h].pc \notin {"notify", "write"}
      BY DEF IInv
    <2>2. notice' = notice /\ silent' = silent
      OBVIOUS
    <2> QED BY <1>1, <1>5, <2>1, <2>2, AnnouncedKept DEF Finish
  <1> QED BY <1>2, <1>3, <1>4, <1>6 DEF IInv

-----------------------------------------------------------------------------
\* The actions.

LEMMA RequestArrives ==
    ASSUME IInv, NEW h \in Handlers, NEW c \in Conversations,
           \/ StartAsPlanner(h, c) \/ StartAsArtist(h, c) \/ Respond(h, c)
           \/ \E u \in Artists \cup Planners : Send(h, c, u)
    PROVE  IInv'
  <1>1. CASE StartAsPlanner(h, c)
    BY <1>1, BeginStep DEF StartAsPlanner
  <1>2. CASE StartAsArtist(h, c)
    BY <1>2, BeginStep DEF StartAsArtist
  <1>3. CASE Respond(h, c)
    <2>1. PICK decision \in {"accepted", "declined"} : Begin(h, "respond", c[2], c, decision)
      BY <1>3 DEF Respond
    <2> QED BY <1>3, <2>1, BeginStep DEF Respond
  <1>4. ASSUME NEW u \in Artists \cup Planners, Send(h, c, u) PROVE IInv'
    <2>1. u \in {c[1], c[2]} /\ Begin(h, "cap", u, c, "none") /\ MayWrite(c, u)
          /\ (u \in Planners => u \in onPass)
      BY <1>4 DEF Send
    <2>2. UNCHANGED <<conversation, onPass, passes, sent, late, notice, silent, deaths>>
      BY <1>4 DEF Send
    <2> QED BY <2>1, <2>2, BeginStep
  <1> QED BY <1>1, <1>2, <1>3, <1>4

LEMMA Thread ==
    ASSUME IInv, NEW h \in Handlers, OpenThread(h) \/ InsertRequest(h) \/ WriteDecision(h)
    PROVE  IInv'
  <1>1. /\ handler[h].to \in Conversations
        /\ handler[h].who \in {handler[h].to[1], handler[h].to[2]}
        /\ handler[h].who \in Users
        /\ Sound(handler[h])
    BY Pairs DEF IInv, Threads, Sound, OpenThread, InsertRequest, WriteDecision, Users
  <1>2. deaths \in 0..MaxDeaths
    BY DEF IInv, Types
  <1>3. deaths >= deaths
    BY <1>2
  <1>4. ASSUME NEW status \in {"pending", "accepted"}, InsertThread(handler[h].to, status, handler[h].who),
               handler[h].pc \in {"open", "insert"}, Finish(h),
               status = "pending" => handler[h].pc = "insert" /\ handler[h].who = handler[h].to[1],
               UNCHANGED <<onPass, passes, sent, late, notice, silent, deaths>>
        PROVE  IInv'
    <2> DEFINE y == [status |-> status, by |-> handler[h].who]
    <2>1. y \in ThreadState /\ y.status = status /\ y.by = handler[h].who
      BY <1>1 DEF ThreadState, Statuses
    <2>2. conversation' = [conversation EXCEPT ![handler[h].to] = y]
      BY <1>4 DEF InsertThread
    <2>3. conversation[handler[h].to].status = "none"
      BY <1>4 DEF InsertThread, NoThread
    <2> HIDE DEF y
    <2> QED BY <1>1, <1>4, <2>1, <2>2, <2>3, WriteStep
  <1>5. CASE OpenThread(h)
    <2>1. CASE InsertThread(handler[h].to, "accepted", handler[h].who)
      BY <1>4, <1>5, <2>1 DEF OpenThread
    <2>2. CASE UNCHANGED conversation
      BY <1>2, <1>3, <1>5, <2>2, FinishStep DEF OpenThread
    <2> QED BY <1>5, <2>1, <2>2 DEF OpenThread
  <1>6. CASE InsertRequest(h)
    <2>1. handler[h].who = handler[h].to[1]
      BY <1>1, <1>6 DEF InsertRequest, Sound
    <2>2. CASE InsertThread(handler[h].to, "pending", handler[h].who)
      BY <1>4, <1>6, <2>1, <2>2 DEF InsertRequest
    <2>3. CASE UNCHANGED conversation
      BY <1>2, <1>3, <1>6, <2>3, FinishStep DEF InsertRequest
    <2> QED BY <1>6, <2>2, <2>3 DEF InsertRequest
  <1>7. CASE WriteDecision(h)
    <2> DEFINE c == handler[h].to
               y == [conversation[c] EXCEPT !.status = handler[h].decision]
    <2>1. conversation[c] \in ThreadState /\ handler[h].decision \in {"none", "accepted", "declined"}
      BY <1>1 DEF IInv, Types, HandlerState
    <2>2. handler[h].decision # "none" /\ conversation[c].status # "none"
      BY <1>1, <1>7 DEF WriteDecision, Sound
    <2>3. conversation[c].by \in {c[1], c[2]}
      BY <1>1, <2>2 DEF IInv, Threads, Signed
    <2>4. y \in ThreadState /\ y.by = conversation[c].by /\ y.status \in {"accepted", "declined"}
      BY <2>1, <2>2 DEF ThreadState, Statuses
    <2>5. conversation' = [conversation EXCEPT ![c] = y]
      BY <1>7 DEF WriteDecision
    <2> HIDE DEF y
    <2> QED BY <1>1, <1>7, <2>3, <2>4, <2>5, WriteStep DEF WriteDecision
  <1> QED BY <1>5, <1>6, <1>7

LEMMA RequestGoesOn ==
    ASSUME IInv, NEW h \in Handlers,
           \/ TakeLock(h) \/ CountPending(h) \/ CheckCap(h) \/ CheckUnread(h) \/ HandlerDies(h)
    PROVE  IInv'
  <1>1. deaths \in 0..MaxDeaths
    BY DEF IInv, Types
  <1>2. CASE TakeLock(h)
    BY <1>2, BecomeStep DEF TakeLock
  <1>3. CASE CountPending(h)
    <2>1. handler[h].who \in Artists /\ handler[h].pc = "count"
      BY <1>3, Pairs DEF CountPending, IInv, Threads, Sound
    <2>2. CASE Cardinality(Pending(handler[h].who)) >= RequestCap /\ Finish(h)
      BY <1>1, <1>3, <2>1, <2>2, FinishStep DEF CountPending
    <2>3. CASE ~(Cardinality(Pending(handler[h].who)) >= RequestCap) /\ Become(h, "insert")
      <3>1. IsFiniteSet(Pending(handler[h].who))
        BY <2>1 DEF IInv, Threads, Queue, Room
      <3>2. Cardinality(Pending(handler[h].who)) \in Nat
        BY <3>1, FS_CardinalityType
      <3>3. Room(handler[h].who, 1)
        BY <2>3, <3>1, <3>2, MessagingAssumption DEF Room
      <3> QED BY <1>3, <2>1, <2>3, <3>3, BecomeStep DEF CountPending
    <2> QED BY <1>3, <2>2, <2>3 DEF CountPending
  <1>4. CASE CheckCap(h)
    <2>1. CASE Spent(handler[h].who) /\ Finish(h)
      BY <1>1, <1>4, <2>1, FinishStep DEF CheckCap
    <2>2. CASE ~Spent(handler[h].who) /\ Become(h, "message")
      BY <1>4, <2>2, BecomeStep DEF CheckCap
    <2> QED BY <1>4, <2>1, <2>2 DEF CheckCap
  <1>5. CASE CheckUnread(h)
    <2>1. CASE Covered(EndOf(handler[h])) /\ Finish(h)
      <3>1. EndOf(handler[h]) \notin silent
        BY <2>1 DEF Covered, IInv, Announced
      <3> QED BY <1>1, <1>5, <2>1, <3>1, FinishStep DEF CheckUnread
    <2>2. CASE Become(h, "write")
      BY <1>5, <2>2, BecomeStep DEF CheckUnread
    <2> QED BY <1>5, <2>1, <2>2 DEF CheckUnread, EndOf
  <1>6. CASE HandlerDies(h)
    <2>1. deaths' \in 0..MaxDeaths /\ deaths' >= deaths /\ deaths' > 0
      BY <1>1, <1>6, MessagingAssumption DEF HandlerDies
    <2> QED BY <1>6, <2>1, FinishStep DEF HandlerDies
  <1> QED BY <1>2, <1>3, <1>4, <1>5, <1>6

LEMMA MessageStep ==
    ASSUME IInv, NEW h \in Handlers, InsertMessage(h)
    PROVE  IInv'
  <1> DEFINE x == [handler[h] EXCEPT !.pc = "notify"]
  <1>1. handler[h] \in HandlerState /\ handler[h].pc = "message"
    BY DEF IInv, Types, InsertMessage
  <1>2. x \in HandlerState /\ x.pc = "notify" /\ x.who = handler[h].who /\ x.to = handler[h].to
    BY <1>1 DEF HandlerState, Stages
  <1>3. handler' = [handler EXCEPT ![h] = x] /\ conversation' = conversation
    BY DEF InsertMessage, Become
  <1> HIDE DEF x
  <1>4. Announced' /\ silent' \subseteq Ends
    BY AnnouncedOwed DEF IInv
  <1>5. Budget'
    BY BudgetSpent DEF IInv
  <1>6. Sound(x)
    BY <1>1, <1>2 DEF IInv, Threads, Sound
  <1>7. Threads'
    BY <1>2, <1>3, <1>6, ThreadsKept DEF IInv, HoldsLock
  <1>8. sent' \in [PaidPlanners -> Nat] /\ late' \in [PaidPlanners -> Nat]
    BY DEF IInv, Types, InsertMessage
  <1>9. handler' \in [Handlers -> HandlerState]
    BY <1>2, <1>3 DEF IInv, Types
  <1>10. Types'
    BY <1>3, <1>4, <1>8, <1>9 DEF IInv, Types, InsertMessage
  <1> QED BY <1>4, <1>5, <1>7, <1>10 DEF IInv

LEMMA NoticeStep ==
    ASSUME IInv, NEW h \in Handlers, InsertNotice(h)
    PROVE  IInv'
  <1>1. Free \in HandlerState /\ Free.pc = "idle" /\ Sound(Free)
    BY DEF Free, HandlerState, Stages, Sound
  <1>2. handler' = [handler EXCEPT ![h] = Free]
        /\ UNCHANGED <<conversation, onPass, passes, sent, late, deaths>>
    BY DEF InsertNotice, Finish
  <1>3. /\ Announced' /\ silent' \subseteq Ends
        /\ notice' \in [Ends -> {"none", "unread", "read"}]
    BY AnnouncedPaid DEF IInv
  <1>4. Budget'
    BY <1>1, <1>2, BudgetKept DEF IInv
  <1>5. Threads'
    BY <1>1, <1>2, ThreadsKept DEF IInv, HoldsLock
  <1>6. Types'
    BY <1>1, <1>2, <1>3 DEF IInv, Types
  <1> QED BY <1>3, <1>4, <1>5, <1>6 DEF IInv

\* What happens outside the requests.
LEMMA ThreadsUntouched ==
    ASSUME Threads, UNCHANGED <<conversation, handler>>
    PROVE  Threads'
  <1>1. \A a : Pending(a)' = Pending(a)
    BY DEF Pending
  <1>2. Signed' /\ Exclusive' /\ \A h \in Handlers : Sound(handler[h])'
    BY DEF Threads, Signed, Exclusive, HoldsLock, Sound
  <1>3. Queue'
    BY <1>1 DEF Threads, Queue, Room
  <1> QED BY <1>2, <1>3 DEF Threads

LEMMA AnnouncementsUntouched ==
    ASSUME Announced, UNCHANGED <<handler, silent, deaths>>,
           \A end \in silent : notice'[end] # "unread"
    PROVE  Announced'
  BY DEF Announced, EndOf, Other

LEMMA NoticeRead ==
    ASSUME IInv, NEW end \in Ends, ReadNotice(end)
    PROVE  IInv'
  <1>1. Types'
    BY DEF IInv, Types, ReadNotice
  <1>2. Threads'
    BY ThreadsUntouched DEF IInv, ReadNotice
  <1>3. Budget'
    BY DEF IInv, Budget, Allowed, Guarded, ReadNotice
  <1>4. \A e \in silent : notice'[e] # "unread"
    BY DEF IInv, Types, Announced, ReadNotice
  <1>5. Announced'
    BY <1>4, AnnouncementsUntouched DEF IInv, ReadNotice
  <1> QED BY <1>1, <1>2, <1>3, <1>5 DEF IInv

LEMMA PassStep ==
    ASSUME IInv, NEW u \in PaidPlanners, PassStarts(u) \/ PassEnds(u)
    PROVE  IInv'
  <1>1. UNCHANGED <<conversation, handler, notice, silent, deaths>>
    BY DEF PassStarts, PassEnds
  <1>2. Types'
    <2>1. CASE PassStarts(u)
      BY <2>1, MessagingAssumption DEF IInv, Types, PassStarts
    <2>2. CASE PassEnds(u)
      BY <2>2 DEF IInv, Types, PassEnds
    <2> QED BY <2>1, <2>2
  <1>3. Threads'
    BY <1>1, ThreadsUntouched DEF IInv
  <1>4. Budget'
    BY BudgetOfPass DEF IInv
  <1>5. Announced'
    BY <1>1, AnnouncementsUntouched DEF IInv, Announced
  <1> QED BY <1>2, <1>3, <1>4, <1>5 DEF IInv

LEMMA Stuttering ==
    ASSUME IInv, UNCHANGED messagingVars
    PROVE  IInv'
  <1>1. Types' /\ Budget'
    BY DEF IInv, Types, Budget, Allowed, Guarded, messagingVars
  <1>2. Threads'
    BY ThreadsUntouched DEF IInv, messagingVars
  <1>3. Announced'
    BY AnnouncementsUntouched DEF IInv, Announced, messagingVars
  <1> QED BY <1>1, <1>2, <1>3 DEF IInv

LEMMA Initially == MessagingInit => IInv
  <1> SUFFICES ASSUME MessagingInit
               PROVE  IInv
    OBVIOUS
  <1>1. Free \in HandlerState /\ NoThread \in ThreadState
    BY DEF Free, HandlerState, Stages, NoThread, ThreadState, Statuses
  <1>2. Types
    BY <1>1, MessagingAssumption DEF MessagingInit, Types
  <1>3. \A h \in Handlers : handler[h] = Free /\ Free.pc = "idle"
    BY DEF MessagingInit, Free
  <1>4. Threads
    <2>1. Signed
      BY Pairs DEF MessagingInit, Signed, NoThread
    <2>2. (\A h \in Handlers : Sound(handler[h])) /\ Exclusive
      BY <1>3 DEF Sound, Exclusive, HoldsLock
    <2>3. \A a \in Artists : Pending(a) = {}
      BY DEF MessagingInit, Pending, NoThread
    <2>4. Queue
      BY <1>3, <2>3, FS_EmptySet, MessagingAssumption DEF Queue, Room
    <2> QED BY <2>1, <2>2, <2>4 DEF Threads
  <1>5. Budget
    <2>1. \A u \in PaidPlanners : Guarded(u) = {}
      BY <1>3 DEF Guarded
    <2>2. Cardinality(Handlers) \in Nat /\ Cardinality({}) = 0
      BY Sizes, FS_EmptySet
    <2>3. MessageCap \in Nat \ {0} /\ onPass = {}
      BY MessagingAssumption DEF MessagingInit
    <2>4. \A u \in PaidPlanners : sent[u] = 0 /\ late[u] = 0 /\ Cardinality(Guarded(u)) = 0
      BY <2>1, <2>2 DEF MessagingInit
    <2> QED BY <2>2, <2>3, <2>4 DEF Budget
  <1>6. Announced
    BY DEF MessagingInit, Announced
  <1> QED BY <1>2, <1>4, <1>5, <1>6 DEF IInv

LEMMA EveryStep == IInv /\ [MessagingNext]_messagingVars => IInv'
  <1> SUFFICES ASSUME IInv, [MessagingNext]_messagingVars
               PROVE  IInv'
    OBVIOUS
  <1>1. ASSUME NEW h \in Handlers,
               \E c \in Conversations :
                   \/ StartAsPlanner(h, c) \/ StartAsArtist(h, c) \/ Respond(h, c)
                   \/ \E u \in Artists \cup Planners : Send(h, c, u)
        PROVE  IInv'
    BY <1>1, RequestArrives
  <1>2. ASSUME NEW h \in Handlers, OpenThread(h) \/ InsertRequest(h) \/ WriteDecision(h)
        PROVE  IInv'
    BY <1>2, Thread
  <1>3. ASSUME NEW h \in Handlers,
               TakeLock(h) \/ CountPending(h) \/ CheckCap(h) \/ CheckUnread(h) \/ HandlerDies(h)
        PROVE  IInv'
    BY <1>3, RequestGoesOn
  <1>4. ASSUME NEW h \in Handlers, InsertMessage(h) \/ InsertNotice(h)
        PROVE  IInv'
    BY <1>4, MessageStep, NoticeStep
  <1>5. ASSUME NEW end \in Ends, ReadNotice(end)
        PROVE  IInv'
    BY <1>5, NoticeRead
  <1>6. ASSUME NEW u \in PaidPlanners, PassStarts(u) \/ PassEnds(u)
        PROVE  IInv'
    BY <1>6, PassStep
  <1>7. CASE UNCHANGED messagingVars
    BY <1>7, Stuttering
  <1>8. CASE MessagingNext
    BY <1>1, <1>2, <1>3, <1>4, <1>5, <1>6, <1>8 DEF MessagingNext
  <1> QED BY <1>7, <1>8

-----------------------------------------------------------------------------
\* The inductive invariant: what the handlers in flight still have to write is
\* counted with what is written, for any number of artists, planners and requests.
THEOREM Inductive == MessagingSpec => []IInv
  BY Initially, EveryStep, PTL DEF MessagingSpec

\* Every row, counter and notice has its shape, and a row of the thread table
\* names its initiator exactly once it exists.
THEOREM MessagingHasItsShape == MessagingSpec => []MessagingTypeOK
  <1>1. IInv => MessagingTypeOK
    BY DEF IInv, Types, Threads, Signed, ThreadState, Statuses, MessagingTypeOK
  <1> QED BY <1>1, Inductive, PTL

\* However many requests an artist has in flight, startAsArtist leaves no more
\* than RequestCap waiting; and however many messages a planner has in flight,
\* assertWithinMessageCap lets a pass exceed its cap by no more than the other
\* requests at work, and an ended pass by no more than those in flight.
THEOREM TheCapsHold == MessagingSpec => []CapsHold
  <1>1. ASSUME IInv PROVE PendingCapHolds
    <2> SUFFICES ASSUME NEW a \in Artists
                 PROVE  Cardinality(Pending(a)) <= RequestCap
      BY DEF PendingCapHolds
    <2>1. IsFiniteSet(Pending(a)) /\ Cardinality(Pending(a)) + 0 <= RequestCap
      BY <1>1 DEF IInv, Threads, Queue, Room
    <2>2. Cardinality(Pending(a)) \in Nat
      BY <2>1, FS_CardinalityType
    <2> QED BY <2>1, <2>2
  <1>2. ASSUME IInv PROVE CapIsSoftButBounded
    <2> SUFFICES ASSUME NEW u \in PaidPlanners
                 PROVE  /\ sent[u] <= MessageCap + Cardinality(Handlers) - 1
                        /\ late[u] <= Cardinality(Handlers)
      BY DEF CapIsSoftButBounded
    <2>1. Allowed(u) \in SUBSET Handlers /\ Guarded(u) \in SUBSET Handlers
      BY DEF Allowed, Guarded
    <2>2. sent[u] \in Nat /\ late[u] \in Nat /\ MessageCap \in Nat
      BY <1>2, MessagingAssumption DEF IInv, Types
    <2> QED BY <1>2, <2>1, <2>2, Sizes DEF IInv, Budget
  <1>3. IInv => CapsHold
    BY <1>1, <1>2 DEF CapsHold
  <1> QED BY <1>3, Inductive, PTL

\* notifyNewMessage skips the notification only where an unread one already
\* announces the thread: a message nobody was told of is one whose handler is
\* still about to tell, or has died.
THEOREM NoMessageStaysSilent == MessagingSpec => []NoSilentMessage
  <1>1. ASSUME IInv PROVE NoSilentMessage
    <2> SUFFICES ASSUME NEW end \in silent, ~(deaths > 0)
                 PROVE  \E h \in Handlers : /\ handler[h].to = end[1]
                                            /\ handler[h].pc \in {"notify", "write"}
                                            /\ Other(end[1], handler[h].who) = end[2]
      BY DEF NoSilentMessage
    <2>1. PICK h \in Handlers : handler[h].pc \in {"notify", "write"} /\ EndOf(handler[h]) = end
      BY <1>1 DEF IInv, Announced
    <2> QED BY <2>1 DEF EndOf
  <1>2. IInv => NoSilentMessage
    BY <1>1
  <1> QED BY <1>2, Inductive, PTL

\* Between reading the row and inserting the message sendMessage looks at it
\* no more; even so nobody but the initiator writes into a pending request.
THEOREM NobodyAnswersAPendingRequest == MessagingSpec => NoReplyWhilePending
  <1>1. IInv => \A h \in Handlers : InsertMessage(h) =>
                  \/ conversation[handler[h].to].status # "pending"
                  \/ conversation[handler[h].to].by = handler[h].who
    BY DEF IInv, Threads, Sound, InsertMessage
  <1>2. IInv /\ [MessagingNext]_messagingVars =>
            [\A h \in Handlers : InsertMessage(h) =>
                  \/ conversation[handler[h].to].status # "pending"
                  \/ conversation[handler[h].to].by = handler[h].who]_messagingVars
    BY <1>1
  <1> QED BY <1>2, Inductive, PTL DEF MessagingSpec, NoReplyWhilePending
=============================================================================
