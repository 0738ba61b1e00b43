----------------------------- MODULE Throttling -----------------------------
(***************************************************************************)
(* Rate limiting: RedisThrottlerStorage.increment and its script, for one  *)
(* caller and one route.  Redis evaluates the script as one operation, so  *)
(* a call is one step; the two keys age between calls; and while Redis is  *)
(* out of reach every call is let through.                                 *)
(*                                                                         *)
(* The clock ticks Second times a second (the script works in              *)
(* milliseconds and answers in seconds, rounded up).  What becomes of the  *)
(* answer is the guard of @nestjs/throttler: isBlocked is a 429 carrying   *)
(* timeToBlockExpire, anything else goes through.                          *)
(***************************************************************************)
EXTENDS Naturals, FiniteSets

CONSTANTS
    Second,         \* ticks in a second
    Ttl,            \* the window, in ticks
    Limit,          \* calls allowed in a window
    BlockDuration   \* ticks a caller over the limit is blocked

\* app.module.ts gives no blockDuration, and the guard then uses the window's.
ASSUME ThrottleAssumption ==
    /\ Second \in Nat \ {0} /\ Limit \in Nat \ {0}
    /\ Ttl \in Nat \ {0} /\ BlockDuration \in Nat /\ BlockDuration >= Ttl

VARIABLES
    hits,      \* [n, ttl] of the counter; n = 0: the key is absent
    block,     \* time to live of the block key; 0: absent
    redisUp,
    admitted,  \* calls counted and let through less than a window ago: how many
               \* ticks ago, and which of its window
    promised   \* ticks until the first caller this block sent away may come back

throttleVars == <<hits, block, redisUp, admitted, promised>>

Ages == 0..(Ttl - 1)

\* math.ceil(t / 1000), as ticks.
InSeconds(t) == ((t + Second - 1) \div Second) * Second

\* PTTL below zero, and the repair of a key without a time to live.
HitsWith(n) == [n |-> n, ttl |-> IF n = 1 \/ hits.ttl = 0 THEN Ttl ELSE hits.ttl]

SentAway(t, earlier) == promised' = IF earlier = 0 \/ InSeconds(t) < earlier THEN InSeconds(t) ELSE earlier

-----------------------------------------------------------------------------
\* (mutant: a blocked caller is counted, and blocked, again)
ExtendBlock ==
    /\ redisUp /\ block > 0
    /\ block' = BlockDuration
    /\ SentAway(BlockDuration, promised)
    /\ UNCHANGED <<hits, redisUp, admitted>>

\* While the block stands nothing is counted.
CallBlocked ==
    /\ redisUp /\ block > 0
    /\ SentAway(block, promised)
    /\ UNCHANGED <<hits, block, redisUp, admitted>>

\* (mutant: the call that reaches the limit plus one is still let through)
WithinOneMore(n) == n <= Limit + 1

\* totalHits > limit, negated.
WithinLimit(n) == n <= Limit

CallCounted ==
    /\ redisUp /\ block = 0
    /\ LET n == hits.n + 1
       IN  /\ hits' = HitsWith(n)
           /\ \/ /\ WithinLimit(n)
                 /\ admitted' = admitted \cup {[age |-> 0, n |-> n]}
                 /\ UNCHANGED <<block, promised>>
              \/ /\ ~WithinLimit(n)
                 /\ block' = BlockDuration
                 /\ SentAway(BlockDuration, 0)
                 /\ UNCHANGED admitted
    /\ UNCHANGED redisUp

\* The catch: the call goes through and no key changes.
CallUncounted == ~redisUp /\ UNCHANGED throttleVars

RedisFails == redisUp' = ~redisUp /\ UNCHANGED <<hits, block, admitted, promised>>

ThrottleTick ==
    /\ hits' = IF hits.ttl > 1 THEN [hits EXCEPT !.ttl = @ - 1] ELSE [n |-> 0, ttl |-> 0]
    /\ block' = IF block > 0 THEN block - 1 ELSE 0
    /\ promised' = IF promised > 0 THEN promised - 1 ELSE 0
    /\ admitted' = {[c EXCEPT !.age = @ + 1] : c \in {d \in admitted : d.age + 1 \in Ages}}
    /\ UNCHANGED redisUp

-----------------------------------------------------------------------------
ThrottleInit ==
    /\ hits = [n |-> 0, ttl |-> 0]
    /\ block = 0
    /\ redisUp = TRUE
    /\ admitted = {}
    /\ promised = 0

ThrottleNext ==
    CallBlocked \/ CallCounted \/ CallUncounted \/ RedisFails \/ ThrottleTick

ThrottleSpec == ThrottleInit /\ [][ThrottleNext]_throttleVars

-----------------------------------------------------------------------------
ThrottleTypeOK ==
    /\ hits \in [n : Nat, ttl : 0..Ttl]
    /\ block \in 0..BlockDuration
    /\ redisUp \in BOOLEAN
    /\ admitted \subseteq [age : Ages, n : Nat] /\ IsFiniteSet(admitted)
    /\ promised \in Nat

UnderTwiceTheLimit == Cardinality(admitted) < 2 * Limit

RetryAfterHonest ==
    block > 0 => promised >= block /\ hits.ttl <= block

\* However the calls are spaced and Redis comes and goes, no stretch of time
\* as long as the window lets through twice the limit of counted calls (the
\* last calls of one window can meet the first of the next, but a window
\* opens with a call of its own); and a caller told to come back in so many
\* seconds is not blocked any more then and does not walk into the old count
\* either ("rather than extending it", redis-throttler.storage.ts lines 106
\* to 108).
LimitIsFair == UnderTwiceTheLimit /\ RetryAfterHonest
=============================================================================
