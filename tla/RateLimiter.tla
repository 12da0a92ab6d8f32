----------------------------- MODULE RateLimiter -----------------------------
(***************************************************************************)
(* The limiter in front of /auth/login and /api/signup                     *)
(* (pkg/api/ratelimit.go) for one client address: a token bucket of the    *)
(* process with a sweeper, or, when Redis was there at the start, a        *)
(* counter per fixed window that all servers share (pkg/cache/redis.go).   *)
(*                                                                         *)
(* A request reads the clock first and gets the mutex, or its answer from  *)
(* Redis, up to MaxWait later: requests can overtake one another.          *)
(***************************************************************************)
EXTENDS Integers

CONSTANTS
    Limits,      \* the limits in use: Burst requests per Per seconds
    IdleLimit,   \* a bucket idle for longer may be swept: 30 minutes
    MaxWait,     \* from the clock to the mutex, or to Redis's answer: 1 second
    MaxWaiting,  \* bound on the requests of one moment under way
    MaxTime,     \* bound on the clock
    RedisFails   \* whether Redis may fail

ASSUME LimiterAssumption ==
    /\ \A l \in Limits : l.Burst \in Nat \ {0} /\ l.Per \in Nat \ {0}
    /\ IdleLimit \in Nat /\ MaxWait \in Nat /\ MaxWait <= 1 /\ 2 * MaxWait <= IdleLimit
    /\ MaxWaiting \in Nat /\ MaxTime \in Nat /\ RedisFails \in BOOLEAN

VARIABLES
    limit,    \* burst and per
    backing,  \* "memory" or "redis": which limiter RateLimitShared chose
    now,      \* the clock, in seconds
    waiting,  \* how many requests of each moment are under way
    bucket,   \* the bucket of the address, in 1/Per tokens, or NoBucket
    counter,  \* the counter of each window: count and expiry
    \* history
    since,    \* how many requests of each moment or later were admitted
    refused,  \* the moment of the last request that was refused in order, or -1
    ordered   \* no request has overtaken another in this bucket yet

config  == <<limit, backing>>
store   == <<bucket, counter>>
history == <<since, refused, ordered>>
vars    == <<config, now, waiting, store, history>>

Times == 0 .. MaxTime

NoBucket == [tokens |-> 0, last |-> -1]

Capacity == limit.Burst * limit.Per

Lesser(m, n) == IF m < n THEN m ELSE n

Init ==
    /\ limit \in Limits
    /\ backing \in {"memory", "redis"}
    /\ now = 0
    /\ waiting = [t \in Times |-> 0]
    /\ bucket = NoBucket
    /\ counter = [slot \in Times |-> [count |-> 0, expires |-> 0]]
    /\ since = [t \in 0 .. MaxTime + 1 |-> 0]
    /\ refused = -1
    /\ ordered = TRUE

\* allow reads the clock.
Arrive ==
    /\ waiting[now] < MaxWaiting
    /\ waiting' = [waiting EXCEPT ![now] = @ + 1]
    /\ UNCHANGED <<config, now, store, history>>

Admit(t) ==
    /\ since' = [s \in DOMAIN since |-> IF s <= t THEN since[s] + 1 ELSE since[s]]
    /\ UNCHANGED refused

Refuse(t) ==
    /\ refused' = IF ordered' THEN t ELSE refused
    /\ UNCHANGED since

Leave(t) ==
    /\ waiting[t] > 0
    /\ waiting' = [waiting EXCEPT ![t] = @ - 1]

-----------------------------------------------------------------------------
(* The token bucket *)

\* Mistake: the clock of the bucket stands still.
RefilledAgain(t) ==
    [tokens |-> Lesser(bucket.tokens + (t - bucket.last) * limit.Burst, Capacity),
     last   |-> bucket.last]

\* A request that was overtaken takes back the refill of the time between.
Refilled(t) ==
    [tokens |-> Lesser(bucket.tokens + (t - bucket.last) * limit.Burst, Capacity),
     last   |-> t]

\* Mistake: a new bucket starts with what one second brings.
FreshBucketDry(t) == [tokens |-> limit.Burst, last |-> t]

FreshBucket(t) == [tokens |-> Capacity, last |-> t]

\* memLimiter.allow, under the mutex.
TakeToken(t) ==
    LET b == IF bucket = NoBucket THEN FreshBucket(t) ELSE Refilled(t)
    IN  /\ backing = "memory"
        /\ Leave(t)
        /\ ordered' = (ordered /\ bucket.last <= t)
        /\ IF b.tokens < limit.Per
           THEN Refuse(t) /\ bucket' = b
           ELSE Admit(t) /\ bucket' = [b EXCEPT !.tokens = @ - limit.Per]
        /\ UNCHANGED <<config, now, counter>>

\* The sweeper wakes up every ten minutes, at moments of its own.
Sweep ==
    /\ bucket # NoBucket
    /\ now - bucket.last > IdleLimit
    /\ bucket' = NoBucket
    /\ UNCHANGED <<config, now, waiting, counter, history>>

-----------------------------------------------------------------------------
(* The counter in Redis *)

Slot(t) == t \div limit.Per

\* Mistake: the key lives for the window alone.
WindowTTLBare == limit.Per

WindowTTL == limit.Per + 1

\* Incr: a key that has expired starts again, and every call renews it.  A
\* count above the burst is as good as any other.
Incremented(slot) ==
    LET count == IF now < counter[slot].expires THEN counter[slot].count ELSE 0
    IN  [count |-> Lesser(count, limit.Burst) + 1, expires |-> now + WindowTTL]

\* redisLimiter.allow: a count of 0 stands for an error and admits.
CountRequest(t) ==
    LET slot == Slot(t)
    IN  /\ backing = "redis"
        /\ Leave(t)
        /\ UNCHANGED <<config, now, bucket, ordered>>
        /\ counter' = [counter EXCEPT ![slot] = Incremented(slot)]
        /\ IF counter'[slot].count <= limit.Burst THEN Admit(t) ELSE Refuse(t)

\* The call fails, before or after Redis has counted; a request that is let in
\* over the limit for that reason is not part of the history.
FailOpen(t) ==
    LET slot == Slot(t)
    IN  /\ backing = "redis" /\ RedisFails
        /\ Leave(t)
        /\ \/ UNCHANGED <<counter, since, refused>>
           \/ /\ counter' = [counter EXCEPT ![slot] = Incremented(slot)]
              /\ IF counter'[slot].count <= limit.Burst THEN Admit(t) ELSE UNCHANGED <<since, refused>>
        /\ UNCHANGED <<config, now, bucket, ordered>>

\* No request waits for longer than MaxWait.
Tick ==
    /\ now < MaxTime
    /\ \A t \in Times : t + MaxWait <= now => waiting[t] = 0
    /\ now' = now + 1
    /\ UNCHANGED <<config, waiting, store, history>>

Next ==
    \/ Arrive
    \/ \E t \in Times : TakeToken(t) \/ CountRequest(t) \/ FailOpen(t)
    \/ Sweep
    \/ Tick

Spec == Init /\ [][Next]_vars

-----------------------------------------------------------------------------
(* Properties *)

\* How many of the requests of the moments s to t were admitted.
Admitted(s, t) == since[s] - since[t + 1]

\* The time in which an empty bucket fills: a sweep may give it away earlier
\* than the rate does, and both the bucket's clock and the next request's may
\* be MaxWait behind.
FillTime == Lesser(limit.Per, IdleLimit + 1 - 2 * MaxWait)

\* Over any stretch of time the bucket admits no more than its burst and what
\* flows in meanwhile, though requests overtake one another between the clock
\* and the mutex and buckets are swept and start full.  With a rate that fills
\* the bucket before it may be swept (login: a minute against thirty) that is
\* the limit asked for; five signups an hour are ten (ratelimit.go:45-80).
BucketKeepsRate ==
    backing = "memory" =>
        \A s, t \in 0 .. now : s <= t =>
            Admitted(s, t) * FillTime <= limit.Burst * (FillTime + t - s)

\* Per window all servers together admit no more than the burst: a count that
\* comes in late, up to the second the call may take, still meets the key of
\* its window (ratelimit.go:97-107, redis.go:82-96).
WindowKeepsBurst ==
    backing = "redis" =>
        \A s, t \in 0 .. now : s <= t =>
            Admitted(s, t) <= limit.Burst * (Slot(t) - Slot(s) + 1)

SlotEnd(t) == Lesser(MaxTime, (Slot(t) + 1) * limit.Per - 1)

\* Nobody is refused who has not used up the burst and the refill since (the
\* window's burst), as long as no request overtakes another in the bucket: an
\* overtaken one may be refused within the burst (ratelimit.go:46, 57-65).
RefusalIsDue ==
    refused >= 0 =>
        \E s \in 0 .. refused :
            IF backing = "memory"
            THEN (Admitted(s, refused) + 1) * limit.Per
                     > limit.Burst * (limit.Per + refused - s)
            ELSE Slot(s) = Slot(refused) /\ Admitted(s, SlotEnd(refused)) >= limit.Burst
=============================================================================
