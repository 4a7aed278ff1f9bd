----------------------------- MODULE RateLimiter -----------------------------
(***************************************************************************)
(* The rate limiter of /api (internal/api/ratelimit.go) in one process: a  *)
(* map from the address of a client to its token bucket and the time it    *)
(* was last seen.  A request fetches its bucket under the mutex and draws  *)
(* from it after the mutex is released; a goroutine sleeps, takes the      *)
(* mutex and evicts idle entries.  Buckets are objects: one that is        *)
(* evicted while a request holds it goes on existing for that request.     *)
(***************************************************************************)
EXTENDS Integers

CONSTANTS
    Client,     \* keys of the map: X-Real-Ip, or RemoteAddr without it
    Request,    \* requests that are handled at the same time
    Bucket,     \* objects of type rate.Limiter
    Burst,      \* RATE_LIMIT_BURST
    Refill,     \* RATE_LIMIT_RPS
    IdleLimit,  \* 10 minutes
    Period,     \* 5 minutes
    MaxHold,    \* longest time between getLimiter and Allow
    MaxTime     \* bound of the clock

\* The middleware is there when RATE_LIMIT_RPS is positive.
ASSUME LimitsAreNumbers ==
    /\ Burst \in Nat /\ Refill \in Nat \ {0}
    /\ IdleLimit \in Nat /\ Period \in Nat /\ MaxHold \in Nat /\ MaxTime \in Nat

\* A bucket is full again before it is evicted, whenever its last request drew
\* from it: 10 minutes refill 60000 tokens by default, of which 200 are kept.
ASSUME IdleBucketsAreFull ==
    /\ MaxHold <= IdleLimit
    /\ Burst <= Refill * (IdleLimit - MaxHold)

VARIABLES
    now,       \* the clock
    slept,     \* how long the cleanup has been sleeping
    limiters,  \* the map
    buckets,   \* tokens of each bucket, as of the time it was last drawn from
    requests,  \* what each request holds
    admitted,  \* requests of each client that have been admitted so far
    answer     \* the last answer of each client

vars == <<now, slept, limiters, buckets, requests, admitted, answer>>

Time == 0..MaxTime
NoEntry == [seen |-> -1]
Entry == [bucket : Bucket, seen : Time]
NoRequest == [since |-> -1]
Held == [client : Client, bucket : Bucket, since : Time]

TypeOK ==
    /\ now \in Time
    /\ slept \in 0..Period
    /\ limiters \in [Client -> Entry \cup {NoEntry}]
    /\ buckets \in [Bucket -> [tokens : 0..Burst, last : Time]]
    /\ requests \in [Request -> Held \cup {NoRequest}]
    /\ admitted \in [Client -> Nat]
    /\ answer \in [Client -> {"none", "admitted", "rejected"}]

Init ==
    /\ now = 0
    /\ slept = 0
    /\ limiters = [c \in Client |-> NoEntry]
    /\ buckets = [b \in Bucket |-> [tokens |-> Burst, last |-> 0]]
    /\ requests = [r \in Request |-> NoRequest]
    /\ admitted = [c \in Client |-> 0]
    /\ answer = [c \in Client |-> "none"]
-----------------------------------------------------------------------------
InMap(b) == \E c \in Client : limiters[c] # NoEntry /\ limiters[c].bucket = b
InUse(b) == InMap(b) \/ \E r \in Request : requests[r] # NoRequest /\ requests[r].bucket = b

\* Mutant: lastSeen is left at the time of the first request.
NotSeen(entry) == entry

Seen(entry) == [entry EXCEPT !.seen = now]

\* getLimiter, under the mutex.
GetLimiter(r, c) ==
    LET Hold(b) == requests' = [requests EXCEPT ![r] =
                                    [client |-> c, bucket |-> b, since |-> now]]
    IN  /\ requests[r] = NoRequest
        /\ \/ /\ limiters[c] # NoEntry
              /\ limiters' = [limiters EXCEPT ![c] = Seen(limiters[c])]
              /\ Hold(limiters[c].bucket)
              /\ UNCHANGED buckets
           \/ /\ limiters[c] = NoEntry
              /\ \E b \in Bucket :
                   /\ ~InUse(b)
                   /\ buckets' = [buckets EXCEPT ![b] = [tokens |-> Burst, last |-> now]]
                   /\ limiters' = [limiters EXCEPT ![c] = [bucket |-> b, seen |-> now]]
                   /\ Hold(b)
        /\ UNCHANGED <<now, slept, admitted, answer>>

Least(m, n) == IF m <= n THEN m ELSE n

\* Mutant: a bucket overflows.
AvailableUncapped(b) == buckets[b].tokens + Refill * (now - buckets[b].last)

\* What a bucket holds by now; rate.Limiter works it out when it is asked.
Available(b) == Least(Burst, buckets[b].tokens + Refill * (now - buckets[b].last))

\* Allow, on the bucket that the request holds: the handler, or 429.
Allow(r) ==
    LET q == requests[r]
        available == Available(q.bucket)
    IN  /\ q # NoRequest
        /\ \/ /\ available > 0
              /\ buckets' = [buckets EXCEPT ![q.bucket] =
                                 [tokens |-> available - 1, last |-> now]]
              /\ admitted' = [admitted EXCEPT ![q.client] = @ + 1]
              /\ answer' = [answer EXCEPT ![q.client] = "admitted"]
           \/ /\ available <= 0
              /\ answer' = [answer EXCEPT ![q.client] = "rejected"]
              /\ UNCHANGED <<buckets, admitted>>
        /\ requests' = [requests EXCEPT ![r] = NoRequest]
        /\ UNCHANGED <<now, slept, limiters>>

\* Mutant: the time that a client may be idle is counted in cleanups.
IdleTwice(c) == limiters[c] # NoEntry /\ now - limiters[c].seen > 2 * IdleLimit

Idle(c) == limiters[c] # NoEntry /\ now - limiters[c].seen > IdleLimit

\* One round of the cleanup, under the mutex.
Cleanup ==
    /\ slept = Period
    /\ slept' = 0
    /\ limiters' = [c \in Client |-> IF Idle(c) THEN NoEntry ELSE limiters[c]]
    /\ UNCHANGED <<now, buckets, requests, admitted, answer>>

\* Time does not pass by a sleep that is over, or a request that draws at last.
Tick ==
    /\ now < MaxTime
    /\ slept < Period
    /\ \A r \in Request : requests[r] # NoRequest => now - requests[r].since < MaxHold
    /\ now' = now + 1
    /\ slept' = slept + 1
    /\ UNCHANGED <<limiters, buckets, requests, admitted, answer>>

Next == \/ \E r \in Request : Allow(r) \/ \E c \in Client : GetLimiter(r, c)
        \/ Cleanup
        \/ Tick

Spec == Init /\ [][Next]_vars
-----------------------------------------------------------------------------
\* The map with its evictions gives each client what one bucket that is never
\* evicted would give it: no request is admitted beyond it, and none rejected
\* that it has a token for.
Bucketed == INSTANCE TokenBucket
    WITH tokens <- [c \in Client |-> IF limiters[c] = NoEntry THEN Burst
                                    ELSE Available(limiters[c].bucket)]
ImplementsTokenBucket == Bucketed!Spec

\* Two concurrent requests of a client never draw from two buckets: a request
\* holds, until it has drawn, the bucket that is in the map (rateLimitMiddleware
\* draws after getLimiter has released the mutex).
HeldIsCurrent ==
    \A r \in Request : LET q == requests[r] IN
        q # NoRequest => limiters[q.client] # NoEntry /\ limiters[q.client].bucket = q.bucket

\* The burst is granted once: afterwards a client is admitted at the rate of
\* RATE_LIMIT_RPS, however often it is evicted.
AdmittedWithinRate == \A c \in Client : admitted[c] <= Burst + Refill * now

\* The map does not grow with the clients of the past: an entry is gone when its
\* client has been idle for the limit and one period of the cleanup.
IdleEntriesGo ==
    \A c \in Client : limiters[c] # NoEntry => now - limiters[c].seen <= IdleLimit + Period
=============================================================================
