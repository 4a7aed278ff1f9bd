-------------------------- MODULE RateLimiterProofs --------------------------
(***************************************************************************)
(* Proofs about RateLimiter: under its two assumptions, and for any number *)
(* of clients, requests and objects, the map that evicts entries is the    *)
(* token bucket that never does.                                           *)
(***************************************************************************)
EXTENDS RateLimiter, TLAPS

InLimiters(c) == limiters[c] # NoEntry

\* No two clients share a bucket.
OwnBucket ==
    \A c, d \in Client : InLimiters(c) /\ InLimiters(d) /\ limiters[c].bucket = limiters[d].bucket
                             => c = d

\* A request holds the bucket in the map, of an entry seen since, for a while.
HoldsCurrent(q) ==
    /\ InLimiters(q.client) /\ limiters[q.client].bucket = q.bucket
    /\ q.since <= limiters[q.client].seen
    /\ now - q.since <= MaxHold
HeldFresh == \A r \in Request : requests[r] # NoRequest => HoldsCurrent(requests[r])

\* No bucket is drawn from long after its entry was seen.
EntryFresh(c) ==
    /\ limiters[c].seen <= now
    /\ now - limiters[c].seen <= IdleLimit + slept
    /\ buckets[limiters[c].bucket].last <= now
    /\ buckets[limiters[c].bucket].last <= limiters[c].seen + MaxHold
EntriesFresh == \A c \in Client : InLimiters(c) => EntryFresh(c)

IInv == TypeOK /\ OwnBucket /\ HeldFresh /\ EntriesFresh

LEMMA EntryTypes ==
    ASSUME TypeOK, NEW c \in Client, InLimiters(c)
    PROVE  limiters[c] \in Entry /\ limiters[c].bucket \in Bucket /\ limiters[c].seen \in Time
BY DEF TypeOK, InLimiters, Entry

LEMMA HeldTypes ==
    ASSUME TypeOK, NEW r \in Request, requests[r] # NoRequest
    PROVE  /\ requests[r] \in Held
           /\ requests[r].client \in Client /\ requests[r].bucket \in Bucket
           /\ requests[r].since \in Time
BY DEF TypeOK, Held

LEMMA Distinct ==
    /\ NoEntry \notin Entry /\ NoRequest \notin Held
BY DEF NoEntry, NoRequest, Entry, Held, Time

LEMMA AvailableType ==
    ASSUME TypeOK, NEW b \in Bucket, buckets[b].last <= now
    PROVE  Available(b) \in 0..Burst
<1>1. /\ buckets[b].tokens \in 0..Burst /\ buckets[b].last \in Int /\ now \in Int
    BY LimitsAreNumbers DEF TypeOK, Time
<1>2. PICK t \in Nat : t = now - buckets[b].last
    BY <1>1
<1>3. Refill * t \in Nat
    BY <1>2, LimitsAreNumbers
<1>4. PICK n \in Nat : n = Refill * (now - buckets[b].last)
    BY <1>2, <1>3
<1> QED BY <1>1, <1>4, LimitsAreNumbers DEF Available, Least

LEMMA InitIInv == Init => IInv
BY LimitsAreNumbers
   DEF Init, IInv, TypeOK, OwnBucket, HeldFresh, EntriesFresh, InLimiters, Time

LEMMA TickKeeps == ASSUME IInv, Tick PROVE IInv'
<1>1. TypeOK'
    BY LimitsAreNumbers DEF IInv, TypeOK, Tick, Time
<1>2. OwnBucket'
    BY DEF IInv, OwnBucket, InLimiters, Tick
<1>3. HeldFresh'
  <2> SUFFICES ASSUME NEW r \in Request, requests'[r] # NoRequest
               PROVE  HoldsCurrent(requests[r])'
      BY DEF HeldFresh, Tick
  <2>1. HoldsCurrent(requests[r]) /\ requests[r].since \in Time /\ requests[r].client \in Client
      BY HeldTypes DEF IInv, HeldFresh, Tick
  <2>2. now - requests[r].since < MaxHold
      BY DEF Tick
  <2>3. now' - requests[r].since <= MaxHold
      BY <2>1, <2>2, LimitsAreNumbers DEF IInv, TypeOK, Tick, Time
  <2> QED BY <2>1, <2>3 DEF HoldsCurrent, InLimiters, Tick
<1>4. EntriesFresh'
  <2> SUFFICES ASSUME NEW c \in Client, InLimiters(c)'
               PROVE  EntryFresh(c)'
      BY DEF EntriesFresh
  <2>1. InLimiters(c) /\ EntryFresh(c) /\ limiters[c].seen \in Time /\ limiters[c].bucket \in Bucket
      BY EntryTypes DEF IInv, EntriesFresh, InLimiters, Tick
  <2> QED BY <2>1, LimitsAreNumbers DEF EntryFresh, IInv, TypeOK, Tick, Time
<1> QED BY <1>1, <1>2, <1>3, <1>4 DEF IInv

LEMMA CleanupKeeps == ASSUME IInv, Cleanup PROVE IInv'
<1>1. TypeOK'
    BY LimitsAreNumbers DEF IInv, TypeOK, Cleanup, Time
<1>2. \A c \in Client : InLimiters(c)' => InLimiters(c) /\ ~Idle(c) /\ limiters'[c] = limiters[c]
    BY DEF InLimiters, Cleanup
<1>3. OwnBucket'
    BY <1>2 DEF IInv, OwnBucket
<1>4. HeldFresh'
  <2> SUFFICES ASSUME NEW r \in Request, requests'[r] # NoRequest
               PROVE  HoldsCurrent(requests[r])'
      BY DEF HeldFresh, Cleanup
  <2>1. PICK q \in Held : q = requests[r] /\ q = requests'[r]
      BY HeldTypes DEF IInv, Cleanup
  <2>2. HoldsCurrent(q) /\ q.since \in Time /\ q.client \in Client
      BY <2>1, HeldTypes DEF IInv, HeldFresh
  <2>3. ~Idle(q.client)
      BY <2>2, EntryTypes, LimitsAreNumbers, IdleBucketsAreFull
         DEF Idle, HoldsCurrent, IInv, TypeOK, Time
  <2>4. limiters'[q.client] = limiters[q.client]
      BY <2>2, <2>3 DEF Cleanup
  <2> QED BY <2>1, <2>2, <2>4 DEF HoldsCurrent, InLimiters, Cleanup
<1>5. EntriesFresh'
  <2> SUFFICES ASSUME NEW c \in Client, InLimiters(c)'
               PROVE  EntryFresh(c)'
      BY DEF EntriesFresh
  <2>1. /\ InLimiters(c) /\ ~Idle(c) /\ limiters'[c] = limiters[c]
        /\ EntryFresh(c) /\ limiters[c].seen \in Time
      BY <1>2, EntryTypes DEF IInv, EntriesFresh
  <2>2. now - limiters[c].seen <= IdleLimit
      BY <2>1, LimitsAreNumbers DEF Idle, InLimiters, IInv, TypeOK, Time
  <2> QED BY <2>1, <2>2, LimitsAreNumbers DEF EntryFresh, Cleanup
<1> QED BY <1>1, <1>3, <1>4, <1>5 DEF IInv

\* The two ways through getLimiter: an entry that is there is seen again, and a
\* bucket that nobody uses becomes a full one.
Fetches(r, c, b) ==
    /\ requests' = [requests EXCEPT ![r] = [client |-> c, bucket |-> b, since |-> now]]
    /\ limiters' = [limiters EXCEPT ![c] = [bucket |-> b, seen |-> now]]
    /\ \/ InLimiters(c) /\ limiters[c].bucket = b /\ UNCHANGED buckets
       \/ /\ ~InLimiters(c) /\ ~InUse(b)
          /\ buckets' = [buckets EXCEPT ![b] = [tokens |-> Burst, last |-> now]]
    /\ UNCHANGED <<now, slept, admitted, answer>>

LEMMA FetchSteps ==
    ASSUME TypeOK, NEW r \in Request, NEW c \in Client, GetLimiter(r, c)
    PROVE  \E b \in Bucket : Fetches(r, c, b)
<1>1. CASE InLimiters(c)
  <2>1. limiters[c] \in Entry /\ limiters[c].bucket \in Bucket
      BY <1>1, EntryTypes
  <2>2. Seen(limiters[c]) = [bucket |-> limiters[c].bucket, seen |-> now]
      BY <2>1 DEF Seen, Entry
  <2>3. Fetches(r, c, limiters[c].bucket)
      BY <1>1, <2>1, <2>2 DEF Fetches, GetLimiter, InLimiters
  <2> QED BY <2>1, <2>3
<1>2. CASE ~InLimiters(c)
    BY <1>2 DEF Fetches, GetLimiter, InLimiters
<1> QED BY <1>1, <1>2

LEMMA FetchKeeps ==
    ASSUME IInv, NEW r \in Request, NEW c \in Client, NEW b \in Bucket, Fetches(r, c, b)
    PROVE  IInv'
<1> DEFINE entry == [bucket |-> b, seen |-> now]
           hold == [client |-> c, bucket |-> b, since |-> now]
           full == [tokens |-> Burst, last |-> now]
<1>1. /\ now \in Time /\ now' = now /\ slept' = slept /\ slept \in 0..Period
      /\ entry \in Entry /\ hold \in Held
      /\ full \in [tokens : 0..Burst, last : Time]
    BY LimitsAreNumbers DEF IInv, TypeOK, Fetches, Entry, Held
<1>2. /\ \A d \in Client : limiters'[d] = IF d = c THEN entry ELSE limiters[d]
      /\ \A q \in Request : requests'[q] = IF q = r THEN hold ELSE requests[q]
    BY DEF IInv, TypeOK, Fetches
<1>3. entry # NoEntry /\ hold # NoRequest
    BY <1>1, Distinct
<1>4. \A d \in Client : InLimiters(d)' <=> InLimiters(d) \/ d = c
    BY <1>2, <1>3 DEF InLimiters
\* The bucket is the client's, or new to all.
<1>5. \A d \in Client : InLimiters(d) /\ limiters[d].bucket = b => d = c
    BY DEF Fetches, IInv, OwnBucket, InUse, InMap, InLimiters
<1>6. TypeOK'
    BY <1>1 DEF IInv, TypeOK, Fetches
<1>7. OwnBucket'
  <2> SUFFICES ASSUME NEW d \in Client, NEW f \in Client, InLimiters(d)', InLimiters(f)',
                      limiters'[d].bucket = limiters'[f].bucket
               PROVE  d = f
      BY DEF OwnBucket
  <2>1. CASE d # c /\ f # c
      BY <1>2, <1>4, <2>1 DEF IInv, OwnBucket
  <2>2. CASE d = c
      BY <1>2, <1>4, <1>5, <2>2
  <2>3. CASE f = c
      BY <1>2, <1>4, <1>5, <2>3
  <2> QED BY <2>1, <2>2, <2>3
<1>8. HeldFresh'
  <2> SUFFICES ASSUME NEW q \in Request, requests'[q] # NoRequest
               PROVE  HoldsCurrent(requests[q])'
      BY DEF HeldFresh
  <2>1. CASE q = r
    <3>1. PICK h : h = hold /\ h = requests'[q]
        BY <1>2, <2>1
    <3>2. h.client = c /\ h.bucket = b /\ h.since = now
        BY <3>1
    <3>3. limiters'[c] = entry /\ entry.bucket = b /\ entry.seen = now
        BY <1>2
    <3> QED BY <1>1, <1>3, <3>1, <3>2, <3>3, LimitsAreNumbers DEF HoldsCurrent, InLimiters, Time
  <2>2. CASE q # r
    <3>1. PICK h \in Held : h = requests[q] /\ h = requests'[q]
        BY <1>2, <2>2, HeldTypes DEF IInv
    <3>2. HoldsCurrent(h) /\ h.client \in Client /\ h.since \in Time
        BY <1>2, <2>2, <3>1, HeldTypes DEF IInv, HeldFresh
    <3>3. CASE h.client = c
      <4>1. limiters[c].bucket = b
          BY <3>2, <3>3 DEF Fetches, HoldsCurrent
      <4>2. limiters[c].seen <= now /\ limiters[c].seen \in Time
          BY <3>2, <3>3, EntryTypes DEF IInv, EntriesFresh, EntryFresh, HoldsCurrent
      <4>3. limiters'[c] = entry /\ entry.bucket = b /\ entry.seen = now
          BY <1>2
      <4> QED BY <1>1, <1>3, <3>1, <3>2, <3>3, <4>1, <4>2, <4>3, LimitsAreNumbers
              DEF HoldsCurrent, InLimiters, Time
    <3>4. CASE h.client # c
        BY <1>1, <1>2, <3>1, <3>2, <3>4 DEF HoldsCurrent, InLimiters
    <3> QED BY <3>3, <3>4
  <2> QED BY <2>1, <2>2
<1>9. EntriesFresh'
  <2> SUFFICES ASSUME NEW d \in Client, InLimiters(d)'
               PROVE  EntryFresh(d)'
      BY DEF EntriesFresh
  <2>1. CASE d = c
    <3>1. limiters'[d].bucket = b /\ limiters'[d].seen = now
        BY <1>2, <2>1
    <3>2. buckets'[b].last <= now /\ buckets'[b].last \in Time
      <4>1. CASE InLimiters(c) /\ limiters[c].bucket = b /\ UNCHANGED buckets
          BY <4>1 DEF IInv, EntriesFresh, EntryFresh, TypeOK
      <4>2. CASE buckets' = [buckets EXCEPT ![b] = full]
          BY <1>1, <4>2, LimitsAreNumbers DEF IInv, TypeOK, Time
      <4> QED BY <4>1, <4>2 DEF Fetches
    <3> QED BY <1>1, <3>1, <3>2, LimitsAreNumbers DEF EntryFresh, Time
  <2>2. CASE d # c
    <3>1. /\ limiters'[d] = limiters[d] /\ InLimiters(d) /\ limiters[d].bucket # b
          /\ limiters[d].bucket \in Bucket /\ EntryFresh(d)
        BY <1>2, <1>4, <1>5, <2>2, EntryTypes DEF IInv, EntriesFresh
    <3>2. buckets'[limiters[d].bucket] = buckets[limiters[d].bucket]
        BY <3>1 DEF Fetches, IInv, TypeOK
    <3> QED BY <1>1, <3>1, <3>2 DEF EntryFresh
  <2> QED BY <2>1, <2>2
<1> QED BY <1>6, <1>7, <1>8, <1>9 DEF IInv

\* A request that draws has the bucket of its client, and leaves the map alone.
Draws(r, c, b) ==
    /\ requests[r] # NoRequest /\ InLimiters(c) /\ limiters[c].bucket = b
    /\ buckets[b].last <= now
    /\ now <= limiters[c].seen + MaxHold
    /\ requests' = [requests EXCEPT ![r] = NoRequest]
    /\ \/ /\ Available(b) > 0
          /\ buckets' = [buckets EXCEPT ![b] = [tokens |-> Available(b) - 1, last |-> now]]
          /\ admitted' = [admitted EXCEPT ![c] = @ + 1]
          /\ answer' = [answer EXCEPT ![c] = "admitted"]
       \/ /\ Available(b) <= 0
          /\ answer' = [answer EXCEPT ![c] = "rejected"]
          /\ UNCHANGED <<buckets, admitted>>
    /\ UNCHANGED <<now, slept, limiters>>

LEMMA DrawSteps ==
    ASSUME IInv, NEW r \in Request, Allow(r)
    PROVE  \E c \in Client, b \in Bucket : Draws(r, c, b)
<1>1. PICK q \in Held : q = requests[r] /\ q # NoRequest
    BY HeldTypes DEF IInv, Allow
<1>2. HoldsCurrent(q) /\ q.client \in Client /\ q.bucket \in Bucket /\ q.since \in Time
    BY <1>1, HeldTypes DEF IInv, HeldFresh
<1>3. EntryFresh(q.client) /\ limiters[q.client].seen \in Time
    BY <1>2, EntryTypes DEF IInv, EntriesFresh, HoldsCurrent
<1>4. now <= limiters[q.client].seen + MaxHold
    BY <1>2, <1>3, LimitsAreNumbers DEF HoldsCurrent, IInv, TypeOK, Time
<1>5. Draws(r, q.client, q.bucket)
    BY <1>1, <1>2, <1>3, <1>4 DEF Draws, Allow, HoldsCurrent, EntryFresh
<1> QED BY <1>2, <1>5

LEMMA DrawKeeps ==
    ASSUME IInv, NEW r \in Request, NEW c \in Client, NEW b \in Bucket, Draws(r, c, b)
    PROVE  IInv'
<1>1. /\ now \in Time /\ now' = now /\ slept' = slept /\ limiters' = limiters
      /\ Available(b) \in 0..Burst
    BY AvailableType DEF IInv, TypeOK, Draws
<1>2. buckets' \in [Bucket -> [tokens : 0..Burst, last : Time]]
  <2>1. CASE Available(b) > 0
    <3>1. [tokens |-> Available(b) - 1, last |-> now] \in [tokens : 0..Burst, last : Time]
        BY <1>1, <2>1, LimitsAreNumbers
    <3>2. buckets' = [buckets EXCEPT ![b] = [tokens |-> Available(b) - 1, last |-> now]]
        BY <1>1, <2>1 DEF Draws
    <3> QED BY <3>1, <3>2 DEF IInv, TypeOK
  <2>2. CASE Available(b) <= 0
    <3>1. UNCHANGED buckets
        BY <1>1, <2>2 DEF Draws
    <3> QED BY <3>1 DEF IInv, TypeOK
  <2> QED BY <1>1, <2>1, <2>2, LimitsAreNumbers
<1>3. TypeOK'
    BY <1>1, <1>2 DEF IInv, TypeOK, Draws
<1>4. OwnBucket'
    BY <1>1 DEF IInv, OwnBucket, InLimiters
<1>5. HeldFresh'
  <2>1. \A q \in Request : requests'[q] # NoRequest => requests'[q] = requests[q] /\ requests[q] # NoRequest
      BY DEF Draws, IInv, TypeOK
  <2> QED BY <1>1, <2>1 DEF IInv, HeldFresh, HoldsCurrent, InLimiters
<1>6. \A d \in Bucket : buckets'[d].last = buckets[d].last \/ (d = b /\ buckets'[d].last = now)
    BY DEF Draws, IInv, TypeOK
<1>7. EntriesFresh'
  <2> SUFFICES ASSUME NEW d \in Client, InLimiters(d)'
               PROVE  EntryFresh(d)'
      BY DEF EntriesFresh
  <2>1. InLimiters(d) /\ EntryFresh(d) /\ limiters[d].bucket \in Bucket
      BY <1>1, EntryTypes DEF IInv, EntriesFresh, InLimiters
  <2>2. limiters[d].bucket = b => d = c
      BY <2>1 DEF Draws, IInv, OwnBucket
  <2>3. buckets'[limiters[d].bucket].last <= now
      BY <1>1, <1>6, <2>1, LimitsAreNumbers DEF EntryFresh, Time
  <2>4. buckets'[limiters[d].bucket].last <= limiters[d].seen + MaxHold
      BY <1>6, <2>1, <2>2 DEF EntryFresh, Draws
  <2> QED BY <1>1, <2>1, <2>3, <2>4 DEF EntryFresh
<1> QED BY <1>3, <1>4, <1>5, <1>7 DEF IInv

LEMMA IInvStep == ASSUME IInv, [Next]_vars PROVE IInv'
<1>1. ASSUME NEW r \in Request, NEW c \in Client, GetLimiter(r, c)
      PROVE  IInv'
    BY <1>1, FetchSteps, FetchKeeps DEF IInv
<1>2. ASSUME NEW r \in Request, Allow(r)
      PROVE  IInv'
    BY <1>2, DrawSteps, DrawKeeps
<1>3. CASE UNCHANGED vars
    BY <1>3 DEF vars, IInv, TypeOK, OwnBucket, HeldFresh, HoldsCurrent, EntriesFresh, EntryFresh,
                InLimiters
<1> QED BY <1>1, <1>2, <1>3, TickKeeps, CleanupKeeps DEF Next

LEMMA IInvAlways == Spec => []IInv
BY InitIInv, IInvStep, PTL DEF Spec

\* Time, entries, buckets and requests keep their types: no bucket holds more
\* than the burst.
THEOREM LimiterTypeCorrect == Spec => []TypeOK
<1>1. IInv => TypeOK
    BY DEF IInv
<1> QED BY <1>1, IInvAlways, PTL

\* A request never draws from a bucket that is no longer in the map.
THEOREM HoldersAreCurrent == Spec => []HeldIsCurrent
<1>1. IInv => HeldIsCurrent
    BY DEF IInv, HeldFresh, HoldsCurrent, InLimiters, HeldIsCurrent
<1> QED BY <1>1, IInvAlways, PTL

\* Entries of idle clients leave the map.
THEOREM IdleEntriesLeave == Spec => []IdleEntriesGo
<1>1. IInv => IdleEntriesGo
  <2> SUFFICES ASSUME IInv, NEW c \in Client, InLimiters(c)
               PROVE  now - limiters[c].seen <= IdleLimit + Period
      BY DEF IdleEntriesGo, InLimiters
  <2>1. EntryFresh(c) /\ limiters[c].seen \in Time /\ now \in Time /\ slept \in 0..Period
      BY EntryTypes DEF IInv, EntriesFresh, TypeOK
  <2> QED BY <2>1, LimitsAreNumbers DEF EntryFresh, Time
<1> QED BY <1>1, IInvAlways, PTL
-----------------------------------------------------------------------------
(***************************************************************************)
(* The refinement: what an entry is worth, and a client without one.       *)
(***************************************************************************)
Worth(c) == IF limiters[c] = NoEntry THEN Burst ELSE Available(limiters[c].bucket)

LEMMA Products ==
    /\ Refill * 0 = 0
    /\ \A n \in Nat : Refill * n \in Nat /\ Refill * (n + 1) = Refill * n + Refill
    /\ \A m, n \in Nat : m <= n => Refill * m <= Refill * n
<1>1. \A n \in Nat : Refill * n \in Nat /\ Refill * (n + 1) = Refill * n + Refill
    BY LimitsAreNumbers
<1>2. ASSUME NEW m \in Nat, NEW n \in Nat, m <= n
      PROVE  Refill * m <= Refill * n
  <2>1. PICK d \in Nat : n = m + d
      BY <1>2
  <2>2. Refill * n = Refill * m + Refill * d
      BY <2>1, LimitsAreNumbers
  <2> QED BY <1>1, <2>2
<1> QED BY <1>1, <1>2, LimitsAreNumbers

\* A bucket after one more unit of time.
LEMMA TickFills ==
    ASSUME IInv, Tick, NEW b \in Bucket, buckets[b].last <= now
    PROVE  Available(b)' = Least(Burst, Available(b) + Refill)
<1>1. /\ buckets[b].tokens \in 0..Burst /\ buckets[b].last \in Int /\ now \in Int
      /\ now' = now + 1 /\ buckets' = buckets
    BY LimitsAreNumbers DEF IInv, TypeOK, Time, Tick
<1>2. PICK t \in Nat : t = now - buckets[b].last
    BY <1>1
<1>3. now' - buckets[b].last = t + 1
    BY <1>1, <1>2
<1>4. PICK n \in Nat : n = Refill * t /\ Refill * (t + 1) = n + Refill
    BY Products
<1>5. Available(b) = Least(Burst, buckets[b].tokens + n)
    BY <1>2, <1>4 DEF Available
<1>6. Available(b)' = Least(Burst, buckets[b].tokens + (n + Refill))
    BY <1>1, <1>3, <1>4 DEF Available
<1> QED BY <1>1, <1>4, <1>5, <1>6, LimitsAreNumbers DEF Least

\* An entry that may be evicted has a full bucket.
LEMMA IdleIsFull ==
    ASSUME IInv, NEW c \in Client, Idle(c)
    PROVE  Worth(c) = Burst
<1>1. /\ limiters[c] # NoEntry /\ EntryFresh(c)
      /\ limiters[c].seen \in Time /\ limiters[c].bucket \in Bucket
    BY EntryTypes DEF Idle, IInv, EntriesFresh, InLimiters
<1>2. PICK b \in Bucket : b = limiters[c].bucket
    BY <1>1
<1>3. /\ buckets[b].tokens \in 0..Burst /\ buckets[b].last \in Int /\ now \in Int
      /\ limiters[c].seen \in Int
    BY <1>1, LimitsAreNumbers DEF IInv, TypeOK, Time
<1>4. IdleLimit - MaxHold <= now - buckets[b].last
    BY <1>1, <1>2, <1>3, LimitsAreNumbers DEF EntryFresh, Idle
<1>5. /\ IdleLimit - MaxHold \in Nat /\ now - buckets[b].last \in Nat
    BY <1>1, <1>2, <1>3, LimitsAreNumbers, IdleBucketsAreFull DEF EntryFresh
<1>6. PICK n \in Nat : n = Refill * (now - buckets[b].last) /\ Refill * (IdleLimit - MaxHold) <= n
    BY <1>4, <1>5, Products
<1>7. Burst <= n
    BY <1>5, <1>6, Products, LimitsAreNumbers, IdleBucketsAreFull
<1>8. Available(b) = Burst
    BY <1>3, <1>6, <1>7, LimitsAreNumbers DEF Available, Least
<1> QED BY <1>1, <1>2, <1>8 DEF Worth

\* Fetching a bucket, and evicting entries, leave what a client is worth alone.
LEMMA FetchKeepsWorth ==
    ASSUME IInv, NEW r \in Request, NEW c \in Client, NEW b \in Bucket, Fetches(r, c, b),
           NEW d \in Client
    PROVE  Worth(d)' = Worth(d)
<1> DEFINE entry == [bucket |-> b, seen |-> now]
<1>1. now \in Time /\ now' = now /\ entry # NoEntry
    BY Distinct DEF IInv, TypeOK, Fetches, Entry
<1>2. limiters'[d] = IF d = c THEN entry ELSE limiters[d]
    BY DEF IInv, TypeOK, Fetches
<1>3. CASE d = c /\ InLimiters(c)
    BY <1>1, <1>2, <1>3 DEF Fetches, Worth, Available, InLimiters
<1>4. CASE d = c /\ ~InLimiters(c)
  <2>1. buckets'[b] = [tokens |-> Burst, last |-> now]
      BY <1>4 DEF Fetches, IInv, TypeOK
  <2>2. PICK f : f = buckets'[b]
      OBVIOUS
  <2>3. f.tokens = Burst /\ f.last = now
      BY <2>1, <2>2
  <2>4. Available(b)' = Least(Burst, Burst + Refill * (now - now))
      BY <1>1, <2>2, <2>3 DEF Available
  <2>5. Available(b)' = Burst
      BY <1>1, <2>4, Products, LimitsAreNumbers DEF Least, Time
  <2> QED BY <1>1, <1>2, <1>4, <2>5 DEF Worth, InLimiters
<1>5. CASE d # c
  <2>1. limiters'[d] = limiters[d]
      BY <1>2, <1>5
  <2>2. InLimiters(d) => limiters[d].bucket \in Bucket
      BY EntryTypes DEF IInv
  <2>3. InLimiters(d) => buckets'[limiters[d].bucket] = buckets[limiters[d].bucket]
    <3>1. CASE UNCHANGED buckets
        BY <3>1
    <3>2. CASE ~InUse(b) /\ buckets' = [buckets EXCEPT ![b] = [tokens |-> Burst, last |-> now]]
      <4>1. InLimiters(d) => limiters[d].bucket # b
          BY <3>2 DEF InUse, InMap, InLimiters
      <4> QED BY <2>2, <3>2, <4>1 DEF IInv, TypeOK
    <3> QED BY <3>1, <3>2 DEF Fetches
  <2> QED BY <1>1, <2>1, <2>3 DEF Worth, Available, InLimiters
<1> QED BY <1>3, <1>4, <1>5

LEMMA CleanupKeepsWorth ==
    ASSUME IInv, Cleanup, NEW c \in Client
    PROVE  Worth(c)' = Worth(c)
<1>1. limiters'[c] = IF Idle(c) THEN NoEntry ELSE limiters[c]
    BY DEF Cleanup
<1>2. Idle(c) => Worth(c)' = Burst
    BY <1>1 DEF Worth
<1>3. ~Idle(c) => Worth(c)' = Worth(c)
    BY <1>1 DEF Worth, Available, Cleanup
<1> QED BY <1>2, <1>3, IdleIsFull

\* A draw takes one token from its client, or finds none; others keep theirs.
LEMMA DrawTakes ==
    ASSUME IInv, NEW r \in Request, NEW c \in Client, NEW b \in Bucket, Draws(r, c, b)
    PROVE  /\ Worth(c) = Available(b)
           /\ Available(b) > 0 => Worth(c)' = Worth(c) - 1
           /\ Available(b) <= 0 => Worth(c)' = Worth(c)
           /\ \A d \in Client : d # c => Worth(d)' = Worth(d)
<1>1. /\ now \in Int /\ now' = now /\ limiters' = limiters /\ Available(b) \in 0..Burst
      /\ limiters[c] # NoEntry /\ limiters[c].bucket = b
    BY AvailableType, LimitsAreNumbers DEF IInv, TypeOK, Time, Draws, InLimiters
<1>2. Worth(c) = Available(b)
    BY <1>1 DEF Worth
<1>3. CASE Available(b) > 0
  <2>1. PICK n \in Int : n = Available(b)
      BY <1>1
  <2>2. PICK f : f = [tokens |-> n - 1, last |-> now]
      OBVIOUS
  <2>3. buckets' = [buckets EXCEPT ![b] = f]
      BY <1>1, <1>3, <2>1, <2>2 DEF Draws
  <2>4. buckets'[b].tokens = n - 1 /\ buckets'[b].last = now
      BY <2>2, <2>3 DEF IInv, TypeOK
  <2>5. Refill * (now - now) = 0
      BY <1>1, Products
  <2>6. Available(b)' = n - 1
      BY <1>1, <2>1, <2>4, <2>5, LimitsAreNumbers DEF Available, Least
  <2>7. \A d \in Client : d # c /\ InLimiters(d) =>
            buckets'[limiters[d].bucket] = buckets[limiters[d].bucket]
    <3>1. \A d \in Client : d # c /\ InLimiters(d) =>
              limiters[d].bucket # b /\ limiters[d].bucket \in Bucket
        BY EntryTypes DEF Draws, IInv, OwnBucket
    <3> QED BY <2>3, <3>1 DEF IInv, TypeOK
  <2>8. \A d \in Client : d # c => Worth(d)' = Worth(d)
      BY <1>1, <2>7 DEF Worth, Available, InLimiters
  <2>9. Worth(c)' = n - 1
      BY <1>1, <2>6 DEF Worth, Available
  <2> QED BY <1>2, <1>3, <2>1, <2>8, <2>9
<1>4. CASE Available(b) <= 0
  <2>1. UNCHANGED <<buckets, now, limiters>>
      BY <1>1, <1>4 DEF Draws
  <2>2. \A d \in Client : Worth(d)' = Worth(d)
      BY <2>1 DEF Worth, Available
  <2> QED BY <1>1, <1>2, <1>4, <2>2
<1> QED BY <1>1, <1>3, <1>4, LimitsAreNumbers

\* The rate limiter implements one bucket per client that is never evicted.
THEOREM RateLimiterImplementsTokenBucket == Spec => ImplementsTokenBucket
<1> DEFINE W == [c \in Client |-> Worth(c)]
<1> USE DEF Bucketed!Least, Least
<1>1. Init => Bucketed!Init
    BY DEF Init, Bucketed!Init
<1>2. ASSUME IInv, [Next]_vars
      PROVE  [Bucketed!Next]_<<now, W, admitted, answer>>
  <2>1. CASE Tick
    <3>1. \A c \in Client : Worth(c)' = Least(Burst, Worth(c) + Refill)
      <4>1. ASSUME NEW c \in Client, InLimiters(c)
            PROVE  Worth(c)' = Least(Burst, Worth(c) + Refill)
        <5>1. PICK b \in Bucket : b = limiters[c].bucket /\ buckets[b].last <= now
            BY <1>2, <4>1, EntryTypes DEF IInv, EntriesFresh, EntryFresh
        <5>2. Available(b)' = Least(Burst, Available(b) + Refill)
            BY <1>2, <2>1, <5>1, TickFills
        <5>3. Worth(c) = Available(b) /\ limiters' = limiters
            BY <2>1, <4>1, <5>1 DEF Worth, InLimiters, Tick
        <5>4. Worth(c)' = Available(b)'
            BY <4>1, <5>1, <5>3 DEF Worth, InLimiters, Available
        <5> QED BY <5>2, <5>3, <5>4
      <4>2. ASSUME NEW c \in Client, ~InLimiters(c)
            PROVE  Worth(c)' = Least(Burst, Worth(c) + Refill)
          BY <2>1, <4>2, LimitsAreNumbers DEF Worth, InLimiters, Tick
      <4> QED BY <4>1, <4>2
    <3>2. W' = [c \in Client |-> Least(Burst, W[c] + Refill)]
        BY <3>1
    <3>3. Bucketed!Tick
        BY <2>1, <3>2 DEF Tick, Bucketed!Tick, Worth
    <3> QED BY <3>3 DEF Bucketed!Next
  <2>2. CASE Cleanup
    <3>1. W' = W
        BY <1>2, <2>2, CleanupKeepsWorth
    <3> QED BY <2>2, <3>1 DEF Cleanup
  <2>3. CASE \E r \in Request, c \in Client : GetLimiter(r, c)
    <3>1. PICK r \in Request, c \in Client, b \in Bucket : Fetches(r, c, b)
        BY <1>2, <2>3, FetchSteps DEF IInv
    <3>2. W' = W
        BY <1>2, <3>1, FetchKeepsWorth
    <3> QED BY <3>1, <3>2 DEF Fetches
  <2>4. CASE \E r \in Request : Allow(r)
    <3>1. PICK r \in Request, c \in Client, b \in Bucket : Draws(r, c, b)
        BY <1>2, <2>4, DrawSteps
    <3>2. Available(b) \in 0..Burst
        BY <1>2, <3>1, AvailableType DEF IInv, Draws
    <3>3. /\ Worth(c) = Available(b)
          /\ Available(b) > 0 => Worth(c)' = Worth(c) - 1
          /\ Available(b) <= 0 => Worth(c)' = Worth(c)
          /\ \A d \in Client : d # c => Worth(d)' = Worth(d)
        BY <1>2, <3>1, DrawTakes
    <3>4. CASE Available(b) > 0
      <4>1. W' = [W EXCEPT ![c] = W[c] - 1]
          BY <3>3, <3>4
      <4>2. /\ admitted' = [admitted EXCEPT ![c] = @ + 1]
            /\ answer' = [answer EXCEPT ![c] = "admitted"]
            /\ now' = now
          BY <3>2, <3>4 , <3>1, LimitsAreNumbers DEF Draws
      <4>3. W[c] > 0
          BY <3>3, <3>4
      <4>4. Bucketed!Admit(c)
          BY <4>1, <4>2, <4>3 DEF Bucketed!Admit, Worth
      <4> QED BY <4>4 DEF Bucketed!Next
    <3>5. CASE Available(b) <= 0
      <4>1. W' = W
          BY <3>3, <3>5
      <4>2. /\ answer' = [answer EXCEPT ![c] = "rejected"]
            /\ UNCHANGED <<now, admitted>>
          BY <3>1, <3>2, <3>5, LimitsAreNumbers DEF Draws
      <4>3. W[c] = 0
          BY <3>2, <3>3, <3>5, LimitsAreNumbers
      <4>4. Bucketed!Reject(c)
          BY <4>1, <4>2, <4>3 DEF Bucketed!Reject, Worth
      <4> QED BY <4>4 DEF Bucketed!Next
    <3> QED BY <3>2, <3>4, <3>5, LimitsAreNumbers
  <2>5. CASE UNCHANGED vars
    <3>1. W' = W
        BY <2>5 DEF vars, Worth, Available
    <3> QED BY <2>5, <3>1 DEF vars
  <2> QED BY <1>2, <2>1, <2>2, <2>3, <2>4, <2>5 DEF Next
<1>3. [Bucketed!Next]_<<now, W, admitted, answer>>
          => [Bucketed!Next]_<<now, [c \in Client |-> IF limiters[c] = NoEntry THEN Burst
                                    ELSE Available(limiters[c].bucket)], admitted, answer>>
    BY DEF Worth
<1> QED BY <1>1, <1>2, <1>3, IInvAlways, PTL DEF Spec, ImplementsTokenBucket, Bucketed!Spec

LEMMA WorthType ==
    ASSUME IInv, NEW c \in Client
    PROVE  Worth(c) \in 0..Burst
<1>1. CASE InLimiters(c)
    BY <1>1, EntryTypes, AvailableType DEF Worth, InLimiters, IInv, EntriesFresh, EntryFresh
<1>2. CASE ~InLimiters(c)
    BY <1>2, LimitsAreNumbers DEF Worth, InLimiters
<1> QED BY <1>1, <1>2

\* What has been admitted and what may still be admitted at once came from the
\* first bucketful and from time.
Budgeted == \A c \in Client : admitted[c] + Worth(c) <= Burst + Refill * now

LEMMA BudgetedStep == ASSUME IInv, Budgeted, [Next]_vars PROVE Budgeted'
<1>0. /\ now \in Nat /\ Refill * now \in Nat /\ Refill * (now + 1) = Refill * now + Refill
      /\ \A c \in Client : admitted[c] \in Nat /\ Worth(c) \in 0..Burst
    BY WorthType, Products, LimitsAreNumbers DEF IInv, TypeOK, Time
<1>1. CASE Tick
  <2> SUFFICES ASSUME NEW c \in Client
               PROVE  admitted'[c] + Worth(c)' <= Burst + Refill * now'
      BY DEF Budgeted
  <2>1. Worth(c)' \in Int /\ Worth(c)' <= Worth(c) + Refill
    <3>1. CASE InLimiters(c)
      <4>1. PICK b \in Bucket : b = limiters[c].bucket /\ buckets[b].last <= now
          BY <3>1, EntryTypes DEF IInv, EntriesFresh, EntryFresh
      <4>2. Available(b)' = Least(Burst, Available(b) + Refill) /\ Available(b) \in 0..Burst
          BY <1>1, <4>1, TickFills, AvailableType DEF IInv
      <4>3. Worth(c) = Available(b) /\ Worth(c)' = Available(b)'
          BY <1>1, <3>1, <4>1 DEF Worth, InLimiters, Available, Tick
      <4> QED BY <4>2, <4>3, LimitsAreNumbers DEF Least
    <3>2. CASE ~InLimiters(c)
        BY <1>1, <3>2, LimitsAreNumbers DEF Worth, InLimiters, Tick
    <3> QED BY <3>1, <3>2
  <2>2. admitted'[c] = admitted[c] /\ now' = now + 1
      BY <1>1 DEF Tick
  <2>3. admitted[c] + Worth(c) <= Burst + Refill * now
      BY DEF Budgeted
  <2>4. PICK n \in Nat : n = Refill * now /\ Refill * now' = n + Refill
      BY <1>0, <2>2
  <2> QED BY <1>0, <2>1, <2>2, <2>3, <2>4, LimitsAreNumbers
<1>2. CASE Cleanup
  <2>1. now' = now /\ admitted' = admitted
      BY <1>2 DEF Cleanup
  <2> QED BY <1>2, <2>1, CleanupKeepsWorth DEF Budgeted
<1>3. CASE \E r \in Request, c \in Client : GetLimiter(r, c)
  <2>1. PICK r \in Request, c \in Client, b \in Bucket : Fetches(r, c, b)
      BY <1>3, FetchSteps DEF IInv
  <2>2. now' = now /\ admitted' = admitted
      BY <2>1 DEF Fetches
  <2> QED BY <2>1, <2>2, FetchKeepsWorth DEF Budgeted
<1>4. CASE \E r \in Request : Allow(r)
  <2>1. PICK r \in Request, c \in Client, b \in Bucket : Draws(r, c, b)
      BY <1>4, DrawSteps
  <2>2. Available(b) \in 0..Burst
      BY <2>1, AvailableType DEF IInv, Draws
  <2>3. /\ Available(b) > 0 => Worth(c)' = Worth(c) - 1
        /\ Available(b) <= 0 => Worth(c)' = Worth(c)
        /\ \A d \in Client : d # c => Worth(d)' = Worth(d)
      BY <2>1, DrawTakes
  <2>4. /\ now' = now
        /\ Available(b) > 0 => admitted'[c] = admitted[c] + 1
        /\ Available(b) <= 0 => admitted'[c] = admitted[c]
        /\ \A d \in Client : d # c => admitted'[d] = admitted[d]
      BY <2>1, <2>2, LimitsAreNumbers DEF Draws, IInv, TypeOK
  <2>5. \A d \in Client : admitted'[d] + Worth(d)' = admitted[d] + Worth(d)
      BY <1>0, <2>2, <2>3, <2>4, LimitsAreNumbers
  <2> QED BY <2>4, <2>5 DEF Budgeted
<1>5. CASE UNCHANGED vars
    BY <1>5 DEF vars, Budgeted, Worth, Available
<1> QED BY <1>1, <1>2, <1>3, <1>4, <1>5 DEF Next

\* The rate holds over the whole life of the process, through every eviction.
THEOREM AdmissionIsBounded == Spec => []AdmittedWithinRate
<1>1. Init => Budgeted
  <2> SUFFICES ASSUME Init, NEW c \in Client
               PROVE  admitted[c] + Worth(c) <= Burst + Refill * now
      BY DEF Budgeted
  <2>1. admitted[c] = 0 /\ Worth(c) = Burst /\ now = 0
      BY DEF Init, Worth
  <2>2. Refill * now = 0
      BY <2>1, Products
  <2> QED BY <2>1, <2>2, LimitsAreNumbers
<1>2. IInv /\ Budgeted => AdmittedWithinRate
  <2> SUFFICES ASSUME IInv, Budgeted, NEW c \in Client
               PROVE  admitted[c] <= Burst + Refill * now
      BY DEF AdmittedWithinRate
  <2>1. /\ admitted[c] \in Nat /\ Worth(c) \in 0..Burst
        /\ admitted[c] + Worth(c) <= Burst + Refill * now
      BY WorthType DEF IInv, TypeOK, Budgeted
  <2>2. Burst + Refill * now \in Nat
      BY Products, LimitsAreNumbers DEF IInv, TypeOK, Time
  <2> QED BY <2>1, <2>2, LimitsAreNumbers
<1> QED BY <1>1, <1>2, BudgetedStep, IInvAlways, PTL DEF Spec
=============================================================================
