------------------------------ MODULE Backoff ------------------------------
(***************************************************************************)
(* The pipeline with a clock: the lengths of the delays that               *)
(* internal/delivery/retry.go puts between the attempts of a delivery.     *)
(* Every step of the pipeline is kept; the times that the code computes    *)
(* and stores are added, and a next_retry_at is reached when the clock     *)
(* says so.                                                                *)
(*                                                                         *)
(* All processes read one clock.  Two instances whose clocks differ move   *)
(* every retry by that difference.                                         *)
(***************************************************************************)
EXTENDS PipelineProperties

CONSTANTS
    Delays,   \* retryDelays, in some unit of time
    MaxTime   \* bound of the clock

ASSUME DelaysGrow ==
    /\ Delays \in Seq(Nat) /\ Delays # <<>>
    /\ \A m, n \in 1..Len(Delays) : m <= n => Delays[m] <= Delays[n]
ASSUME MaxTimeIsNat == MaxTime \in Nat

VARIABLES
    now,       \* time.Now()
    finished,  \* when the POST of each worker was over
    schedule   \* when each row with a next_retry_at failed, and that time

clockVars == <<now, finished, schedule>>
backoffVars == <<vars, clockVars>>

Failure == [event : Event, endpoint : Endpoint, number : Nat \ {0}, made : Nat, at : Nat]

\* No time that has been read lies ahead.
BackoffTypeOK ==
    /\ now \in 0..MaxTime
    /\ finished \in [Instance -> [Slot -> 0..now]]
    /\ schedule \in SUBSET Failure
    /\ \A f \in schedule : f.made <= now

BackoffInit ==
    /\ Init
    /\ now = 0
    /\ finished = [i \in Instance |-> [k \in Slot |-> 0]]
    /\ schedule = {}

\* Mutants: an index that is one too low, and one that starts over.
DelayBefore(n) == Delays[IF n <= 1 THEN 1 ELSE IF n > Len(Delays) THEN Len(Delays) ELSE n - 1]
DelayInTurn(n) == Delays[IF n < 1 THEN 1 ELSE 1 + ((n - 1) % Len(Delays))]

\* The delay after attempt n: the schedule's last one when there are no more.
NextRetryDelay(n) == Delays[IF n < 1 THEN 1 ELSE IF n > Len(Delays) THEN Len(Delays) ELSE n]

\* Row a, or one that agrees with it, was inserted with the time in f.
StoredFor(f, a) == SamePair(f, a) /\ f.number = a.number

Reached(a) == a.retry = "waiting" /\ \E f \in schedule : StoredFor(f, a) /\ f.at <= now
-----------------------------------------------------------------------------
\* Mutant: the delay is added to the time of the failure, and once more later.
DeliverLate(i, k) ==
    /\ Deliver(i, k)
    /\ finished' = [finished EXCEPT ![i][k] = now + NextRetryDelay(work[i][k].job.number)]
    /\ UNCHANGED <<now, schedule>>

\* The POST is over, and NextRetryAt reads the clock.
DeliverAt(i, k) ==
    /\ Deliver(i, k)
    /\ finished' = [finished EXCEPT ![i][k] = now]
    /\ UNCHANGED <<now, schedule>>

\* What the insert of worker k's attempt adds to the schedule.
Scheduled(i, k) ==
    LET j == work[i][k].job
    IN  IF NextRetryAt(work[i][k].ok, j.number) = "none" THEN {}
        ELSE {[event    |-> j.event,
               endpoint |-> j.endpoint,
               number   |-> j.number,
               made     |-> finished[i][k],
               at       |-> finished[i][k] + NextRetryDelay(j.number)]}

RowAtHand(i, k) == RowOf(work[i][k].job, work[i][k].ok)

RecordAt(i, k) ==
    /\ RecordAttempt(i, k)
    /\ schedule' = IF ReferencesExist(RowAtHand(i, k))
                   THEN schedule \cup Scheduled(i, k) ELSE schedule
    /\ UNCHANGED <<now, finished>>

\* The insert or the update reports an error, and may have been applied.
DropAt(i, k) ==
    /\ StoreMayFail
    /\ DropJob(i, k)
    /\ \/ UNCHANGED <<attempts, schedule>>
       \/ /\ work[i][k].at = "recording"
          /\ CreateDeliveryAttempt(RowAtHand(i, k))
          /\ schedule' = schedule \cup Scheduled(i, k)
    /\ UNCHANGED <<now, finished>>

DelayPasses(a) == TimePasses(a) /\ Reached(a) /\ UNCHANGED clockVars

\* The clock goes on once the rows whose time it has reached are due.
Tick ==
    /\ now < MaxTime
    /\ \A a \in attempts : ~Reached(a)
    /\ now' = now + 1
    /\ UNCHANGED <<vars, finished, schedule>>

\* The steps that neither read nor store a time.
Untimed ==
    /\ \/ \E i \in Instance : PollerStep(i) \/ Crash(i)
       \/ \E i \in Instance, k \in Slot : ReceiveJob(i, k) \/ MarkEvent(i, k)
       \/ ClientRequest
    /\ UNCHANGED clockVars

BackoffNext ==
    \/ Untimed
    \/ \E i \in Instance, k \in Slot : DeliverAt(i, k) \/ RecordAt(i, k) \/ DropAt(i, k)
    \/ \E a \in attempts : DelayPasses(a)
    \/ Tick

BackoffSpec == BackoffInit /\ [][BackoffNext]_backoffVars
-----------------------------------------------------------------------------
\* At time t, failure f is as old as the schedule asks: no younger than any of
\* the delays up to that of its attempt, of which there may be none of its own.
WaitedOut(f, t) == \A m \in 1..Len(Delays) : m <= f.number => f.made + Delays[m] <= t

\* x repeats a recorded attempt that had waited its delay out by time t.
FollowsIn(x, t) == \E f \in schedule : /\ SamePair(f, x)
                                       /\ x.number = f.number + 1
                                       /\ WaitedOut(f, t)

\* No retry is early: whoever holds one, read from the store or in a channel or
\* at a worker, on whichever instance, an attempt before it has failed and
\* waited its delay out (NextRetryDelay, "Index 0 = delay after 1st failure").
\* The failures in the log keep the same distance from each other.
RetriesWait ==
    /\ \A i \in Instance : \A a \in retries[i] :
           \E f \in schedule : StoredFor(f, a) /\ WaitedOut(f, now)
    /\ \A i \in Instance : \A n \in 1..Len(jobs[i]) :
           jobs[i][n].number = 1 \/ FollowsIn(jobs[i][n], now)
    /\ \A i \in Instance, k \in Slot : LET w == work[i][k] IN
           w.at # "idle" => w.job.number = 1 \/ FollowsIn(w.job, now)
    /\ \A f \in schedule : f.number = 1 \/ FollowsIn(f, f.made)

\* An event is not given up before its time, which is the sum of the delays:
\* some endpoint has failed every attempt before the last, each failure as old
\* as its delay when the next one was made, and the last of them by now.
DeadAfterDelays ==
    \A e \in Event : events[e] = "dead" =>
        \E p \in Endpoint, F \in [1..(Budget - 1) -> schedule] : \A n \in 1..(Budget - 1) :
            /\ F[n].event = e /\ F[n].endpoint = p /\ F[n].number = n
            /\ WaitedOut(F[n], IF n < Budget - 1 THEN F[n + 1].made ELSE now)
=============================================================================
