------------------------- MODULE PipelineProperties -------------------------
(***************************************************************************)
(* What the delivery pipeline guarantees, what it guarantees as long as    *)
(* nothing fails, and what its documentation says of it.                   *)
(***************************************************************************)
EXTENDS Pipeline

(***************************************************************************)
(* Under every fault: failing statements, crashes, several instances,      *)
(* replays, purges, endpoints that change and disappear.                   *)
(***************************************************************************)
\* The delivery log explains itself: every attempt is the first of its
\* delivery or follows, within MAX_RETRIES, a failed attempt whose backoff
\* was over (pollRetryableAttempts, NextRetryDelay), whoever dispatched it, and
\* its event is there to be looked up.
HistoryUnbroken ==
    \A a \in attempts : /\ Consistent(a)
                        /\ Justified(a, attempts)
                        /\ EventExists(a.event)

\* A job that may be handled is within the budget, continues the log, and its
\* event is still in the store.
Sound(j) == j.number <= Budget /\ Justified(j, attempts) /\ EventExists(j.event)

BatchKnown == \A i \in Instance : \A e \in batch[i] : EventExists(e)
JobsSound == \A i \in Instance : \A n \in 1..Len(jobs[i]) : Sound(jobs[i][n])
WorkSound == \A i \in Instance, k \in Slot :
                 work[i][k].at # "idle" => Sound(work[i][k].job)
RetriesDue == \A i \in Instance : \A a \in retries[i] :
                  a \in attempts /\ a.status = "failed" /\ a.retry = "due"

\* Whatever a poller or a worker remembers of the store while others write
\* to it, it never holds a job that the log does not justify, nor a retry
\* whose row is not a failed attempt that is due.
InFlightJustified == BatchKnown /\ JobsSound /\ WorkSound /\ RetriesDue

\* A worker that is about to give an event its final status (pool.go,
\* processJob) has the attempt that decides it in the log already.
MarksRecorded ==
    \A i \in Instance, k \in Slot :
        LET w == work[i][k]
        IN  w.at = "marking" =>
                /\ RowOf(w.job, w.ok) \in attempts
                /\ w.ok \/ Exhausted(w.job.number)

\* "delivered" is backed by a successful attempt of the event and "dead" by
\* a failed one that had no retry left, through replays and stale updates.
StatusIsEarned ==
    \A e \in Event :
        /\ events[e] = "delivered" => \E a \in attempts : ShowsSuccess(a, e)
        /\ events[e] = "dead" => \E a \in attempts : ShowsExhaustion(a, e)

\* "dead" means given up: some endpoint of the event has had every attempt that
\* MAX_RETRIES grants, each recorded and each failed, whichever instance made
\* it and although jobs are lost in between (NextRetryDelay, processJob).
DeadAfterAllAttempts ==
    \A e \in Event : events[e] = "dead" =>
        \E p \in Endpoint : \A n \in 1..Budget : \E a \in attempts :
            a.event = e /\ a.endpoint = p /\ a.number = n /\ a.status = "failed"

\* A deleted endpoint is done with, although pollers and workers may still hold
\* jobs for it (handleDeleteEndpoint, and the foreign key on endpoints): it has
\* no deliveries, nothing of it is retried, no event gets a status by it, and
\* all that is under way are first attempts, which will not be recorded.
DeletedIsDone ==
    \A p \in Endpoint : endpoints[p].state = "deleted" =>
        /\ \A a \in attempts : a.endpoint # p
        /\ \A i \in Instance : \A a \in retries[i] : a.endpoint # p
        /\ \A i \in Instance : \A n \in 1..Len(jobs[i]) :
               jobs[i][n].endpoint = p => jobs[i][n].number = 1
        /\ \A i \in Instance, k \in Slot :
               work[i][k].at # "idle" /\ work[i][k].job.endpoint = p =>
                   work[i][k].at # "marking" /\ work[i][k].job.number = 1

IInv == /\ TypeOK
        /\ HistoryUnbroken
        /\ InFlightJustified
        /\ MarksRecorded
        /\ StatusIsEarned

\* No request or fault makes an accepted event vanish, and neither does the
\* purge, which is meant to (PurgeAccepted, below): PurgeDeadEvents, the only
\* statement that deletes events, meets a dead event only with the attempts
\* that made it dead, and their foreign key refuses the deletion.
EventsAreKept == [][\A e \in Event : EventExists(e) => EventExists(e)']_vars

\* The pipeline implements the ledger: the tables of the store go through no
\* other changes than the ledger's.
L == INSTANCE Ledger WITH events <- events, attempts <- attempts
ImplementsLedger == L!Spec
-----------------------------------------------------------------------------
(***************************************************************************)
(* One instance that nobody asks to replay, or that nothing disturbs.      *)
(***************************************************************************)
Queued(j) == {q \in Instance \X (1..Capacity) :
                 q[2] <= Len(jobs[q[1]]) /\ jobs[q[1]][q[2]] = j}
Handled(j) == {w \in Instance \X Slot :
                 LET x == work[w[1]][w[2]]
                 IN  x.at \in {"delivering", "recording"} /\ x.job = j}
IsRecorded(j) == \E a \in attempts : SamePair(a, j) /\ a.number = j.number

\* j is in one place only: the channel, a worker, or the log.
AtMostOnce(j) ==
    /\ \A p, q \in Queued(j) : p = q
    /\ \A v, w \in Handled(j) : v = w
    /\ Queued(j) = {} \/ Handled(j) = {}
    /\ IsRecorded(j) => Queued(j) = {} /\ Handled(j) = {}

\* The poller dispatches the first attempt of an event to an endpoint once,
\* although it reads the pending events long before it claims one of them and
\* although a failed claim may have been applied (docs/v0.1: `processing`
\* "prevents duplicate delivery on re-poll").
FirstAttemptOnce ==
    \A e \in Event, p \in Endpoint :
        AtMostOnce([event |-> e, endpoint |-> p, number |-> 1])

\* An event that is being processed has something left that will move it on:
\* its poller, a job in the channel, a worker, or an attempt to retry.
NoStrandedEvent ==
    \A e \in Event : events[e] = "processing" =>
        \/ \E i \in Instance : /\ poller[i] = "sending" /\ AtHand(i, e)
                               /\ targets[i] # {}
        \/ \E i \in Instance, n \in 1..Capacity :
               n <= Len(jobs[i]) /\ jobs[i][n].event = e
        \/ \E i \in Instance, k \in Slot :
               work[i][k].at # "idle" /\ work[i][k].job.event = e
        \/ \E a \in attempts : a.event = e /\ a.retry # "none"

Subscribed(e) == GetEndpointsByTopic(TopicOf[e]) # {}

\* A pending event that somebody subscribes to is delivered or dead in the
\* end, through polls, a full channel and the backoff of every retry.
EventuallySettled ==
    \A e \in Event : (events[e] = "pending" /\ Subscribed(e))
                         ~> events[e] \in {"delivered", "dead"}
-----------------------------------------------------------------------------
(***************************************************************************)
(* What documents, log messages and responses say, and the code does not.  *)
(***************************************************************************)
\* docs/v0.1: the status `processing` "prevents duplicate delivery on
\* re-poll".  Said of every attempt, retries included.
EveryAttemptOnce == \A j \in BudgetedJob : AtMostOnce(j)

\* docs/v0.2: "Purge: permanently delete all dead events".  When there are
\* dead events to purge, the purge does not fail.
PurgeAccepted == (\E e \in Event : events[e] = "dead") => PurgeAllowed
=============================================================================
