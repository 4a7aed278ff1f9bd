------------------------------ MODULE Pipeline ------------------------------
(***************************************************************************)
(* The delivery pipeline: instances of `hookman serve` that share one      *)
(* store.  Each instance runs a poller (internal/worker/poller.go), a      *)
(* bounded channel of jobs and Concurrency workers (internal/worker/       *)
(* pool.go).  Clients of the management API and of the dashboard write to  *)
(* the same tables at any time.                                            *)
(*                                                                         *)
(* A step ends wherever the code gives up the processor with shared state  *)
(* behind it: at every store statement, channel operation and HTTP call.   *)
(***************************************************************************)
EXTENDS Store, Sequences

CONSTANTS
    Instance,     \* running processes of hookman serve
    Concurrency,  \* WORKER_CONCURRENCY, per instance
    Scenario      \* which optional behaviours of the environment occur

\* make(chan ..., concurrency*2) panics on a negative number, so that no process
\* gets to run with one; with zero workers it runs, and delivers nothing.
ASSUME ConcurrencyIsNat == Concurrency \in Nat
ASSUME ScenarioIsKnown ==
    Scenario \subseteq {"storeError", "crash",
                        "replay", "bulkReplay", "purge", "update", "delete"}

VARIABLES
    poller,   \* where each poller is
    batch,    \* pending events a poller has read and not yet handled
    targets,  \* endpoints of the event at hand that still get their job
    retries,  \* due attempts a poller has read and not yet handled
    jobs,     \* the job channel of each instance
    work      \* what each worker of an instance is doing

pollerVars == <<poller, batch, targets, retries>>
vars == <<storeVars, pollerVars, jobs, work>>

PollerState == {"pending", "claiming", "sending", "retrying", "resending"}
Slot == 1..Concurrency
Capacity == 2 * Concurrency

NoWork == [at |-> "idle"]
Work == {NoWork}
        \cup [at : {"delivering"}, job : Job]
        \cup [at : {"recording", "marking"}, job : Job, ok : BOOLEAN]

TypeOK ==
    /\ StoreTypeOK
    /\ poller \in [Instance -> PollerState]
    /\ batch \in [Instance -> SUBSET Event]
    /\ targets \in [Instance -> SUBSET Endpoint]
    /\ retries \in [Instance -> SUBSET AttemptRow]
    /\ jobs \in [Instance -> Seq(Job)]
    /\ \A i \in Instance : Len(jobs[i]) <= Capacity
    /\ work \in [Instance -> [Slot -> Work]]

Init ==
    /\ StoreInit
    /\ poller = [i \in Instance |-> "retrying"]
    /\ batch = [i \in Instance |-> {}]
    /\ targets = [i \in Instance |-> {}]
    /\ retries = [i \in Instance |-> {}]
    /\ jobs = [i \in Instance |-> <<>>]
    /\ work = [i \in Instance |-> [k \in Slot |-> NoWork]]
-----------------------------------------------------------------------------
(***************************************************************************)
(* The poller.  Between two ticks it is "retrying" with nothing left.      *)
(***************************************************************************)
\* A tick: read the pending events.
PollPendingEvents(i) ==
    /\ poller[i] = "retrying"
    /\ retries[i] = {}
    /\ poller' = [poller EXCEPT ![i] = "pending"]
    /\ batch' = [batch EXCEPT ![i] = GetPendingEvents]
    /\ UNCHANGED <<storeVars, targets, retries, jobs, work>>

AtHand(i, e) == e \in batch[i] /\ \A f \in batch[i] : e <= f

\* Look up the endpoints of the next event; without any, skip the event.
FindEndpoints(i) ==
    /\ poller[i] = "pending"
    /\ \E e \in batch[i] :
         /\ AtHand(i, e)
         /\ LET found == GetEndpointsByTopic(TopicOf[e])
            IN  \/ /\ found # {}
                   /\ targets' = [targets EXCEPT ![i] = found]
                   /\ poller' = [poller EXCEPT ![i] = "claiming"]
                   /\ UNCHANGED batch
                \/ /\ found = {}
                   /\ batch' = [batch EXCEPT ![i] = @ \ {e}]
                   /\ UNCHANGED <<poller, targets>>
    /\ UNCHANGED <<storeVars, retries, jobs, work>>

\* Mutant: the jobs are sent without marking the event.
SkipClaim(i) ==
    /\ poller[i] = "claiming"
    /\ poller' = [poller EXCEPT ![i] = "sending"]
    /\ UNCHANGED <<storeVars, batch, targets, retries, jobs, work>>

ClaimEvent(i) ==
    /\ poller[i] = "claiming"
    /\ \E e \in batch[i] : AtHand(i, e) /\ UpdateEventStatus(e, "processing")
    /\ poller' = [poller EXCEPT ![i] = "sending"]
    /\ UNCHANGED <<batch, targets, retries, jobs, work>>

\* Mutant: a channel without a bound.
SendAnyway(i, j) == jobs' = [jobs EXCEPT ![i] = Append(@, j)]

\* A send blocks while the channel is full.
Send(i, j) ==
    /\ Len(jobs[i]) < Capacity
    /\ jobs' = [jobs EXCEPT ![i] = Append(@, j)]

SendFirstAttempt(i) ==
    /\ poller[i] = "sending"
    /\ \E e \in batch[i], p \in targets[i] :
         /\ AtHand(i, e)
         /\ Send(i, [event |-> e, endpoint |-> p, number |-> 1])
         /\ targets' = [targets EXCEPT ![i] = @ \ {p}]
         /\ \/ targets[i] # {p} /\ UNCHANGED <<poller, batch>>
            \/ /\ targets[i] = {p}
               /\ poller' = [poller EXCEPT ![i] = "pending"]
               /\ batch' = [batch EXCEPT ![i] = @ \ {e}]
    /\ UNCHANGED <<storeVars, retries, work>>

\* The pending events are done: read the due attempts.
PollRetryableAttempts(i) ==
    /\ poller[i] = "pending"
    /\ batch[i] = {}
    /\ poller' = [poller EXCEPT ![i] = "retrying"]
    /\ retries' = [retries EXCEPT ![i] = GetRetryableAttempts]
    /\ UNCHANGED <<storeVars, batch, targets, jobs, work>>

RetryAtHand(i, a) ==
    /\ a \in retries[i]
    /\ \A b \in retries[i] : \/ a.event < b.event
                             \/ a.event = b.event /\ a.endpoint <= b.endpoint

\* GetEvent and GetEndpoint find the rows the attempt references, or not.  They
\* are one step: while the attempt is there its foreign keys keep both rows.
LookUpRetry(i) ==
    /\ poller[i] = "retrying"
    /\ \E a \in retries[i] :
         /\ RetryAtHand(i, a)
         /\ \/ /\ ReferencesExist(a)
               /\ poller' = [poller EXCEPT ![i] = "resending"]
               /\ UNCHANGED retries
            \/ /\ ~ReferencesExist(a)
               /\ retries' = [retries EXCEPT ![i] = @ \ {a}]
               /\ UNCHANGED poller
    /\ UNCHANGED <<storeVars, batch, targets, jobs, work>>

SendRetry(i) ==
    /\ poller[i] = "resending"
    /\ \E a \in retries[i] :
         /\ RetryAtHand(i, a)
         /\ Send(i, [event |-> a.event, endpoint |-> a.endpoint, number |-> a.number + 1])
         /\ retries' = [retries EXCEPT ![i] = @ \ {a}]
    /\ poller' = [poller EXCEPT ![i] = "retrying"]
    /\ UNCHANGED <<storeVars, batch, targets, work>>

\* One of the two queries fails: nothing is read, and the poll goes on.
PollFails(i) ==
    /\ \/ /\ poller[i] = "retrying" /\ retries[i] = {}
          /\ poller' = [poller EXCEPT ![i] = "pending"]
       \/ /\ poller[i] = "pending" /\ batch[i] = {}
          /\ poller' = [poller EXCEPT ![i] = "retrying"]
    /\ UNCHANGED <<storeVars, batch, targets, retries, jobs, work>>

\* The endpoints are not read, or the event is not marked: it is skipped.  A
\* statement that reports an error may have been applied all the same.
SkipEvent(i) ==
    /\ \E e \in batch[i] :
         /\ AtHand(i, e)
         /\ \/ poller[i] \in {"pending", "claiming"} /\ UNCHANGED storeVars
            \/ poller[i] = "claiming" /\ UpdateEventStatus(e, "processing")
         /\ batch' = [batch EXCEPT ![i] = @ \ {e}]
    /\ poller' = [poller EXCEPT ![i] = "pending"]
    /\ targets' = [targets EXCEPT ![i] = {}]
    /\ UNCHANGED <<retries, jobs, work>>

SkipRetry(i) ==
    /\ poller[i] = "retrying"
    /\ \E a \in retries[i] : /\ RetryAtHand(i, a)
                             /\ retries' = [retries EXCEPT ![i] = @ \ {a}]
    /\ UNCHANGED <<storeVars, poller, batch, targets, jobs, work>>
-----------------------------------------------------------------------------
(***************************************************************************)
(* The workers: processJob, cut at its store statements and the HTTP call. *)
(***************************************************************************)
Become(i, k, w) == work' = [work EXCEPT ![i][k] = w]

ReceiveJob(i, k) ==
    /\ work[i][k].at = "idle"
    /\ jobs[i] # <<>>
    /\ Become(i, k, [at |-> "delivering", job |-> Head(jobs[i])])
    /\ jobs' = [jobs EXCEPT ![i] = Tail(@)]
    /\ UNCHANGED <<storeVars, pollerVars>>

\* The POST succeeds with a 2xx answer and fails with any other, a timeout,
\* a refused connection or a URL that makes no request.
Deliver(i, k) ==
    /\ work[i][k].at = "delivering"
    /\ \E ok \in BOOLEAN :
         Become(i, k, [at |-> "recording", job |-> work[i][k].job, ok |-> ok])
    /\ UNCHANGED <<storeVars, pollerVars, jobs>>

\* Mutant: the event is marked although the insert reported an error.
RecordIgnoringErrors(i, k) ==
    LET w   == work[i][k]
        row == RowOf(w.job, w.ok)
    IN  /\ w.at = "recording"
        /\ CreateDeliveryAttempt(row) \/ (~ReferencesExist(row) /\ UNCHANGED storeVars)
        /\ Become(i, k, IF row.retry = "none" THEN [w EXCEPT !.at = "marking"] ELSE NoWork)
        /\ UNCHANGED <<pollerVars, jobs>>

\* Mutant: the event is marked after every failure, retries left or not.
RecordAsFinal(i, k) ==
    LET w == work[i][k]
    IN  /\ w.at = "recording"
        /\ CreateDeliveryAttempt(RowOf(w.job, w.ok))
        /\ Become(i, k, [w EXCEPT !.at = "marking"])
        /\ UNCHANGED <<pollerVars, jobs>>

\* Insert the attempt, or drop the job when the insert violates a foreign key.
RecordAttempt(i, k) ==
    LET w     == work[i][k]
        row   == RowOf(w.job, w.ok)
        final == w.ok \/ row.retry = "none"
    IN  /\ w.at = "recording"
        /\ \/ /\ CreateDeliveryAttempt(row)
              /\ final
              /\ Become(i, k, [w EXCEPT !.at = "marking"])
           \/ /\ CreateDeliveryAttempt(row)
              /\ ~final
              /\ Become(i, k, NoWork)
           \/ /\ ~ReferencesExist(row)
              /\ Become(i, k, NoWork)
              /\ UNCHANGED storeVars
        /\ UNCHANGED <<pollerVars, jobs>>

\* Mutant: only the dead letters are marked.
MarkDeadOnly(i, k) ==
    LET w == work[i][k]
    IN  /\ w.at = "marking"
        /\ IF w.ok THEN UNCHANGED storeVars ELSE UpdateEventStatus(w.job.event, "dead")
        /\ Become(i, k, NoWork)
        /\ UNCHANGED <<pollerVars, jobs>>

\* The event is delivered as soon as one endpoint accepts it, and dead as
\* soon as one endpoint's attempts are exhausted.
MarkEvent(i, k) ==
    LET w == work[i][k]
    IN  /\ w.at = "marking"
        /\ UpdateEventStatus(w.job.event, IF w.ok THEN "delivered" ELSE "dead")
        /\ Become(i, k, NoWork)
        /\ UNCHANGED <<pollerVars, jobs>>

\* The insert or the update reports an error: the job is over, and the
\* statement may have been applied all the same.
DropJob(i, k) ==
    LET w == work[i][k]
    IN  /\ \/ w.at \in {"recording", "marking"} /\ UNCHANGED storeVars
           \/ w.at = "recording" /\ CreateDeliveryAttempt(RowOf(w.job, w.ok))
           \/ /\ w.at = "marking"
              /\ UpdateEventStatus(w.job.event, IF w.ok THEN "delivered" ELSE "dead")
        /\ Become(i, k, NoWork)
        /\ UNCHANGED <<pollerVars, jobs>>
-----------------------------------------------------------------------------
(***************************************************************************)
(* The environment: processes that die and start again, clients, time.     *)
(***************************************************************************)
Crash(i) ==
    /\ "crash" \in Scenario
    /\ poller' = [poller EXCEPT ![i] = "retrying"]
    /\ batch' = [batch EXCEPT ![i] = {}]
    /\ targets' = [targets EXCEPT ![i] = {}]
    /\ retries' = [retries EXCEPT ![i] = {}]
    /\ jobs' = [jobs EXCEPT ![i] = <<>>]
    /\ work' = [work EXCEPT ![i] = [k \in Slot |-> NoWork]]
    /\ UNCHANGED storeVars

\* POST /api/events/{id}/replay and the dashboard's replay button: the
\* event goes back to pending whatever its status.
ReplayEvent(e) == EventExists(e) /\ UpdateEventStatus(e, "pending")

\* The requests that write, each by its one statement that does.
HandleCreateEvent == \E e \in Event : CreateEvent(e)

\* An endpoint may be created for topics that no event has: its topics in Topic
\* are then none.
HandleCreateEndpoint == \E p \in Endpoint, topics \in SUBSET Topic : CreateEndpoint(p, topics)

HandleReplayEvent == "replay" \in Scenario /\ \E e \in Event : ReplayEvent(e)
HandleBulkReplay == "bulkReplay" \in Scenario /\ BulkReplayDeadEvents
HandlePurge == "purge" \in Scenario /\ PurgeDeadEvents

HandleUpdateEndpoint ==
    /\ "update" \in Scenario
    /\ \E p \in Endpoint, state \in {"enabled", "disabled"}, topics \in SUBSET Topic :
         UpdateEndpoint(p, state, topics)

HandleDeleteEndpoint == "delete" \in Scenario /\ \E p \in Endpoint : DeleteEndpoint(p)

ClientRequest ==
    /\ \/ HandleCreateEvent \/ HandleReplayEvent \/ HandleBulkReplay \/ HandlePurge
       \/ HandleCreateEndpoint \/ HandleUpdateEndpoint \/ HandleDeleteEndpoint
    /\ UNCHANGED <<pollerVars, jobs, work>>

\* Time passes until the next_retry_at of row a is reached.
TimePasses(a) == /\ a \in attempts
                 /\ BackoffElapses(a)
                 /\ UNCHANGED <<pollerVars, jobs, work>>

\* What a poller and a worker do when their statements are carried out, and
\* when one reports an error.
PollerProceeds(i) == \/ PollPendingEvents(i) \/ FindEndpoints(i) \/ ClaimEvent(i)
                     \/ SendFirstAttempt(i) \/ PollRetryableAttempts(i)
                     \/ LookUpRetry(i) \/ SendRetry(i)

PollerFails(i) == PollFails(i) \/ SkipEvent(i) \/ SkipRetry(i)

WorkerProceeds(i, k) == \/ ReceiveJob(i, k) \/ Deliver(i, k)
                        \/ RecordAttempt(i, k) \/ MarkEvent(i, k)

StoreMayFail == "storeError" \in Scenario

PollerStep(i) == PollerProceeds(i) \/ (StoreMayFail /\ PollerFails(i))
WorkerStep(i, k) == WorkerProceeds(i, k) \/ (StoreMayFail /\ DropJob(i, k))

Next == \/ \E i \in Instance : PollerStep(i) \/ Crash(i)
        \/ \E i \in Instance, k \in Slot : WorkerStep(i, k)
        \/ ClientRequest
        \/ \E a \in attempts : TimePasses(a)

Spec == Init /\ [][Next]_vars

\* The scheduler lets the poller and every worker go on, and time passes.  A
\* step that waits, for a job or for room in the channel, is not enabled.
FairSpec ==
    /\ Spec
    /\ \A i \in Instance : /\ WF_vars(PollerStep(i))
                           /\ \A k \in Slot : WF_vars(WorkerStep(i, k))
    /\ \A j \in BudgetedJob : WF_vars(TimePasses(RowOf(j, FALSE)))
=============================================================================
