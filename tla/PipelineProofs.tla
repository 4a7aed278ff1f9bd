--------------------------- MODULE PipelineProofs ---------------------------
(***************************************************************************)
(* Proofs, for every value of the constants, of what PipelineProperties    *)
(* says the delivery pipeline guarantees under every fault.                *)
(***************************************************************************)
EXTENDS PipelineProperties, TLAPS

(***************************************************************************)
(* Types.                                                                  *)
(***************************************************************************)
\* The row that records a job, by processJob, is a row of the table.
LEMMA RowOfType ==
    ASSUME NEW j \in Job, NEW ok \in BOOLEAN
    PROVE  RowOf(j, ok) \in AttemptRow
BY MaxRetriesIsInt DEF RowOf, Job, AttemptRow, NextRetryAt, Exhausted

\* What a worker holds in each of its phases.
LEMMA WorkTypes ==
    ASSUME NEW w \in Work
    PROVE  /\ w.at \in {"idle", "delivering", "recording", "marking"}
           /\ w.at # "idle" => w.job \in Job
           /\ w.at \in {"recording", "marking"} => /\ w.ok \in BOOLEAN
                                                   /\ w = [at |-> w.at, job |-> w.job, ok |-> w.ok]
BY DEF Work, NoWork

\* The queries of the poller return rows of their tables.
LEMMA QueryTypes ==
    /\ GetPendingEvents \subseteq {e \in Event : events[e] = "pending"}
    /\ \A t : GetEndpointsByTopic(t) \subseteq Endpoint
    /\ \A a \in GetRetryableAttempts :
          a \in attempts /\ a.retry = "due" /\ a.status = "failed"
BY DEF GetPendingEvents, GetEndpointsByTopic, GetRetryableAttempts, OnePerPair

\* The statements that write keep the tables well-typed.
LEMMA UpdateEventStatusType ==
    ASSUME StoreTypeOK, NEW e \in Event, NEW s \in EventStatus, UpdateEventStatus(e, s)
    PROVE  StoreTypeOK'
BY DEF StoreTypeOK, UpdateEventStatus, EventStatus

LEMMA CreateDeliveryAttemptType ==
    ASSUME StoreTypeOK, NEW a \in AttemptRow, CreateDeliveryAttempt(a)
    PROVE  StoreTypeOK'
BY DEF StoreTypeOK, CreateDeliveryAttempt

LEMMA StoreUnchangedType ==
    ASSUME StoreTypeOK, UNCHANGED storeVars
    PROVE  StoreTypeOK'
BY DEF StoreTypeOK, storeVars

LEMMA BackoffElapsesType ==
    ASSUME StoreTypeOK, NEW a \in attempts, BackoffElapses(a)
    PROVE  StoreTypeOK'
<1>1. [a EXCEPT !.retry = "due"] \in AttemptRow
    BY DEF StoreTypeOK, AttemptRow
<1> QED BY <1>1 DEF StoreTypeOK, BackoffElapses

LEMMA EndpointStatementsType ==
    ASSUME StoreTypeOK, NEW p \in Endpoint, NEW topics \in SUBSET Topic,
           NEW s \in {"enabled", "disabled"},
           \/ CreateEndpoint(p, topics) \/ UpdateEndpoint(p, s, topics) \/ DeleteEndpoint(p)
    PROVE  StoreTypeOK'
<1>1. PICK row \in EndpointRow : /\ endpoints' = [endpoints EXCEPT ![p] = row]
                                 /\ UNCHANGED <<events, attempts>>
    BY DEF CreateEndpoint, UpdateEndpoint, DeleteEndpoint, EndpointRow
<1> QED BY <1>1 DEF StoreTypeOK

\* What a request of a client can be.
LEMMA ClientRequestCases ==
    ASSUME ClientRequest
    PROVE  /\ UNCHANGED <<pollerVars, jobs, work>>
           /\ \/ \E e \in Event : CreateEvent(e) \/ ReplayEvent(e)
              \/ BulkReplayDeadEvents \/ PurgeDeadEvents
              \/ \E p \in Endpoint, topics \in SUBSET Topic : CreateEndpoint(p, topics)
              \/ \E p \in Endpoint, s \in {"enabled", "disabled"}, topics \in SUBSET Topic :
                     UpdateEndpoint(p, s, topics)
              \/ \E p \in Endpoint : DeleteEndpoint(p)
BY DEF ClientRequest, HandleCreateEvent, HandleCreateEndpoint, HandleReplayEvent,
       HandleBulkReplay, HandlePurge, HandleUpdateEndpoint, HandleDeleteEndpoint

\* No request of a client leaves the tables ill-typed.
LEMMA ClientRequestType ==
    ASSUME StoreTypeOK, ClientRequest
    PROVE  StoreTypeOK'
<1>1. CASE \E e \in Event : CreateEvent(e)
    BY <1>1 DEF CreateEvent, StoreTypeOK, EventStatus
<1>2. CASE \E p \in Endpoint, topics \in SUBSET Topic : CreateEndpoint(p, topics)
    BY <1>2, EndpointStatementsType
<1>3. CASE \E e \in Event : ReplayEvent(e)
    BY <1>3, UpdateEventStatusType DEF ReplayEvent, EventStatus
<1>4. CASE BulkReplayDeadEvents \/ PurgeDeadEvents
    BY <1>4 DEF BulkReplayDeadEvents, PurgeDeadEvents, StoreTypeOK, EventStatus
<1>5. CASE \E p \in Endpoint, s \in {"enabled", "disabled"}, topics \in SUBSET Topic :
               UpdateEndpoint(p, s, topics)
    BY <1>5, EndpointStatementsType
<1>6. CASE \E p \in Endpoint : DeleteEndpoint(p)
    BY <1>6, EndpointStatementsType
<1> QED BY <1>1, <1>2, <1>3, <1>4, <1>5, <1>6, ClientRequestCases

\* A send appends to the channel of one instance, and only while there is room.
LEMMA SendType ==
    ASSUME jobs \in [Instance -> Seq(Job)], \A h \in Instance : Len(jobs[h]) <= Capacity,
           NEW i \in Instance, NEW j \in Job, Send(i, j)
    PROVE  /\ jobs' \in [Instance -> Seq(Job)]
           /\ \A h \in Instance : Len(jobs'[h]) <= Capacity
<1>1. Append(jobs[i], j) \in Seq(Job) /\ Len(Append(jobs[i], j)) = Len(jobs[i]) + 1
    OBVIOUS
<1>2. Len(jobs[i]) + 1 <= Capacity
    BY ConcurrencyIsNat DEF Send, Capacity
<1> QED BY <1>1, <1>2 DEF Send

\* A worker goes on to another phase.
LEMMA BecomeType ==
    ASSUME work \in [Instance -> [Slot -> Work]],
           NEW i \in Instance, NEW k \in Slot, NEW w \in Work, Become(i, k, w)
    PROVE  work' \in [Instance -> [Slot -> Work]]
BY DEF Become

LEMMA InitType == Init => TypeOK
<1> SUFFICES ASSUME Init
             PROVE  TypeOK
    OBVIOUS
<1>1. StoreTypeOK
    BY DEF Init, StoreInit, StoreTypeOK, EventStatus, EndpointRow
<1>2. jobs \in [Instance -> Seq(Job)] /\ \A i \in Instance : Len(jobs[i]) <= Capacity
    BY ConcurrencyIsNat DEF Init, Capacity
<1> QED BY <1>1, <1>2 DEF Init, TypeOK, Work, PollerState

\* Every step of every process, client or clock keeps the types; in particular
\* no send overfills a job channel (pool.go: make(chan ..., concurrency*2)).
LEMMA TypeStep ==
    ASSUME TypeOK, [Next]_vars
    PROVE  TypeOK'
<1> USE DEF TypeOK, pollerVars, PollerState
<1>1. CASE UNCHANGED vars
    BY <1>1 DEF vars, StoreTypeOK, storeVars
<1>2. ASSUME NEW i \in Instance, PollPendingEvents(i)
      PROVE  TypeOK'
    BY <1>2, QueryTypes, StoreUnchangedType DEF PollPendingEvents
<1>3. ASSUME NEW i \in Instance, FindEndpoints(i)
      PROVE  TypeOK'
  <2>1. PICK e \in batch[i], found \in SUBSET Endpoint :
            \/ /\ targets' = [targets EXCEPT ![i] = found]
               /\ poller' = [poller EXCEPT ![i] = "claiming"]
               /\ UNCHANGED batch
            \/ /\ batch' = [batch EXCEPT ![i] = @ \ {e}]
               /\ UNCHANGED <<poller, targets>>
      BY <1>3, QueryTypes DEF FindEndpoints
  <2> QED BY <1>3, <2>1, StoreUnchangedType DEF FindEndpoints
<1>4. ASSUME NEW i \in Instance, ClaimEvent(i)
      PROVE  TypeOK'
  <2>1. StoreTypeOK'
      BY <1>4, UpdateEventStatusType, StoreUnchangedType DEF ClaimEvent, EventStatus
  <2> QED BY <1>4, <2>1 DEF ClaimEvent
<1>5. ASSUME NEW i \in Instance, SendFirstAttempt(i)
      PROVE  TypeOK'
  <2>1. PICK e \in batch[i], p \in targets[i] :
            /\ Send(i, [event |-> e, endpoint |-> p, number |-> 1])
            /\ targets' = [targets EXCEPT ![i] = @ \ {p}]
            /\ \/ UNCHANGED <<poller, batch>>
               \/ /\ poller' = [poller EXCEPT ![i] = "pending"]
                  /\ batch' = [batch EXCEPT ![i] = @ \ {e}]
      BY <1>5 DEF SendFirstAttempt
  <2>2. [event |-> e, endpoint |-> p, number |-> 1] \in Job
      BY DEF Job
  <2>3. UNCHANGED <<storeVars, retries, work>>
      BY <1>5 DEF SendFirstAttempt
  <2>4. jobs' \in [Instance -> Seq(Job)] /\ \A h \in Instance : Len(jobs'[h]) <= Capacity
      BY <2>1, <2>2, SendType
  <2>5. /\ poller' \in [Instance -> PollerState]
        /\ batch' \in [Instance -> SUBSET Event]
        /\ targets' \in [Instance -> SUBSET Endpoint]
      BY <2>1
  <2> QED BY <2>3, <2>4, <2>5, StoreUnchangedType
<1>6. ASSUME NEW i \in Instance, PollRetryableAttempts(i)
      PROVE  TypeOK'
    BY <1>6, QueryTypes, StoreUnchangedType DEF PollRetryableAttempts, StoreTypeOK
<1>7. ASSUME NEW i \in Instance, SendRetry(i)
      PROVE  TypeOK'
  <2>1. PICK a \in retries[i] :
            /\ retries' = [retries EXCEPT ![i] = @ \ {a}]
            /\ Send(i, [event |-> a.event, endpoint |-> a.endpoint, number |-> a.number + 1])
      BY <1>7 DEF SendRetry
  <2>2. [event |-> a.event, endpoint |-> a.endpoint, number |-> a.number + 1] \in Job
      BY DEF Job, AttemptRow
  <2> QED BY <1>7, <2>1, <2>2, SendType, StoreUnchangedType DEF SendRetry
<1>l. ASSUME NEW i \in Instance, LookUpRetry(i)
      PROVE  TypeOK'
    BY <1>l, StoreUnchangedType DEF LookUpRetry
<1>8. ASSUME NEW i \in Instance, NEW k \in Slot, ReceiveJob(i, k)
      PROVE  TypeOK'
  <2>1. [at |-> "delivering", job |-> Head(jobs[i])] \in Work
      BY <1>8 DEF ReceiveJob, Work
  <2>2. Tail(jobs[i]) \in Seq(Job) /\ Len(Tail(jobs[i])) <= Capacity
      BY <1>8, ConcurrencyIsNat DEF ReceiveJob, Capacity
  <2> QED BY <1>8, <2>1, <2>2, BecomeType, StoreUnchangedType DEF ReceiveJob
<1>9. ASSUME NEW i \in Instance, NEW k \in Slot, Deliver(i, k)
      PROVE  TypeOK'
  <2>1. work[i][k].job \in Job
      BY <1>9, WorkTypes DEF Deliver
  <2>2. \A ok \in BOOLEAN : [at |-> "recording", job |-> work[i][k].job, ok |-> ok] \in Work
      BY <2>1 DEF Work
  <2> QED BY <1>9, <2>2, BecomeType, StoreUnchangedType DEF Deliver
<1>10. ASSUME NEW i \in Instance, NEW k \in Slot, RecordAttempt(i, k)
       PROVE  TypeOK'
  <2> DEFINE w == work[i][k]
  <2>1. /\ w.job \in Job /\ w.ok \in BOOLEAN
        /\ w = [at |-> "recording", job |-> w.job, ok |-> w.ok]
      BY <1>10, WorkTypes DEF RecordAttempt
  <2>2. [w EXCEPT !.at = "marking"] \in Work
      BY <2>1 DEF Work
  <2>3. StoreTypeOK'
      BY <1>10, <2>1, RowOfType, CreateDeliveryAttemptType, StoreUnchangedType DEF RecordAttempt
  <2>4. NoWork \in Work
      BY DEF Work
  <2> QED BY <1>10, <2>2, <2>3, <2>4, BecomeType DEF RecordAttempt
<1>11. ASSUME NEW i \in Instance, NEW k \in Slot, MarkEvent(i, k)
       PROVE  TypeOK'
  <2>1. work[i][k].job.event \in Event
      BY <1>11, WorkTypes DEF MarkEvent, Job
  <2>2. StoreTypeOK'
      BY <1>11, <2>1, UpdateEventStatusType, StoreUnchangedType DEF MarkEvent, EventStatus
  <2>3. NoWork \in Work
      BY DEF Work
  <2> QED BY <1>11, <2>2, <2>3, BecomeType DEF MarkEvent
<1>f. ASSUME NEW i \in Instance, PollerFails(i)
      PROVE  TypeOK'
  <2>1. CASE PollFails(i) \/ SkipRetry(i)
      BY <2>1, StoreUnchangedType DEF PollFails, SkipRetry
  <2>2. CASE SkipEvent(i)
    <3>1. StoreTypeOK'
        BY <2>2, UpdateEventStatusType, StoreUnchangedType DEF SkipEvent, EventStatus
    <3> QED BY <2>2, <3>1 DEF SkipEvent
  <2> QED BY <1>f, <2>1, <2>2 DEF PollerFails
<1>d. ASSUME NEW i \in Instance, NEW k \in Slot, DropJob(i, k)
      PROVE  TypeOK'
  <2> DEFINE w == work[i][k]
  <2>1. w.at \in {"recording", "marking"} /\ w.job \in Job /\ w.ok \in BOOLEAN
      BY <1>d, WorkTypes DEF DropJob
  <2>2. w.job.event \in Event
      BY <2>1 DEF Job
  <2>3. StoreTypeOK'
      BY <1>d, <2>1, <2>2, RowOfType, CreateDeliveryAttemptType, UpdateEventStatusType,
         StoreUnchangedType DEF DropJob, EventStatus
  <2>4. NoWork \in Work
      BY DEF Work
  <2> QED BY <1>d, <2>3, <2>4, BecomeType DEF DropJob
<1>12. ASSUME NEW i \in Instance, Crash(i)
       PROVE  TypeOK'
  <2>1. jobs' \in [Instance -> Seq(Job)] /\ \A h \in Instance : Len(jobs'[h]) <= Capacity
      BY <1>12, ConcurrencyIsNat DEF Crash, Capacity
  <2>2. work' \in [Instance -> [Slot -> Work]]
      BY <1>12 DEF Crash, Work
  <2> QED BY <1>12, <2>1, <2>2, StoreUnchangedType DEF Crash
<1>13. CASE ClientRequest
    BY <1>13, ClientRequestType, ClientRequestCases
<1>14. ASSUME NEW a \in attempts, TimePasses(a)
       PROVE  TypeOK'
    BY <1>14, BackoffElapsesType DEF TimePasses
<1> QED BY <1>1, <1>2, <1>3, <1>4, <1>5, <1>6, <1>7, <1>l, <1>8, <1>9, <1>10, <1>11, <1>f, <1>d,
           <1>12, <1>13, <1>14
        DEF Next, PollerStep, WorkerStep, PollerProceeds, WorkerProceeds

\* The state of every reachable system is well-typed: statuses, rows, jobs and
\* workers are what the code can hold, and no channel exceeds its capacity.
THEOREM TypeCorrect == Spec => []TypeOK
<1>1. Init => TypeOK
    BY InitType
<1>2. TypeOK /\ [Next]_vars => TypeOK'
    BY TypeStep
<1> QED BY <1>1, <1>2, PTL DEF Spec

(***************************************************************************)
(* The inductive invariant.                                                *)
(***************************************************************************)
\* No row of delivery_attempts goes away but by its backoff coming to an end,
\* and no purge removes an event: a dead one has the attempt that killed it.
LEMMA StoreKept ==
    ASSUME IInv, [Next]_vars
    PROVE  /\ \A b \in attempts : b.retry # "waiting" => b \in attempts'
           /\ \A e \in Event : EventExists(e) => EventExists(e)'
<1> USE DEF EventExists
<1>1. CASE UNCHANGED storeVars
    BY <1>1 DEF storeVars
<1>2. ASSUME NEW e \in Event, NEW s \in {"pending", "processing", "delivered", "dead"},
             UpdateEventStatus(e, s)
      PROVE  /\ attempts' = attempts
             /\ \A f \in Event : EventExists(f) => EventExists(f)'
    BY <1>2 DEF UpdateEventStatus, IInv, TypeOK, StoreTypeOK
<1>3. CASE ClientRequest
  <2>1. CASE \E e \in Event : CreateEvent(e) \/ ReplayEvent(e)
      BY <2>1, <1>2 DEF CreateEvent, ReplayEvent, IInv, TypeOK, StoreTypeOK
  <2>2. CASE BulkReplayDeadEvents
      BY <2>2 DEF BulkReplayDeadEvents
  <2>3. CASE PurgeDeadEvents
    <3>1. \A e \in Event : events[e] # "dead"
        BY <2>3 DEF PurgeDeadEvents, PurgeAllowed, IInv, StatusIsEarned, ShowsExhaustion
    <3> QED BY <2>3, <3>1 DEF PurgeDeadEvents
  <2>4. CASE UNCHANGED <<events, attempts>>
      BY <2>4
  <2> QED BY <1>3, <2>1, <2>2, <2>3, <2>4, ClientRequestCases
          DEF CreateEndpoint, UpdateEndpoint, DeleteEndpoint
<1>4. ASSUME NEW a \in attempts, TimePasses(a)
      PROVE  /\ \A b \in attempts : b.retry # "waiting" => b \in attempts'
             /\ events' = events
    BY <1>4 DEF TimePasses, BackoffElapses
<1>5. ASSUME NEW i \in Instance, ClaimEvent(i) \/ SkipEvent(i)
      PROVE  UNCHANGED storeVars \/ \E e \in Event : UpdateEventStatus(e, "processing")
    BY <1>5 DEF ClaimEvent, SkipEvent, IInv, TypeOK
<1>6. ASSUME NEW i \in Instance, NEW k \in Slot, RecordAttempt(i, k)
      PROVE  attempts \subseteq attempts' /\ events' = events
    BY <1>6 DEF RecordAttempt, CreateDeliveryAttempt, storeVars
<1>7. ASSUME NEW i \in Instance, NEW k \in Slot, MarkEvent(i, k) \/ DropJob(i, k)
      PROVE  \/ attempts \subseteq attempts' /\ events' = events
             \/ \E e \in Event, s \in {"delivered", "dead"} : UpdateEventStatus(e, s)
  <2>1. work[i][k].job.event \in Event
      BY <1>7, WorkTypes DEF MarkEvent, DropJob, Job, IInv, TypeOK
  <2> QED BY <1>7, <2>1 DEF MarkEvent, DropJob, CreateDeliveryAttempt, storeVars
<1> QED BY <1>1, <1>2, <1>3, <1>4, <1>5, <1>6, <1>7
        DEF Next, PollerStep, WorkerStep, PollerProceeds, WorkerProceeds, PollerFails,
            PollPendingEvents, FindEndpoints, SendFirstAttempt, PollRetryableAttempts, LookUpRetry,
            SendRetry, PollFails, SkipRetry, ReceiveJob, Deliver, Crash, vars, storeVars

\* The events that the log speaks of stay.
LEMMA LogEventsStay ==
    ASSUME IInv, [Next]_vars, NEW a \in attempts
    PROVE  EventExists(a.event)'
<1>1. a.event \in Event /\ EventExists(a.event)
    BY DEF IInv, TypeOK, StoreTypeOK, AttemptRow, HistoryUnbroken
<1> QED BY <1>1, StoreKept

\* What the log justifies it justifies for good.
LEMMA JustifiedStays ==
    ASSUME IInv, [Next]_vars, NEW x, Justified(x, attempts)
    PROVE  Justified(x, attempts')
BY StoreKept DEF Justified, Retries

\* A process that forgets, or keeps, what it knew of the store stays right.
LEMMA BatchStays ==
    ASSUME IInv, [Next]_vars,
           \A i \in Instance : \A e \in batch'[i] : e \in batch[i] \/ EventExists(e)
    PROVE  BatchKnown'
<1>1. \A i \in Instance, e \in Event : e \in batch'[i] => EventExists(e)
    BY DEF IInv, InFlightJustified, BatchKnown
<1>2. \A i \in Instance : batch'[i] \subseteq Event
    BY TypeStep DEF IInv, TypeOK
<1> QED BY <1>1, <1>2, StoreKept DEF BatchKnown

LEMMA SoundStays ==
    ASSUME IInv, [Next]_vars, NEW j \in Job, Sound(j)
    PROVE  j.number <= Budget /\ Justified(j, attempts') /\ EventExists(j.event)'
BY StoreKept, JustifiedStays DEF Sound, Job

LEMMA JobsStay ==
    ASSUME IInv, [Next]_vars,
           \A i \in Instance : \A n \in 1..Len(jobs'[i]) :
               \/ \E m \in 1..Len(jobs[i]) : jobs'[i][n] = jobs[i][m]
               \/ Sound(jobs'[i][n])
    PROVE  JobsSound'
<1> SUFFICES ASSUME NEW i \in Instance, NEW n \in 1..Len(jobs'[i])
             PROVE  Sound(jobs[i][n])'
    BY DEF JobsSound
<1>1. jobs'[i][n] \in Job
    BY TypeStep DEF IInv, TypeOK
<1>2. Sound(jobs'[i][n])
    BY DEF IInv, InFlightJustified, JobsSound
<1> QED BY <1>1, <1>2, SoundStays DEF Sound

LEMMA WorkStays ==
    ASSUME IInv, [Next]_vars,
           \A i \in Instance, k \in Slot :
               \/ work'[i][k].at = "idle"
               \/ work[i][k].at # "idle" /\ work'[i][k].job = work[i][k].job
               \/ Sound(work'[i][k].job)
    PROVE  WorkSound'
<1> SUFFICES ASSUME NEW i \in Instance, NEW k \in Slot, work'[i][k].at # "idle"
             PROVE  Sound(work[i][k].job)'
    BY DEF WorkSound
<1>1. work'[i][k].job \in Job
    BY TypeStep, WorkTypes DEF IInv, TypeOK
<1>2. Sound(work'[i][k].job)
    BY DEF IInv, InFlightJustified, WorkSound
<1> QED BY <1>1, <1>2, SoundStays DEF Sound

LEMMA RetriesStay ==
    ASSUME IInv, [Next]_vars,
           \A i \in Instance : \A a \in retries'[i] :
               a \in retries[i] \/ a \in GetRetryableAttempts
    PROVE  RetriesDue'
<1>1. \A i \in Instance : \A a \in retries'[i] :
          a \in attempts /\ a.status = "failed" /\ a.retry = "due"
    BY QueryTypes DEF IInv, InFlightJustified, RetriesDue
<1> QED BY <1>1, StoreKept DEF RetriesDue

LEMMA MarksStay ==
    ASSUME IInv, [Next]_vars,
           \A i \in Instance, k \in Slot :
               work'[i][k] = work[i][k] \/ work'[i][k].at # "marking"
    PROVE  MarksRecorded'
<1> SUFFICES ASSUME NEW i \in Instance, NEW k \in Slot, work'[i][k].at = "marking"
             PROVE  /\ RowOf(work'[i][k].job, work'[i][k].ok) \in attempts'
                    /\ work'[i][k].ok \/ Exhausted(work'[i][k].job.number)
    BY DEF MarksRecorded
<1>1. /\ RowOf(work[i][k].job, work[i][k].ok) \in attempts
      /\ work[i][k].ok \/ Exhausted(work[i][k].job.number)
      /\ work'[i][k] = work[i][k]
    BY DEF IInv, MarksRecorded
<1>2. RowOf(work[i][k].job, work[i][k].ok).retry = "none"
    BY <1>1 DEF RowOf, NextRetryAt
<1> QED BY <1>1, <1>2, StoreKept

\* The attempt that earned an event its final status stays in the log.
LEMMA StatusStays ==
    ASSUME IInv, [Next]_vars,
           \A e \in Event : events'[e] = events[e] \/ events'[e] \notin {"delivered", "dead"}
    PROVE  StatusIsEarned'
<1> SUFFICES ASSUME NEW e \in Event
             PROVE  /\ events'[e] = "delivered" => \E a \in attempts' : ShowsSuccess(a, e)
                    /\ events'[e] = "dead" => \E a \in attempts' : ShowsExhaustion(a, e)
    BY DEF StatusIsEarned
<1>1. \A a \in attempts : ShowsSuccess(a, e) \/ ShowsExhaustion(a, e) => a \in attempts'
    BY StoreKept DEF IInv, HistoryUnbroken, Consistent, ShowsSuccess, ShowsExhaustion
<1> QED BY <1>1 DEF IInv, StatusIsEarned

\* A request of a client touches no attempt and gives no event a final status.
LEMMA ClientRequestKeeps ==
    ASSUME IInv, ClientRequest
    PROVE  /\ UNCHANGED <<attempts, pollerVars, jobs, work>>
           /\ \A e \in Event : events'[e] = events[e] \/ events'[e] \notin {"delivered", "dead"}
<1> USE DEF IInv, TypeOK, StoreTypeOK
<1>1. CASE \E e \in Event : CreateEvent(e) \/ ReplayEvent(e)
    BY <1>1, ClientRequestCases DEF CreateEvent, ReplayEvent, UpdateEventStatus
<1>2. CASE BulkReplayDeadEvents \/ PurgeDeadEvents
    BY <1>2, ClientRequestCases DEF BulkReplayDeadEvents, PurgeDeadEvents
<1>3. CASE UNCHANGED <<events, attempts>>
    BY <1>3, ClientRequestCases
<1> QED BY <1>1, <1>2, <1>3, ClientRequestCases
        DEF CreateEndpoint, UpdateEndpoint, DeleteEndpoint

\* The row that records a justified job within the budget continues the log.
LEMMA RowOfContinues ==
    ASSUME NEW j \in Job, NEW ok \in BOOLEAN, NEW log, j.number <= Budget, Justified(j, log)
    PROVE  Consistent(RowOf(j, ok)) /\ Justified(RowOf(j, ok), log)
<1>1. Consistent(RowOf(j, ok))
    BY DEF Consistent, RowOf, NextRetryAt
<1>2. Justified(RowOf(j, ok), log)
    BY DEF Justified, Retries, SamePair, RowOf
<1> QED BY <1>1, <1>2

\* The retry of a due attempt is within the budget and continues the log.
LEMMA RetryIsSound ==
    ASSUME IInv, NEW a \in attempts, a.status = "failed", a.retry = "due"
    PROVE  Sound([event |-> a.event, endpoint |-> a.endpoint, number |-> a.number + 1])
<1> DEFINE j == [event |-> a.event, endpoint |-> a.endpoint, number |-> a.number + 1]
<1>1. a.number \in Nat /\ ~Exhausted(a.number)
    BY DEF IInv, TypeOK, StoreTypeOK, AttemptRow, HistoryUnbroken, Consistent
<1>2. j.number <= Budget
    BY <1>1, MaxRetriesIsInt DEF Exhausted, Budget
<1>3. Justified(j, attempts)
    BY DEF Justified, Retries, SamePair
<1>4. EventExists(j.event)
    BY DEF IInv, HistoryUnbroken
<1> QED BY <1>2, <1>3, <1>4 DEF Sound

\* A sound job is still sound in the channel it is sent to.
LEMMA SendKeepsSound ==
    ASSUME IInv, [Next]_vars,
           NEW i \in Instance, NEW j \in Job, Sound(j), Send(i, j)
    PROVE  JobsSound'
<1>1. jobs \in [Instance -> Seq(Job)]
    BY DEF IInv, TypeOK
<1>2. \A n \in 1..Len(Append(jobs[i], j)) :
          IF n = Len(jobs[i]) + 1 THEN Append(jobs[i], j)[n] = j
                                  ELSE n \in 1..Len(jobs[i]) /\ Append(jobs[i], j)[n] = jobs[i][n]
    BY <1>1
<1>3. jobs' = [jobs EXCEPT ![i] = Append(jobs[i], j)]
    BY DEF Send
<1> QED BY <1>1, <1>2, <1>3, JobsStay

\* The row of a sound job keeps the log unbroken.
LEMMA RecordKeepsHistory ==
    ASSUME IInv, [Next]_vars, NEW j \in Job, NEW ok \in BOOLEAN, Sound(j),
           attempts' = attempts \cup {RowOf(j, ok)} \/ UNCHANGED attempts
    PROVE  HistoryUnbroken'
<1> DEFINE row == RowOf(j, ok)
<1>1. Consistent(row) /\ Justified(row, attempts)
    BY RowOfContinues DEF Sound
<1>2. events'[row.event] \notin {"none", "deleted"}
    BY SoundStays DEF RowOf, EventExists
<1>3. \A a \in attempts : events'[a.event] \notin {"none", "deleted"}
    BY LogEventsStay DEF EventExists
<1> QED BY <1>1, <1>2, <1>3, JustifiedStays DEF IInv, HistoryUnbroken, EventExists

\* A final status is earned when the attempt that decides it is in the log.
LEMMA MarkKeepsEarned ==
    ASSUME IInv, NEW i \in Instance, NEW k \in Slot, work[i][k].at = "marking",
           UpdateEventStatus(work[i][k].job.event, IF work[i][k].ok THEN "delivered" ELSE "dead")
    PROVE  StatusIsEarned'
<1> DEFINE w == work[i][k]
<1>1. /\ w.job \in Job /\ w.ok \in BOOLEAN
      /\ RowOf(w.job, w.ok) \in attempts /\ (w.ok \/ Exhausted(w.job.number))
    BY WorkTypes DEF IInv, TypeOK, MarksRecorded
<1>2. UNCHANGED attempts
    BY DEF UpdateEventStatus
<1> USE DEF UpdateEventStatus, IInv, TypeOK, StoreTypeOK, StatusIsEarned
<1>3. CASE w.ok
  <2>1. ShowsSuccess(RowOf(w.job, w.ok), w.job.event)
      BY <1>3 DEF RowOf, ShowsSuccess
  <2> QED BY <1>1, <1>2, <1>3, <2>1
<1>4. CASE ~w.ok
  <2>1. ShowsExhaustion(RowOf(w.job, w.ok), w.job.event)
      BY <1>1, <1>4 DEF RowOf, ShowsExhaustion
  <2> QED BY <1>1, <1>2, <1>4, <2>1
<1> QED BY <1>3, <1>4

LEMMA IInvInit == Init => IInv
BY InitType DEF Init, StoreInit, NoWork, IInv, HistoryUnbroken, InFlightJustified, BatchKnown,
    JobsSound, WorkSound, RetriesDue, MarksRecorded, StatusIsEarned

\* One step per action.  A part of the invariant that an action cannot disturb
\* stays by the lemma of that part.
LEMMA IInvStep ==
    ASSUME IInv, [Next]_vars
    PROVE  IInv'
<1> DEFINE Still == /\ BatchKnown' /\ JobsSound' /\ WorkSound' /\ RetriesDue'
                    /\ MarksRecorded' /\ StatusIsEarned' /\ HistoryUnbroken'
<1>1. TypeOK'
    BY TypeStep DEF IInv
<1>b. UNCHANGED batch => BatchKnown'
    BY BatchStays
<1>j. UNCHANGED jobs => JobsSound'
    BY JobsStay
<1>w. UNCHANGED work => WorkSound' /\ MarksRecorded'
    BY WorkStays, MarksStay
<1>r. UNCHANGED retries => RetriesDue'
    BY RetriesStay
<1>s. UNCHANGED events => StatusIsEarned'
    BY StatusStays
<1>h. UNCHANGED attempts => HistoryUnbroken'
    BY LogEventsStay DEF IInv, HistoryUnbroken
<1> USE DEF storeVars, pollerVars
<1>2. ASSUME UNCHANGED vars
      PROVE  Still
    BY <1>2, <1>b, <1>j, <1>w, <1>r, <1>s, <1>h DEF vars
<1>3. ASSUME NEW i \in Instance, PollPendingEvents(i)
      PROVE  Still
  <2>1. BatchKnown'
      BY <1>3, QueryTypes, BatchStays DEF PollPendingEvents, EventExists, IInv, TypeOK
  <2> QED BY <1>3, <2>1, <1>j, <1>w, <1>r, <1>s, <1>h DEF PollPendingEvents
<1>4. ASSUME NEW i \in Instance, FindEndpoints(i)
      PROVE  Still
  <2>1. BatchKnown'
      BY <1>4, BatchStays DEF FindEndpoints, IInv, TypeOK
  <2> QED BY <1>4, <2>1, <1>j, <1>w, <1>r, <1>s, <1>h DEF FindEndpoints
<1>5. ASSUME NEW i \in Instance, ClaimEvent(i)
      PROVE  Still
  <2>1. StatusIsEarned'
      BY <1>5, StatusStays DEF ClaimEvent, UpdateEventStatus, IInv, TypeOK, StoreTypeOK
  <2>2. UNCHANGED attempts
      BY <1>5 DEF ClaimEvent, UpdateEventStatus
  <2> QED BY <1>5, <2>1, <2>2, <1>b, <1>j, <1>w, <1>r, <1>h DEF ClaimEvent
<1>6. ASSUME NEW i \in Instance, SendFirstAttempt(i)
      PROVE  Still
  <2>1. BatchKnown'
    <3>1. \/ UNCHANGED batch
          \/ \E e \in batch[i] : batch' = [batch EXCEPT ![i] = @ \ {e}]
        BY <1>6 DEF SendFirstAttempt
    <3> QED BY <3>1, BatchStays DEF IInv, TypeOK
  <2>2. PICK e \in batch[i], p \in Endpoint : Send(i, [event |-> e, endpoint |-> p, number |-> 1])
      BY <1>6 DEF SendFirstAttempt, IInv, TypeOK
  <2>3. Sound([event |-> e, endpoint |-> p, number |-> 1])
      BY MaxRetriesIsInt DEF Sound, Budget, Justified, IInv, InFlightJustified, BatchKnown
  <2>4. [event |-> e, endpoint |-> p, number |-> 1] \in Job
      BY DEF Job, IInv, TypeOK
  <2>5. JobsSound'
      BY <2>2, <2>3, <2>4, SendKeepsSound
  <2> QED BY <1>6, <2>1, <2>5, <1>w, <1>r, <1>s, <1>h DEF SendFirstAttempt
<1>7. ASSUME NEW i \in Instance, PollRetryableAttempts(i)
      PROVE  Still
  <2>1. RetriesDue'
      BY <1>7, RetriesStay DEF PollRetryableAttempts, IInv, TypeOK
  <2> QED BY <1>7, <2>1, <1>b, <1>j, <1>w, <1>s, <1>h DEF PollRetryableAttempts
<1>8. ASSUME NEW i \in Instance, SendRetry(i)
      PROVE  Still
  <2>1. RetriesDue'
      BY <1>8, RetriesStay DEF SendRetry, IInv, TypeOK
  <2>2. PICK a \in retries[i] :
            Send(i, [event |-> a.event, endpoint |-> a.endpoint, number |-> a.number + 1])
      BY <1>8 DEF SendRetry
  <2>3. Sound([event |-> a.event, endpoint |-> a.endpoint, number |-> a.number + 1])
      BY <2>2, RetryIsSound DEF IInv, InFlightJustified, RetriesDue
  <2>4. [event |-> a.event, endpoint |-> a.endpoint, number |-> a.number + 1] \in Job
      BY DEF Job, AttemptRow, IInv, TypeOK
  <2>5. JobsSound'
      BY <2>2, <2>3, <2>4, SendKeepsSound
  <2> QED BY <1>8, <2>1, <2>5, <1>b, <1>w, <1>s, <1>h DEF SendRetry
<1>l. ASSUME NEW i \in Instance, LookUpRetry(i)
      PROVE  Still
  <2>1. RetriesDue'
      BY <1>l, RetriesStay DEF LookUpRetry, IInv, TypeOK
  <2> QED BY <1>l, <2>1, <1>b, <1>j, <1>w, <1>s, <1>h DEF LookUpRetry
<1>9. ASSUME NEW i \in Instance, NEW k \in Slot, ReceiveJob(i, k)
      PROVE  Still
  <2>1. /\ jobs[i] \in Seq(Job) /\ jobs[i] # <<>>
        /\ jobs' = [jobs EXCEPT ![i] = Tail(@)]
        /\ work' = [work EXCEPT ![i][k] = [at |-> "delivering", job |-> Head(jobs[i])]]
      BY <1>9 DEF ReceiveJob, Become, IInv, TypeOK
  <2>2. Head(jobs[i]) = jobs[i][1] /\ 1 \in 1..Len(jobs[i])
      BY <2>1
  <2>3. Sound(Head(jobs[i]))
      BY <2>2 DEF IInv, InFlightJustified, JobsSound
  <2>4. \A n \in 1..Len(Tail(jobs[i])) :
            Tail(jobs[i])[n] = jobs[i][n + 1] /\ n + 1 \in 1..Len(jobs[i])
      BY <2>1
  <2>5. JobsSound'
      BY <2>1, <2>4, JobsStay DEF IInv, TypeOK
  <2>6. WorkSound'
      BY <2>1, <2>3, WorkStays DEF IInv, TypeOK
  <2>7. MarksRecorded'
      BY <2>1, MarksStay DEF IInv, TypeOK
  <2> QED BY <1>9, <2>5, <2>6, <2>7, <1>b, <1>r, <1>s, <1>h DEF ReceiveJob
<1>10. ASSUME NEW i \in Instance, NEW k \in Slot, Deliver(i, k)
       PROVE  Still
  <2>1. PICK ok \in BOOLEAN :
            work' = [work EXCEPT ![i][k] = [at |-> "recording", job |-> work[i][k].job, ok |-> ok]]
      BY <1>10 DEF Deliver, Become
  <2>2. WorkSound' /\ MarksRecorded'
      BY <1>10, <2>1, WorkStays, MarksStay DEF Deliver, IInv, TypeOK
  <2> QED BY <1>10, <2>2, <1>b, <1>j, <1>r, <1>s, <1>h DEF Deliver
<1>11. ASSUME NEW i \in Instance, NEW k \in Slot, RecordAttempt(i, k)
       PROVE  Still
  <2> DEFINE w == work[i][k]
             row == RowOf(w.job, w.ok)
  <2>1. /\ w.at = "recording" /\ w.job \in Job /\ w.ok \in BOOLEAN
        /\ w = [at |-> "recording", job |-> w.job, ok |-> w.ok]
      BY <1>11, WorkTypes DEF RecordAttempt, IInv, TypeOK
  <2>2. \/ /\ attempts' = attempts \cup {row}
           /\ w.ok \/ row.retry = "none"
           /\ work' = [work EXCEPT ![i][k] = [at |-> "marking", job |-> w.job, ok |-> w.ok]]
        \/ /\ attempts' = attempts \cup {row} \/ UNCHANGED attempts
           /\ work' = [work EXCEPT ![i][k] = NoWork]
      BY <1>11, <2>1 DEF RecordAttempt, CreateDeliveryAttempt, Become
  <2>3. HistoryUnbroken'
      BY <2>1, <2>2, RecordKeepsHistory DEF IInv, InFlightJustified, WorkSound
  <2>4. WorkSound'
    <3>1. \A h \in Instance, m \in Slot :
              \/ work'[h][m] = work[h][m]
              \/ work'[h][m].at = "idle"
              \/ /\ h = i /\ m = k
                 /\ work'[h][m].job = work[h][m].job
        BY <2>2 DEF NoWork, IInv, TypeOK
    <3> QED BY <2>1, <3>1, WorkStays
  <2>5. MarksRecorded'
    <3>1. CASE work' = [work EXCEPT ![i][k] = NoWork]
        BY <3>1, MarksStay DEF NoWork, IInv, TypeOK
    <3>2. CASE /\ attempts' = attempts \cup {row}
               /\ w.ok \/ row.retry = "none"
               /\ work' = [work EXCEPT ![i][k] = [at |-> "marking", job |-> w.job, ok |-> w.ok]]
      <4>1. w.ok \/ Exhausted(w.job.number)
          BY <2>1, <3>2 DEF RowOf, NextRetryAt
      <4> SUFFICES ASSUME NEW h \in Instance, NEW m \in Slot, work'[h][m].at = "marking"
                   PROVE  /\ RowOf(work'[h][m].job, work'[h][m].ok) \in attempts'
                          /\ work'[h][m].ok \/ Exhausted(work'[h][m].job.number)
          BY DEF MarksRecorded
      <4>2. CASE h = i /\ m = k
          BY <3>2, <4>1, <4>2 DEF IInv, TypeOK
      <4>3. CASE ~(h = i /\ m = k)
          BY <3>2, <4>3 DEF IInv, TypeOK, MarksRecorded
      <4> QED BY <4>2, <4>3
    <3> QED BY <2>2, <3>1, <3>2
  <2>6. UNCHANGED <<events, pollerVars, jobs>>
      BY <1>11 DEF RecordAttempt, CreateDeliveryAttempt
  <2> QED BY <2>3, <2>4, <2>5, <2>6, <1>b, <1>j, <1>r, <1>s
<1>12. ASSUME NEW i \in Instance, NEW k \in Slot, MarkEvent(i, k)
       PROVE  Still
  <2> DEFINE w == work[i][k]
  <2>1. work' = [work EXCEPT ![i][k] = NoWork]
      BY <1>12 DEF MarkEvent, Become
  <2>2. WorkSound' /\ MarksRecorded'
      BY <2>1, WorkStays, MarksStay DEF NoWork, IInv, TypeOK
  <2>3. UNCHANGED <<attempts, pollerVars, jobs>>
      BY <1>12 DEF MarkEvent, UpdateEventStatus
  <2>4. StatusIsEarned'
      BY <1>12, MarkKeepsEarned DEF MarkEvent
  <2> QED BY <2>2, <2>3, <2>4, <1>b, <1>j, <1>r, <1>h
<1>f. ASSUME NEW i \in Instance, PollerFails(i)
      PROVE  Still
  <2>1. CASE PollFails(i)
      BY <2>1, <1>b, <1>j, <1>w, <1>r, <1>s, <1>h DEF PollFails
  <2>2. CASE SkipRetry(i)
    <3>1. RetriesDue'
        BY <2>2, RetriesStay DEF SkipRetry, IInv, TypeOK
    <3> QED BY <2>2, <3>1, <1>b, <1>j, <1>w, <1>s, <1>h DEF SkipRetry
  <2>3. CASE SkipEvent(i)
    <3>1. BatchKnown'
        BY <2>3, BatchStays DEF SkipEvent, IInv, TypeOK
    <3>2. StatusIsEarned'
        BY <2>3, StatusStays DEF SkipEvent, UpdateEventStatus, IInv, TypeOK, StoreTypeOK
    <3>3. UNCHANGED attempts
        BY <2>3 DEF SkipEvent, UpdateEventStatus
    <3> QED BY <2>3, <3>1, <3>2, <3>3, <1>j, <1>w, <1>r, <1>h DEF SkipEvent
  <2> QED BY <1>f, <2>1, <2>2, <2>3 DEF PollerFails
<1>d. ASSUME NEW i \in Instance, NEW k \in Slot, DropJob(i, k)
      PROVE  Still
  <2> DEFINE w == work[i][k]
  <2>1. w.at \in {"recording", "marking"} /\ w.job \in Job /\ w.ok \in BOOLEAN
      BY <1>d, WorkTypes DEF DropJob, IInv, TypeOK
  <2>2. work' = [work EXCEPT ![i][k] = NoWork] /\ UNCHANGED <<pollerVars, jobs>>
      BY <1>d DEF DropJob, Become
  <2>3. WorkSound' /\ MarksRecorded'
      BY <2>2, WorkStays, MarksStay DEF NoWork, IInv, TypeOK
  <2>4. attempts' = attempts \cup {RowOf(w.job, w.ok)} \/ UNCHANGED attempts
      BY <1>d DEF DropJob, CreateDeliveryAttempt, UpdateEventStatus
  <2>5. HistoryUnbroken'
      BY <2>1, <2>4, RecordKeepsHistory DEF IInv, InFlightJustified, WorkSound
  <2>6. StatusIsEarned'
      BY <1>d, <1>s, MarkKeepsEarned DEF DropJob, CreateDeliveryAttempt
  <2> QED BY <2>2, <2>3, <2>5, <2>6, <1>b, <1>j, <1>r
<1>13. ASSUME NEW i \in Instance, Crash(i)
       PROVE  Still
  <2>1. BatchKnown'
      BY <1>13, BatchStays DEF Crash, IInv, TypeOK
  <2>2. JobsSound'
      BY <1>13, JobsStay DEF Crash, IInv, TypeOK
  <2>3. WorkSound' /\ MarksRecorded'
      BY <1>13, WorkStays, MarksStay DEF Crash, NoWork, IInv, TypeOK
  <2>4. RetriesDue'
      BY <1>13, RetriesStay DEF Crash, IInv, TypeOK
  <2> QED BY <1>13, <2>1, <2>2, <2>3, <2>4, <1>s, <1>h DEF Crash
<1>14. ASSUME ClientRequest
       PROVE  Still
    BY <1>14, ClientRequestKeeps, StatusStays, <1>b, <1>j, <1>w, <1>r, <1>h
<1>15. ASSUME NEW a \in attempts, TimePasses(a)
       PROVE  Still
  <2> DEFINE due == [a EXCEPT !.retry = "due"]
  <2>1. attempts' = (attempts \ {a}) \cup {due} /\ a.retry = "waiting"
        /\ UNCHANGED <<events, pollerVars, jobs, work>>
      BY <1>15 DEF TimePasses, BackoffElapses
  <2>2. /\ due.event = a.event /\ due.endpoint = a.endpoint /\ due.number = a.number
        /\ due.status = a.status /\ due.retry = "due"
      BY DEF IInv, TypeOK, StoreTypeOK, AttemptRow
  <2>3. Consistent(due) /\ Justified(due, attempts)
      BY <2>1, <2>2 DEF IInv, HistoryUnbroken, Consistent, Justified, Retries, SamePair
  <2>4. HistoryUnbroken'
      BY <2>1, <2>2, <2>3, JustifiedStays, LogEventsStay DEF IInv, HistoryUnbroken
  <2> QED BY <2>1, <2>4, <1>b, <1>j, <1>w, <1>r, <1>s
<1>16. Still
    BY <1>2, <1>3, <1>4, <1>5, <1>6, <1>7, <1>8, <1>l, <1>9, <1>10, <1>11, <1>12, <1>f, <1>d,
       <1>13, <1>14, <1>15
       DEF Next, PollerStep, WorkerStep, PollerProceeds, WorkerProceeds
<1> QED BY <1>1, <1>16 DEF IInv, InFlightJustified

\* The inductive invariant: types, an unbroken log, justified jobs in flight,
\* marks that follow their attempt, and statuses an attempt has earned.
THEOREM InvariantHolds == Spec => []IInv
<1>1. Init => IInv
    BY IInvInit
<1>2. IInv /\ [Next]_vars => IInv'
    BY IInvStep
<1> QED BY <1>1, <1>2, PTL DEF Spec

\* The log of attempts explains itself, whichever instance, crash, replay or
\* failed statement led to its rows.
THEOREM LogUnbroken == Spec => []HistoryUnbroken
BY InvariantHolds, PTL DEF IInv

\* Nothing in a channel, at a worker or in a poller's hands has gone stale in a
\* way that would let it break the log.
THEOREM JobsJustified == Spec => []InFlightJustified
BY InvariantHolds, PTL DEF IInv

\* No worker marks an event before the attempt that decides it is recorded.
THEOREM MarksFollowRecords == Spec => []MarksRecorded
BY InvariantHolds, PTL DEF IInv

\* A delivered event was delivered and a dead one was given up, by an attempt
\* that is still in the log.
THEOREM StatusesEarned == Spec => []StatusIsEarned
BY InvariantHolds, PTL DEF IInv

\* No accepted event vanishes: the purge is refused whenever it would matter.
THEOREM NoEventVanishes == Spec => EventsAreKept
<1>1. IInv /\ [Next]_vars => [\A e \in Event : EventExists(e) => EventExists(e)']_vars
    BY StoreKept
<1> QED BY <1>1, InvariantHolds, PTL DEF Spec, EventsAreKept

(***************************************************************************)
(* The pipeline implements the ledger.                                     *)
(***************************************************************************)
LEMMA LedgerInit == Init => L!Init
BY DEF Init, StoreInit, L!Init

\* Every step of the pipeline is a step of the ledger or leaves it alone.
LEMMA LedgerStep ==
    ASSUME IInv, [Next]_vars
    PROVE  [L!Next]_<<events, attempts>>
<1> USE DEF storeVars
<1>1. ASSUME NEW e \in Event, NEW s \in {"processing", "delivered", "dead"},
             UpdateEventStatus(e, s), L!Earned(e, s), EventExists(e)
      PROVE  L!Next
    BY <1>1 DEF UpdateEventStatus, EventExists, L!Next, L!Progress
<1>2. ASSUME NEW i \in Instance, ClaimEvent(i) \/ SkipEvent(i)
      PROVE  L!Next \/ UNCHANGED storeVars
  <2>1. CASE UNCHANGED storeVars
      BY <2>1
  <2>2. CASE \E e \in batch[i] : UpdateEventStatus(e, "processing")
    <3>1. PICK e \in batch[i] : UpdateEventStatus(e, "processing")
        BY <2>2
    <3>2. e \in Event /\ EventExists(e)
        BY DEF IInv, TypeOK, InFlightJustified, BatchKnown
    <3> QED BY <1>1, <3>1, <3>2 DEF L!Earned
  <2> QED BY <1>2, <2>1, <2>2 DEF ClaimEvent, SkipEvent
<1>3. ASSUME NEW i \in Instance, NEW k \in Slot, RecordAttempt(i, k) \/ (work[i][k].at = "recording" /\ DropJob(i, k))
      PROVE  L!Next \/ UNCHANGED <<events, attempts>>
  <2> DEFINE w == work[i][k]
             row == RowOf(w.job, w.ok)
  <2>1. /\ w.job \in Job /\ w.ok \in BOOLEAN
        /\ w.job.number <= Budget /\ Justified(w.job, attempts)
      BY <1>3, WorkTypes DEF RecordAttempt, DropJob, IInv, TypeOK, InFlightJustified, WorkSound, Sound
  <2>2. CASE UNCHANGED <<events, attempts>>
      BY <2>2
  <2>3. CASE CreateDeliveryAttempt(row)
    <3>1. w.job \in BudgetedJob
        BY <2>1, MaxRetriesIsInt DEF Job, BudgetedJob, Budget
    <3>2. Justified(row, attempts)
        BY <2>1, RowOfContinues
    <3>3. L!Record(row)
        BY <2>3, <3>2 DEF CreateDeliveryAttempt, ReferencesExist, EventExists, L!Record,
               Justified, Retries, SamePair, L!Justified, L!Retries, L!SamePair
    <3>4. w.job \in L!BudgetedJob /\ row = L!RowOf(w.job, w.ok)
        BY <3>1 DEF BudgetedJob, Budget, L!BudgetedJob, L!Budget,
               RowOf, NextRetryAt, Exhausted, L!RowOf, L!NextRetryAt, L!Exhausted
    <3> QED BY <2>1, <3>3, <3>4 DEF L!Next
  <2> QED BY <1>3, <2>2, <2>3 DEF RecordAttempt, DropJob, storeVars
<1>4. ASSUME NEW i \in Instance, NEW k \in Slot,
             MarkEvent(i, k) \/ (work[i][k].at = "marking" /\ DropJob(i, k))
      PROVE  L!Next \/ UNCHANGED storeVars
  <2> DEFINE w == work[i][k]
             s == IF w.ok THEN "delivered" ELSE "dead"
  <2>1. /\ w.job \in Job /\ w.ok \in BOOLEAN /\ Sound(w.job)
        /\ RowOf(w.job, w.ok) \in attempts /\ (w.ok \/ Exhausted(w.job.number))
      BY <1>4, WorkTypes
         DEF MarkEvent, DropJob, IInv, TypeOK, MarksRecorded, InFlightJustified, WorkSound
  <2>2. w.job.event \in Event /\ EventExists(w.job.event)
      BY <2>1 DEF Job, Sound
  <2>3. L!Earned(w.job.event, s)
      BY <2>1 DEF RowOf, ShowsSuccess, ShowsExhaustion, Exhausted, L!Earned,
                  L!ShowsSuccess, L!ShowsExhaustion, L!Exhausted
  <2> QED BY <1>1, <1>4, <2>2, <2>3 DEF MarkEvent, DropJob
<1>5. ASSUME ClientRequest
      PROVE  L!Next \/ UNCHANGED <<events, attempts>>
  <2>1. CASE \E e \in Event : CreateEvent(e)
    <3>1. PICK e \in Event : CreateEvent(e)
        BY <2>1
    <3>2. e <= e
        BY IdsAreOrdered
    <3>3. L!Accept(e)
        BY <3>1, <3>2 DEF CreateEvent, L!Accept
    <3> QED BY <3>3 DEF L!Next
  <2>2. CASE \E e \in Event : ReplayEvent(e)
    <3>1. PICK e \in Event : EventExists(e) /\ UpdateEventStatus(e, "pending")
        BY <2>2 DEF ReplayEvent
    <3>2. L!Replay({e})
        BY <3>1 DEF UpdateEventStatus, EventExists, IInv, TypeOK, StoreTypeOK, L!Replay
    <3> QED BY <3>2 DEF L!Next
  <2>3. CASE BulkReplayDeadEvents
    <3>1. L!Replay({e \in Event : events[e] = "dead"})
        BY <2>3 DEF BulkReplayDeadEvents, L!Replay
    <3> QED BY <3>1 DEF L!Next
  <2>4. CASE PurgeDeadEvents
    <3>1. \A e \in Event : events[e] # "dead"
        BY <2>4 DEF PurgeDeadEvents, PurgeAllowed, IInv, StatusIsEarned, ShowsExhaustion
    <3> QED BY <2>4, <3>1 DEF PurgeDeadEvents, IInv, TypeOK, StoreTypeOK
  <2>5. CASE UNCHANGED <<events, attempts>>
      BY <2>5
  <2> QED BY <1>5, <2>1, <2>2, <2>3, <2>4, <2>5, ClientRequestCases
          DEF CreateEndpoint, UpdateEndpoint, DeleteEndpoint
<1>6. ASSUME NEW a \in attempts, TimePasses(a)
      PROVE  L!Next
    BY <1>6 DEF TimePasses, BackoffElapses, L!BackoffElapses, L!Next
<1>7. ASSUME NEW i \in Instance, NEW k \in Slot, DropJob(i, k)
      PROVE  L!Next \/ UNCHANGED <<events, attempts>>
    BY <1>3, <1>4, <1>7 DEF DropJob
<1> QED BY <1>2, <1>3, <1>4, <1>5, <1>6, <1>7
        DEF Next, PollerStep, WorkerStep, PollerProceeds, WorkerProceeds, PollerFails,
            PollPendingEvents, FindEndpoints, SendFirstAttempt, PollRetryableAttempts, LookUpRetry,
            SendRetry, PollFails, SkipRetry, ReceiveJob, Deliver, Crash, vars

\* The pipeline, with all its instances, queues, faults and requests, changes
\* the tables of events and attempts only as the ledger allows.
THEOREM LedgerImplemented == Spec => ImplementsLedger
<1>1. Init => L!Init
    BY LedgerInit
<1>2. IInv /\ [Next]_vars => [L!Next]_<<events, attempts>>
    BY LedgerStep
<1> QED BY <1>1, <1>2, InvariantHolds, PTL DEF Spec, ImplementsLedger, L!Spec

(***************************************************************************)
(* Giving up.                                                              *)
(***************************************************************************)
\* Whatever comes before a recorded attempt of a delivery is recorded too, and
\* has failed.
Gapless ==
    \A a \in attempts : \A n \in 1..(a.number - 1) :
        \E b \in attempts : SamePair(b, a) /\ b.number = n /\ b.status = "failed"

\* The ledger leaves no gaps: a retry is one more than an attempt that has none.
LEMMA GaplessStep ==
    ASSUME IInv, Gapless, [Next]_vars
    PROVE  Gapless'
<1> USE DEF Gapless, SamePair
<1>t. \A a \in attempts : a.number \in Nat
    BY DEF IInv, TypeOK, StoreTypeOK, AttemptRow
<1>1. ASSUME NEW j \in BudgetedJob, NEW ok \in BOOLEAN, L!Record(L!RowOf(j, ok))
      PROVE  Gapless'
  <2> DEFINE row == L!RowOf(j, ok)
  <2>1. row.event = j.event /\ row.endpoint = j.endpoint /\ row.number = j.number
      BY DEF L!RowOf
  <2>2. attempts' = attempts \cup {row}
        /\ (row.number = 1 \/ \E b \in attempts : /\ SamePair(row, b) /\ b.status = "failed"
                                                  /\ row.number = b.number + 1)
      BY <1>1 DEF L!Record, L!Justified, L!Retries, L!SamePair
  <2> HIDE DEF row
  <2>3. ASSUME NEW n \in 1..(row.number - 1)
        PROVE  \E c \in attempts : SamePair(c, row) /\ c.number = n /\ c.status = "failed"
    <3>1. PICK b \in attempts : /\ SamePair(row, b) /\ b.status = "failed"
                                /\ row.number = b.number + 1
        BY <2>2, <2>3
    <3>2. CASE n = b.number
        BY <3>1, <3>2
    <3>3. CASE n # b.number
      <4>1. n \in 1..(b.number - 1)
          BY <1>t, <2>3, <3>1, <3>3
      <4>2. PICK c \in attempts : SamePair(c, b) /\ c.number = n /\ c.status = "failed"
          BY <4>1
      <4> QED BY <3>1, <4>2
    <3> QED BY <3>2, <3>3
  <2> QED BY <2>2, <2>3
<1>2. ASSUME NEW a \in attempts, L!BackoffElapses(a)
      PROVE  Gapless'
  <2> DEFINE due == [a EXCEPT !.retry = "due"]
  <2>1. attempts' = (attempts \ {a}) \cup {due}
      BY <1>2 DEF L!BackoffElapses
  <2>2. /\ due.event = a.event /\ due.endpoint = a.endpoint /\ due.number = a.number
        /\ due.status = a.status
      BY DEF IInv, TypeOK, StoreTypeOK, AttemptRow
  <2> HIDE DEF due
  <2>3. \A b \in attempts : \E c \in attempts' :
            SamePair(c, b) /\ c.number = b.number /\ c.status = b.status
      BY <2>1, <2>2
  <2>4. \A c \in attempts' : \E b \in attempts : SamePair(c, b) /\ c.number = b.number
      BY <2>1, <2>2
  <2> QED BY <2>3, <2>4
<1>3. CASE UNCHANGED attempts
    BY <1>3
<1> QED BY <1>1, <1>2, <1>3, LedgerStep
        DEF L!Next, L!Accept, L!Replay, L!Progress, L!BudgetedJob, BudgetedJob, L!Budget, Budget

\* An event is given up only after an endpoint has failed it as often as
\* MAX_RETRIES allows, and the log shows each time.
THEOREM DeadWasTriedThrough == Spec => []DeadAfterAllAttempts
<1>1. Init => Gapless
    BY DEF Init, StoreInit, Gapless
<1>2. IInv /\ Gapless /\ [Next]_vars => Gapless'
    BY GaplessStep
<1>3. IInv /\ Gapless => DeadAfterAllAttempts
  <2> SUFFICES ASSUME IInv, Gapless, NEW e \in Event, events[e] = "dead"
               PROVE  \E p \in Endpoint : \A n \in 1..Budget : \E a \in attempts :
                          /\ a.event = e /\ a.endpoint = p
                          /\ a.number = n /\ a.status = "failed"
      BY DEF DeadAfterAllAttempts
  <2>1. PICK a \in attempts : ShowsExhaustion(a, e)
      BY DEF IInv, StatusIsEarned
  <2>2. a.endpoint \in Endpoint /\ a.number \in Nat \ {0} /\ a.number <= Budget
      BY DEF IInv, TypeOK, StoreTypeOK, AttemptRow, HistoryUnbroken, Consistent
  <2>3. a.number = Budget
      BY <2>1, <2>2, MaxRetriesIsInt DEF ShowsExhaustion, Exhausted, Budget
  <2>4. \A n \in 1..Budget : n = a.number \/ n \in 1..(a.number - 1)
      BY <2>2, <2>3
  <2> QED BY <2>1, <2>2, <2>4 DEF Gapless, SamePair, ShowsExhaustion
<1> QED BY <1>1, <1>2, <1>3, InvariantHolds, PTL DEF Spec

(***************************************************************************)
(* Endpoints that are deleted.                                             *)
(***************************************************************************)
\* The foreign key of attempts on endpoints; HistoryUnbroken has the one on events.
LogEndpointsExist == \A a \in attempts : EndpointExists(a.endpoint)

\* No row of an endpoint comes back, a pair in the log stays in the log, and
\* no endpoint that the log speaks of goes away.
LEMMA EndpointsKept ==
    ASSUME IInv, LogEndpointsExist, [Next]_vars
    PROVE  /\ LogEndpointsExist'
           /\ \A a \in attempts : \E b \in attempts' : SamePair(a, b)
           /\ \A p \in Endpoint :
                 /\ endpoints[p].state # "none" => endpoints'[p].state # "none"
                 /\ endpoints[p].state = "deleted" => endpoints'[p].state = "deleted"
<1> USE DEF EndpointExists, LogEndpointsExist, SamePair
<1>t. /\ endpoints \in [Endpoint -> EndpointRow] /\ attempts \in SUBSET AttemptRow
      /\ \A a \in attempts : a.endpoint \in Endpoint
    BY DEF IInv, TypeOK, StoreTypeOK, AttemptRow
<1>1. CASE UNCHANGED <<endpoints, attempts>>
    BY <1>1
<1>2. ASSUME NEW i \in Instance, NEW k \in Slot, RecordAttempt(i, k) \/ DropJob(i, k)
      PROVE  \/ UNCHANGED <<endpoints, attempts>>
             \/ /\ UNCHANGED endpoints
                /\ \E a : attempts' = attempts \cup {a} /\ EndpointExists(a.endpoint)
    BY <1>2 DEF RecordAttempt, DropJob, CreateDeliveryAttempt, ReferencesExist, UpdateEventStatus,
                storeVars
<1>3. ASSUME NEW a \in attempts, TimePasses(a)
      PROVE  /\ UNCHANGED endpoints
             /\ attempts' = (attempts \ {a}) \cup {[a EXCEPT !.retry = "due"]}
             /\ [a EXCEPT !.retry = "due"].endpoint = a.endpoint
             /\ [a EXCEPT !.retry = "due"].event = a.event
    BY <1>3, <1>t DEF TimePasses, BackoffElapses, AttemptRow
<1>4. CASE ClientRequest
  <2>1. CASE UNCHANGED <<endpoints, attempts>>
      BY <2>1
  <2>2. ASSUME NEW p \in Endpoint, NEW topics \in SUBSET Topic, CreateEndpoint(p, topics)
        PROVE  UNCHANGED attempts /\ endpoints[p].state = "none"
               /\ endpoints' = [endpoints EXCEPT ![p] = [state |-> "enabled", topics |-> topics]]
    <3>1. p <= p
        BY IdsAreOrdered
    <3> QED BY <2>2, <3>1 DEF CreateEndpoint
  <2>3. ASSUME NEW p \in Endpoint, NEW topics \in SUBSET Topic, NEW s \in {"enabled", "disabled"},
               UpdateEndpoint(p, s, topics)
        PROVE  /\ LogEndpointsExist'
               /\ UNCHANGED attempts /\ EndpointExists(p)
               /\ endpoints' = [endpoints EXCEPT ![p] = [state |-> s, topics |-> topics]]
      BY <2>3, <1>t DEF UpdateEndpoint
  <2>4. ASSUME NEW p \in Endpoint, DeleteEndpoint(p)
        PROVE  /\ LogEndpointsExist'
               /\ UNCHANGED attempts /\ EndpointExists(p)
               /\ endpoints' = [endpoints EXCEPT ![p] = [state |-> "deleted", topics |-> {}]]
      BY <2>4, <1>t DEF DeleteEndpoint
  <2> QED BY <1>4, <1>t, <2>1, <2>2, <2>3, <2>4, ClientRequestCases
          DEF CreateEvent, ReplayEvent, UpdateEventStatus, BulkReplayDeadEvents,
              PurgeDeadEvents
<1> QED BY <1>1, <1>2, <1>3, <1>4
        DEF Next, PollerStep, WorkerStep, PollerProceeds, WorkerProceeds, PollerFails,
            PollPendingEvents, FindEndpoints, ClaimEvent, SendFirstAttempt, PollRetryableAttempts,
            LookUpRetry, SendRetry, PollFails, SkipEvent, SkipRetry, ReceiveJob, Deliver, MarkEvent,
            UpdateEventStatus, Crash, vars, storeVars

\* A deleted endpoint leaves nothing behind but first attempts that cannot be
\* recorded: its deletion waits for a log without it, and everything else that
\* is under way continues the log.
THEOREM DeletedEndpointsAreDone == Spec => []DeletedIsDone
<1>1. Init => LogEndpointsExist
    BY DEF Init, StoreInit, LogEndpointsExist
<1>2. IInv /\ LogEndpointsExist /\ [Next]_vars => LogEndpointsExist'
    BY EndpointsKept
<1>3. IInv /\ LogEndpointsExist => DeletedIsDone
  <2> SUFFICES ASSUME IInv, LogEndpointsExist, NEW p \in Endpoint, endpoints[p].state = "deleted"
               PROVE  /\ \A a \in attempts : a.endpoint # p
                      /\ \A i \in Instance : \A a \in retries[i] : a.endpoint # p
                      /\ \A i \in Instance : \A n \in 1..Len(jobs[i]) :
                             jobs[i][n].endpoint = p => jobs[i][n].number = 1
                      /\ \A i \in Instance, k \in Slot :
                             work[i][k].at # "idle" /\ work[i][k].job.endpoint = p =>
                                 work[i][k].at # "marking" /\ work[i][k].job.number = 1
      BY DEF DeletedIsDone
  <2>1. \A a \in attempts : a.endpoint # p
      BY DEF LogEndpointsExist, EndpointExists
  <2>2. \A i \in Instance : \A a \in retries[i] : a.endpoint # p
      BY <2>1 DEF IInv, InFlightJustified, RetriesDue
  <2>3. \A j : Justified(j, attempts) /\ j.endpoint = p => j.number = 1
      BY <2>1 DEF Justified, Retries, SamePair
  <2>4. \A i \in Instance : \A n \in 1..Len(jobs[i]) :
            jobs[i][n].endpoint = p => jobs[i][n].number = 1
      BY <2>3 DEF IInv, InFlightJustified, JobsSound, Sound
  <2>5. ASSUME NEW i \in Instance, NEW k \in Slot,
               work[i][k].at # "idle", work[i][k].job.endpoint = p
        PROVE  work[i][k].at # "marking" /\ work[i][k].job.number = 1
    <3>1. work[i][k].job.number = 1
        BY <2>3, <2>5 DEF IInv, InFlightJustified, WorkSound, Sound
    <3>2. CASE work[i][k].at = "marking"
      <4>1. RowOf(work[i][k].job, work[i][k].ok) \in attempts
          BY <3>2 DEF IInv, MarksRecorded
      <4>2. RowOf(work[i][k].job, work[i][k].ok).endpoint = p
          BY <2>5 DEF RowOf
      <4> QED BY <2>1, <4>1, <4>2
    <3> QED BY <3>1, <3>2
  <2> QED BY <2>1, <2>2, <2>4, <2>5
<1> QED BY <1>1, <1>2, <1>3, InvariantHolds, PTL DEF Spec
=============================================================================
