--------------------------- MODULE DispatchProofs ---------------------------
(***************************************************************************)
(* Proofs of the two guarantees that hold in part of the scenarios only:   *)
(* one instance dispatches a first attempt once as long as nobody replays, *)
(* and no event is stranded as long as nothing fails.                      *)
(***************************************************************************)
EXTENDS PipelineProofs

(***************************************************************************)
(* A first attempt is dispatched once.                                     *)
(***************************************************************************)
OneInstance == \A h, i \in Instance : h = i
NobodyReplays == Scenario \cap {"replay", "bulkReplay"} = {}

First(e, p) == [event |-> e, endpoint |-> p, number |-> 1]

IsQueued(j) == \E i \in Instance : \E n \in 1..Len(jobs[i]) : jobs[i][n] = j
HandledAt(i, k, j) == work[i][k].at \in {"delivering", "recording"} /\ work[i][k].job = j
IsHandled(j) == \E i \in Instance, k \in Slot : HandledAt(i, k, j)
Dispatched(j) == IsQueued(j) \/ IsHandled(j) \/ IsRecorded(j)

\* AtMostOnce, place by place.
QueuedOnce(j) ==
    \A h, i \in Instance : \A m \in 1..Len(jobs[h]), n \in 1..Len(jobs[i]) :
        jobs[h][m] = j /\ jobs[i][n] = j => h = i /\ m = n
HandledOnce(j) ==
    \A h, i \in Instance : \A k, l \in Slot :
        HandledAt(h, k, j) /\ HandledAt(i, l, j) => h = i /\ k = l
Once(j) == /\ QueuedOnce(j) /\ HandledOnce(j)
           /\ ~(IsQueued(j) /\ IsHandled(j))
           /\ IsRecorded(j) => ~IsQueued(j) /\ ~IsHandled(j)

\* The event has left the queue of pending events, for good without replays.
Begun(e) == events[e] \notin {"none", "pending"}

JobsBegun == \A i \in Instance : \A n \in 1..Len(jobs[i]) : Begun(jobs[i][n].event)
WorkBegun == \A i \in Instance, k \in Slot :
                 work[i][k].at # "idle" => Begun(work[i][k].job.event)
LogBegun == \A a \in attempts : Begun(a.event)

SendingFor(i, e) == poller[i] = "sending" /\ AtHand(i, e)

BatchDone == \A i \in Instance : poller[i] \in {"retrying", "resending"} => batch[i] = {}
BatchPending == \A i \in Instance : \A e \in batch[i] :
                    events[e] = "pending" \/ SendingFor(i, e)
TargetsFresh == \A i \in Instance : \A e \in batch[i] :
                    SendingFor(i, e) =>
                        Begun(e) /\ \A p \in targets[i] : ~Dispatched(First(e, p))
FirstOnce == \A e \in Event, p \in Endpoint : Once(First(e, p))

\* What is in flight or in the log belongs to events that were claimed; what the
\* poller has read and not claimed is pending, so nothing of it is dispatched.
DInv == /\ IInv
        /\ JobsBegun /\ WorkBegun /\ LogBegun
        /\ BatchDone /\ BatchPending /\ TargetsFresh
        /\ FirstOnce

LEMMA OnceIsAtMostOnce ==
    ASSUME TypeOK, NEW j, Once(j)
    PROVE  AtMostOnce(j)
<1>1. \A q \in Queued(j) : /\ q = <<q[1], q[2]>> /\ q[1] \in Instance
                           /\ q[2] \in 1..Len(jobs[q[1]]) /\ jobs[q[1]][q[2]] = j
  <2>1. \A i \in Instance : Len(jobs[i]) \in Nat
      BY DEF TypeOK
  <2> QED BY <2>1, ConcurrencyIsNat DEF Queued, Capacity
<1>2. \A w \in Handled(j) : /\ w = <<w[1], w[2]>> /\ w[1] \in Instance /\ w[2] \in Slot
                            /\ HandledAt(w[1], w[2], j)
    BY DEF Handled, HandledAt
<1>3. \A p, q \in Queued(j) : p = q
    BY <1>1 DEF Once, QueuedOnce
<1>4. \A v, w \in Handled(j) : v = w
    BY <1>2 DEF Once, HandledOnce
<1>5. Queued(j) # {} => IsQueued(j)
    BY <1>1 DEF IsQueued
<1>6. Handled(j) # {} => IsHandled(j)
    BY <1>2 DEF IsHandled
<1> QED BY <1>3, <1>4, <1>5, <1>6 DEF AtMostOnce, Once

\* How the status of an event can change.
LEMMA StatusChanges ==
    ASSUME IInv, WorkBegun, NobodyReplays, [Next]_vars, NEW e \in Event
    PROVE  \/ events'[e] = events[e]
           \/ events[e] = "none" /\ events'[e] = "pending"
           \/ Begun(e) /\ Begun(e)'
           \/ \E i \in Instance : /\ poller[i] = "claiming" /\ AtHand(i, e)
                                  /\ ClaimEvent(i) \/ SkipEvent(i)
                                  /\ Begun(e)'
<1> DEFINE Goal == \/ events'[e] = events[e]
                   \/ events[e] = "none" /\ events'[e] = "pending"
                   \/ Begun(e) /\ Begun(e)'
                   \/ \E i \in Instance : /\ poller[i] = "claiming" /\ AtHand(i, e)
                                          /\ ClaimEvent(i) \/ SkipEvent(i)
                                          /\ Begun(e)'
<1> USE DEF storeVars
<1>1. CASE UNCHANGED events
    BY <1>1
<1>2. ASSUME NEW i \in Instance, ClaimEvent(i) \/ SkipEvent(i)
      PROVE  Goal
  <2>1. CASE UNCHANGED events
      BY <2>1
  <2>2. CASE /\ poller[i] = "claiming"
             /\ \E f \in batch[i] : AtHand(i, f) /\ UpdateEventStatus(f, "processing")
    <3>1. PICK f \in batch[i] : AtHand(i, f) /\ UpdateEventStatus(f, "processing")
        BY <2>2
    <3>2. f \in Event /\ EventExists(f)
        BY DEF IInv, TypeOK, InFlightJustified, BatchKnown
    <3>3. events' = [events EXCEPT ![f] = "processing"]
        BY <3>1, <3>2 DEF UpdateEventStatus
    <3>4. CASE e = f
        BY <1>2, <2>2, <3>1, <3>2, <3>3, <3>4 DEF Begun, IInv, TypeOK, StoreTypeOK
    <3>5. CASE e # f
        BY <3>3, <3>5 DEF IInv, TypeOK, StoreTypeOK
    <3> QED BY <3>4, <3>5
  <2> QED BY <1>2, <2>1, <2>2 DEF ClaimEvent, SkipEvent
<1>3. ASSUME NEW i \in Instance, NEW k \in Slot, MarkEvent(i, k) \/ DropJob(i, k)
      PROVE  Goal
  <2> DEFINE w == work[i][k]
             s == IF w.ok THEN "delivered" ELSE "dead"
  <2>1. UNCHANGED events \/ UpdateEventStatus(w.job.event, s)
      BY <1>3 DEF MarkEvent, DropJob, CreateDeliveryAttempt
  <2>2. w.at # "idle"
      BY <1>3 DEF MarkEvent, DropJob
  <2>3. w.job.event \in Event /\ Begun(w.job.event)
      BY <2>2, WorkTypes DEF WorkBegun, IInv, TypeOK, Job
  <2> QED BY <2>1, <2>3 DEF UpdateEventStatus, Begun, IInv, TypeOK, StoreTypeOK
<1>4. ASSUME ClientRequest
      PROVE  Goal
  <2>1. CASE \E f \in Event : CreateEvent(f)
    <3>1. PICK f \in Event : CreateEvent(f)
        BY <2>1
    <3>2. events[f] = "none" /\ events' = [events EXCEPT ![f] = "pending"]
        BY <3>1, IdsAreOrdered DEF CreateEvent
    <3> QED BY <3>2 DEF IInv, TypeOK, StoreTypeOK
  <2>2. CASE PurgeDeadEvents
      BY <2>2 DEF PurgeDeadEvents, Begun
  <2> QED BY <1>4, <1>1, <2>1, <2>2
          DEF NobodyReplays, ClientRequest, HandleCreateEvent, HandleCreateEndpoint,
              HandleReplayEvent, HandleBulkReplay, HandlePurge, HandleUpdateEndpoint,
              HandleDeleteEndpoint, CreateEndpoint, UpdateEndpoint, DeleteEndpoint
<1> QED BY <1>1, <1>2, <1>3, <1>4
        DEF Next, PollerStep, WorkerStep, PollerProceeds, WorkerProceeds, PollerFails,
            PollPendingEvents, FindEndpoints, SendFirstAttempt, PollRetryableAttempts, LookUpRetry,
            SendRetry, PollFails, SkipRetry, ReceiveJob, Deliver, RecordAttempt,
            CreateDeliveryAttempt, Crash, TimePasses, BackoffElapses, vars

LEMMA BegunStays ==
    ASSUME IInv, WorkBegun, NobodyReplays, [Next]_vars, NEW e \in Event, Begun(e)
    PROVE  Begun(e)'
BY StatusChanges DEF Begun

\* Jobs and rows that are passed on belong to events that stay begun.
LEMMA JobsBegunStays ==
    ASSUME IInv, WorkBegun, NobodyReplays, [Next]_vars, JobsBegun,
           \A i \in Instance : \A n \in 1..Len(jobs'[i]) :
               \/ \E m \in 1..Len(jobs[i]) : jobs'[i][n] = jobs[i][m]
               \/ Begun(jobs'[i][n].event)
    PROVE  JobsBegun'
<1> SUFFICES ASSUME NEW i \in Instance, NEW n \in 1..Len(jobs'[i])
             PROVE  events'[jobs'[i][n].event] \notin {"none", "pending"}
    BY DEF JobsBegun, Begun
<1>1. jobs'[i][n].event \in Event
  <2>1. jobs'[i][n] \in Job
      BY TypeStep DEF IInv, TypeOK
  <2> QED BY <2>1 DEF Job
<1>2. Begun(jobs'[i][n].event)
    BY DEF JobsBegun
<1> QED BY <1>1, <1>2, StatusChanges DEF Begun

LEMMA WorkBegunStays ==
    ASSUME IInv, WorkBegun, NobodyReplays, [Next]_vars,
           \A i \in Instance, k \in Slot :
               \/ work'[i][k].at = "idle"
               \/ work[i][k].at # "idle" /\ work'[i][k].job = work[i][k].job
               \/ Begun(work'[i][k].job.event)
    PROVE  WorkBegun'
<1> SUFFICES ASSUME NEW i \in Instance, NEW k \in Slot, work'[i][k].at # "idle"
             PROVE  events'[work'[i][k].job.event] \notin {"none", "pending"}
    BY DEF WorkBegun, Begun
<1>1. work'[i][k].job.event \in Event
  <2>1. work'[i][k] \in Work
      BY TypeStep DEF IInv, TypeOK
  <2> QED BY <2>1, WorkTypes DEF Job
<1>2. Begun(work'[i][k].job.event)
    BY DEF WorkBegun
<1> QED BY <1>1, <1>2, StatusChanges DEF Begun

LEMMA LogBegunStays ==
    ASSUME IInv, WorkBegun, NobodyReplays, [Next]_vars, LogBegun,
           \A a \in attempts' : (\E b \in attempts : a.event = b.event) \/ Begun(a.event)
    PROVE  LogBegun'
<1> SUFFICES ASSUME NEW a \in attempts'
             PROVE  events'[a.event] \notin {"none", "pending"}
    BY DEF LogBegun, Begun
<1>1. a.event \in Event
    BY TypeStep DEF IInv, TypeOK, StoreTypeOK, AttemptRow
<1>2. Begun(a.event)
    BY DEF LogBegun
<1> QED BY <1>1, <1>2, StatusChanges DEF Begun

\* What has been dispatched belongs to events that were claimed.
LEMMA DispatchedBegun ==
    ASSUME JobsBegun, WorkBegun, LogBegun, NEW e, NEW p, Dispatched(First(e, p))
    PROVE  Begun(e)
<1>1. First(e, p).event = e
    BY DEF First
<1> QED BY <1>1 DEF Dispatched, IsQueued, IsHandled, HandledAt, IsRecorded, SamePair,
                    JobsBegun, WorkBegun, LogBegun

(***************************************************************************)
(* Where a job is, from step to step.                                      *)
(***************************************************************************)
\* j is in no place that it was not in before.
NoCopy(j) == /\ Once(j) => Once(j)'
             /\ Dispatched(j)' => Dispatched(j)

LEMMA NothingMoves ==
    ASSUME UNCHANGED <<jobs, work, attempts>>, NEW j
    PROVE  NoCopy(j)
BY DEF NoCopy, Once, QueuedOnce, HandledOnce, IsQueued, IsHandled, HandledAt, IsRecorded, Dispatched

LEMMA ReceiveMoves ==
    ASSUME TypeOK, NEW i \in Instance, NEW k \in Slot, ReceiveJob(i, k), NEW j
    PROVE  NoCopy(j)
<1>1. /\ jobs[i] \in Seq(Job) /\ jobs[i] # <<>>
      /\ jobs' = [jobs EXCEPT ![i] = Tail(@)]
      /\ work' = [work EXCEPT ![i][k] = [at |-> "delivering", job |-> Head(jobs[i])]]
      /\ work[i][k].at = "idle"
      /\ attempts' = attempts
    BY DEF ReceiveJob, Become, TypeOK, storeVars
<1>2. Head(jobs[i]) = jobs[i][1] /\ 1 \in 1..Len(jobs[i])
    BY <1>1
<1>3. \A n \in 1..Len(Tail(jobs[i])) : /\ n + 1 \in 1..Len(jobs[i])
                                       /\ Tail(jobs[i])[n] = jobs[i][n + 1]
    BY <1>1
<1>4. \A h \in Instance : \A n \in 1..Len(jobs'[h]) :
          LET m == IF h = i THEN n + 1 ELSE n
          IN  m \in 1..Len(jobs[h]) /\ jobs'[h][n] = jobs[h][m]
    BY <1>1, <1>3 DEF TypeOK
<1>5. \A h \in Instance, l \in Slot :
          HandledAt(h, l, j)' <=> \/ HandledAt(h, l, j)
                                  \/ h = i /\ l = k /\ j = jobs[i][1]
    BY <1>1, <1>2 DEF HandledAt, TypeOK
<1>6. IsQueued(j)' => IsQueued(j)
    BY <1>4 DEF IsQueued
<1>7. IsHandled(j)' => IsHandled(j) \/ j = jobs[i][1]
    BY <1>5 DEF IsHandled
<1>8. j = jobs[i][1] => IsQueued(j)
    BY <1>2 DEF IsQueued
<1>9. IsRecorded(j)' <=> IsRecorded(j)
    BY <1>1 DEF IsRecorded
<1>10. Dispatched(j)' => Dispatched(j)
    BY <1>6, <1>7, <1>8, <1>9 DEF Dispatched
<1>11. ASSUME Once(j)
       PROVE  Once(j)'
  <2>1. QueuedOnce(j)'
    <3> SUFFICES ASSUME NEW g \in Instance, NEW h \in Instance,
                        NEW m \in 1..Len(jobs'[g]), NEW n \in 1..Len(jobs'[h]),
                        jobs'[g][m] = j, jobs'[h][n] = j
                 PROVE  g = h /\ m = n
        BY DEF QueuedOnce
    <3> DEFINE from(f, l) == IF f = i THEN l + 1 ELSE l
    <3>1. /\ from(g, m) \in 1..Len(jobs[g]) /\ jobs[g][from(g, m)] = j
          /\ from(h, n) \in 1..Len(jobs[h]) /\ jobs[h][from(h, n)] = j
        BY <1>4
    <3>2. g = h /\ from(g, m) = from(h, n)
        BY <3>1, <1>11 DEF Once, QueuedOnce
    <3> QED BY <3>2
  <2>2. HandledOnce(j)'
      BY <1>5, <1>8, <1>11 DEF Once, HandledOnce, IsHandled
  <2>3. ASSUME j = jobs[i][1], IsQueued(j)'
        PROVE  FALSE
    <3>0. PICK h \in Instance : \E n \in 1..Len(jobs'[h]) : jobs'[h][n] = j
        BY <2>3 DEF IsQueued
    <3>1. PICK n \in 1..Len(jobs'[h]) : jobs'[h][n] = j
        BY <3>0
    <3>2. CASE h = i
      <4>1. n + 1 \in 1..Len(jobs[i]) /\ jobs[i][n + 1] = j
          BY <1>4, <3>1, <3>2
      <4> QED BY <1>2, <1>11, <2>3, <4>1 DEF Once, QueuedOnce
    <3>3. CASE h # i
      <4>1. n \in 1..Len(jobs[h]) /\ jobs[h][n] = j
          BY <1>4, <3>1, <3>3
      <4> QED BY <1>2, <1>11, <2>3, <3>3, <4>1 DEF Once, QueuedOnce
    <3> QED BY <3>2, <3>3
  <2> QED BY <1>6, <1>7, <1>8, <1>9, <1>11, <2>1, <2>2, <2>3 DEF Once
<1> QED BY <1>10, <1>11 DEF NoCopy

\* A worker goes on with its job, or is done with it, and may leave its row.
LEMMA WorkerMoves ==
    ASSUME TypeOK, NEW i \in Instance, NEW k \in Slot, UNCHANGED jobs,
           NEW w, work' = [work EXCEPT ![i][k] = w],
           w.at = "recording" => HandledAt(i, k, w.job),
           w.at # "delivering",
           \/ UNCHANGED attempts
           \/ /\ work[i][k].at = "recording" /\ w.at # "recording"
              /\ \E ok \in BOOLEAN : attempts' = attempts \cup {RowOf(work[i][k].job, ok)},
           NEW j \in Job
    PROVE  NoCopy(j)
<1>1. \A h \in Instance, l \in Slot : HandledAt(h, l, j)' => HandledAt(h, l, j)
    BY DEF HandledAt, TypeOK
<1>2. IsQueued(j)' <=> IsQueued(j)
    BY DEF IsQueued
<1>3. QueuedOnce(j)' <=> QueuedOnce(j)
    BY DEF QueuedOnce
<1>4. IsHandled(j)' => IsHandled(j)
    BY <1>1 DEF IsHandled
<1>5. ASSUME IsRecorded(j)', ~IsRecorded(j)
      PROVE  HandledAt(i, k, j) /\ w.at # "recording"
  <2>1. PICK ok \in BOOLEAN : /\ attempts' = attempts \cup {RowOf(work[i][k].job, ok)}
                              /\ work[i][k].at = "recording" /\ w.at # "recording"
      BY <1>5 DEF IsRecorded
  <2>2. LET a == RowOf(work[i][k].job, ok) IN SamePair(a, j) /\ a.number = j.number
      BY <1>5, <2>1 DEF IsRecorded
  <2>3. work[i][k].job \in Job
      BY <2>1, WorkTypes DEF TypeOK
  <2>4. work[i][k].job = j
      BY <2>2, <2>3 DEF RowOf, SamePair, Job
  <2> QED BY <2>1, <2>4 DEF HandledAt
<1>6. ASSUME Once(j), HandledAt(i, k, j), w.at # "recording"
      PROVE  ~IsHandled(j)'
  <2>1. ~HandledAt(i, k, j)'
      BY <1>6 DEF HandledAt, TypeOK
  <2> QED BY <1>1, <1>6, <2>1 DEF Once, HandledOnce, IsHandled
<1>7. HandledAt(i, k, j) => IsHandled(j)
    BY DEF IsHandled
<1>8. Dispatched(j)' => Dispatched(j)
    BY <1>2, <1>4, <1>5, <1>7 DEF Dispatched
<1>9. ASSUME Once(j)
      PROVE  Once(j)'
  <2>1. HandledOnce(j)'
      BY <1>1, <1>9 DEF Once, HandledOnce
  <2> QED BY <1>2, <1>3, <1>4, <1>5, <1>6, <1>7, <1>9, <2>1 DEF Once
<1> QED BY <1>8, <1>9 DEF NoCopy

\* A job that is sent is in the channel once, if it was nowhere before.
LEMMA SendMoves ==
    ASSUME TypeOK, NEW i \in Instance, NEW x \in Job, Send(i, x),
           UNCHANGED <<work, attempts>>, NEW j \in Job
    PROVE  /\ j # x => NoCopy(j)
           /\ ~Dispatched(x) /\ Once(x) => Once(x)'
<1>1. /\ jobs[i] \in Seq(Job) /\ Len(jobs[i]) \in Nat
      /\ jobs' = [jobs EXCEPT ![i] = Append(jobs[i], x)]
    BY DEF Send, TypeOK
<1>2. \A n \in 1..Len(Append(jobs[i], x)) :
          IF n = Len(jobs[i]) + 1 THEN Append(jobs[i], x)[n] = x
                                  ELSE n \in 1..Len(jobs[i]) /\ Append(jobs[i], x)[n] = jobs[i][n]
    BY <1>1
<1>3. \A h \in Instance : \A n \in 1..Len(jobs'[h]) :
          \/ h = i /\ n = Len(jobs[i]) + 1 /\ jobs'[h][n] = x
          \/ n \in 1..Len(jobs[h]) /\ jobs'[h][n] = jobs[h][n]
    BY <1>1, <1>2 DEF TypeOK
<1>4. /\ IsHandled(j)' <=> IsHandled(j)
      /\ HandledOnce(j)' <=> HandledOnce(j)
      /\ IsRecorded(j)' <=> IsRecorded(j)
    BY DEF IsHandled, HandledOnce, HandledAt, IsRecorded
<1>5. ASSUME j # x
      PROVE  NoCopy(j)
  <2>1. \A h \in Instance : \A n \in 1..Len(jobs'[h]) :
            jobs'[h][n] = j => n \in 1..Len(jobs[h]) /\ jobs[h][n] = j
      BY <1>3, <1>5
  <2>2. IsQueued(j)' => IsQueued(j)
      BY <2>1 DEF IsQueued
  <2>3. QueuedOnce(j) => QueuedOnce(j)'
      BY <2>1 DEF QueuedOnce
  <2> QED BY <1>4, <2>2, <2>3 DEF NoCopy, Once, Dispatched
<1>6. ASSUME ~Dispatched(x), Once(x)
      PROVE  Once(x)'
  <2>1. \A h \in Instance : \A n \in 1..Len(jobs'[h]) :
            jobs'[h][n] = x => h = i /\ n = Len(jobs[i]) + 1
      BY <1>3, <1>6 DEF Dispatched, IsQueued
  <2>2. QueuedOnce(x)'
      BY <2>1 DEF QueuedOnce
  <2>3. ~IsHandled(x)' /\ HandledOnce(x)' /\ ~IsRecorded(x)'
      BY <1>6 DEF Dispatched, Once, IsHandled, HandledOnce, HandledAt, IsRecorded
  <2> QED BY <2>2, <2>3 DEF Once
<1> QED BY <1>5, <1>6

LEMMA CrashMoves ==
    ASSUME TypeOK, NEW i \in Instance, Crash(i), NEW j
    PROVE  NoCopy(j)
<1>1. \A h \in Instance : \A n \in 1..Len(jobs'[h]) :
          n \in 1..Len(jobs[h]) /\ jobs'[h][n] = jobs[h][n]
    BY DEF Crash, TypeOK
<1>2. \A h \in Instance, l \in Slot : HandledAt(h, l, j)' => HandledAt(h, l, j)
    BY DEF Crash, HandledAt, NoWork, TypeOK
<1>q. IsQueued(j)' => IsQueued(j)
    BY <1>1 DEF IsQueued
<1>3. ASSUME QueuedOnce(j)
      PROVE  QueuedOnce(j)'
  <2>1. SUFFICES ASSUME NEW h \in Instance, NEW g \in Instance,
                        NEW m \in 1..Len(jobs'[h]), NEW n \in 1..Len(jobs'[g]),
                        jobs'[h][m] = j, jobs'[g][n] = j
                 PROVE  h = g /\ m = n
      BY Zenon DEF QueuedOnce
  <2>2. m \in 1..Len(jobs[h]) /\ jobs[h][m] = j
      BY <1>1, <2>1, Zenon
  <2>3. n \in 1..Len(jobs[g]) /\ jobs[g][n] = j
      BY <1>1, <2>1, Zenon
  <2> QED BY <1>3, <2>2, <2>3, Zenon DEF QueuedOnce
<1>4. /\ IsHandled(j)' => IsHandled(j)
      /\ HandledOnce(j) => HandledOnce(j)'
    BY <1>2 DEF IsHandled, HandledOnce
<1>5. IsRecorded(j)' <=> IsRecorded(j)
    BY DEF Crash, IsRecorded, storeVars
<1> QED BY <1>q, <1>3, <1>4, <1>5 DEF NoCopy, Once, Dispatched

LEMMA TimeMoves ==
    ASSUME TypeOK, NEW a \in attempts, TimePasses(a), NEW j
    PROVE  NoCopy(j)
<1> DEFINE due == [a EXCEPT !.retry = "due"]
<1>1. attempts' = (attempts \ {a}) \cup {due} /\ UNCHANGED <<jobs, work>>
    BY DEF TimePasses, BackoffElapses
<1>2. due.event = a.event /\ due.endpoint = a.endpoint /\ due.number = a.number
    BY DEF TypeOK, StoreTypeOK, AttemptRow
<1>3. IsRecorded(j)' => IsRecorded(j)
    BY <1>1, <1>2 DEF IsRecorded, SamePair
<1>4. /\ IsQueued(j)' <=> IsQueued(j)
      /\ QueuedOnce(j)' <=> QueuedOnce(j)
      /\ IsHandled(j)' <=> IsHandled(j)
      /\ HandledOnce(j)' <=> HandledOnce(j)
    BY <1>1 DEF QueuedOnce, HandledOnce, IsQueued, IsHandled, HandledAt
<1> QED BY <1>3, <1>4 DEF NoCopy, Once, Dispatched

(***************************************************************************)
(* The poller and what it has read.                                        *)
(***************************************************************************)
LEMMA DInvInit == Init => DInv
BY IInvInit DEF Init, StoreInit, NoWork, DInv, JobsBegun, WorkBegun, LogBegun, BatchDone,
    BatchPending, TargetsFresh, SendingFor, FirstOnce, Once, QueuedOnce, HandledOnce, IsQueued,
    IsHandled, HandledAt, IsRecorded

Reading == BatchDone /\ BatchPending /\ TargetsFresh

\* Whoever is not the poller leaves what it has read as it was.
LEMMA OthersKeepReading ==
    ASSUME DInv, NobodyReplays, [Next]_vars, UNCHANGED <<poller, batch, targets>>,
           \A j \in Job : NoCopy(j)
    PROVE  Reading'
<1> USE DEF DInv, SendingFor, AtHand
<1>1. BatchDone'
    BY DEF BatchDone
<1>2. ASSUME NEW e \in Event, events[e] = "pending"
      PROVE  events'[e] = "pending"
  <2>1. ~\E i \in Instance : poller[i] = "claiming" /\ (ClaimEvent(i) \/ SkipEvent(i))
      BY DEF ClaimEvent, SkipEvent, IInv, TypeOK
  <2> QED BY <1>2, <2>1, StatusChanges DEF Begun
<1>3. BatchPending'
    BY <1>2 DEF BatchPending, IInv, TypeOK
<1>4. TargetsFresh'
  <2> SUFFICES ASSUME NEW i \in Instance, NEW e \in batch[i], SendingFor(i, e)
               PROVE  Begun(e)' /\ \A p \in targets[i] : ~Dispatched(First(e, p))'
      BY DEF TargetsFresh
  <2>1. Begun(e) /\ \A p \in targets[i] : ~Dispatched(First(e, p))
      BY DEF TargetsFresh
  <2>2. e \in Event /\ \A p \in targets[i] : First(e, p) \in Job
      BY DEF IInv, TypeOK, First, Job
  <2>3. Begun(e)'
      BY <2>1, <2>2, BegunStays
  <2> QED BY <2>1, <2>2, <2>3 DEF NoCopy
<1> QED BY <1>1, <1>3, <1>4 DEF Reading

\* The poller reads, or goes on to what it has read next, without a claim.
LEMMA PollerKeepsReading ==
    ASSUME DInv, OneInstance, NEW i \in Instance, UNCHANGED events,
           poller[i] # "sending", poller'[i] # "sending",
           \A e \in batch'[i] : e \in batch[i] \/ events[e] = "pending",
           poller'[i] \in {"retrying", "resending"} => batch'[i] = {}
    PROVE  Reading'
<1>1. \A h \in Instance : h = i
    BY DEF OneInstance
<1>2. \A e \in batch'[i] : events'[e] = "pending"
    BY DEF DInv, BatchPending, SendingFor
<1> QED BY <1>1, <1>2 DEF Reading, BatchDone, BatchPending, TargetsFresh, SendingFor

LEMMA ClaimKeepsReading ==
    ASSUME DInv, OneInstance, NEW i \in Instance, ClaimEvent(i)
    PROVE  Reading'
<1> USE DEF DInv
<1>1. \A h \in Instance : h = i
    BY DEF OneInstance
<1>2. PICK e \in batch[i] : AtHand(i, e) /\ UpdateEventStatus(e, "processing")
    BY DEF ClaimEvent
<1>3. /\ poller[i] = "claiming" /\ poller'[i] = "sending"
      /\ UNCHANGED <<batch, targets, jobs, work, attempts>>
    BY <1>2 DEF ClaimEvent, UpdateEventStatus, IInv, TypeOK
<1>4. \A f \in batch[i] : f \in Event /\ f \in Nat /\ events[f] = "pending"
    BY <1>3, IdsAreOrdered DEF BatchPending, SendingFor, IInv, TypeOK
<1>5. events' = [events EXCEPT ![e] = "processing"]
    BY <1>2, <1>4 DEF UpdateEventStatus, EventExists
<1>6. \A f \in batch[i] : AtHand(i, f) => f = e
    BY <1>2, <1>4 DEF AtHand
<1>7. AtHand(i, e)'
    BY <1>2, <1>3 DEF AtHand
<1>8. BatchDone'
    BY <1>1, <1>3 DEF BatchDone
<1>9. BatchPending'
    BY <1>1, <1>3, <1>4, <1>5, <1>7 DEF BatchPending, SendingFor, IInv, TypeOK, StoreTypeOK
<1>10. TargetsFresh'
  <2>1. Begun(e)'
      BY <1>4, <1>5 DEF Begun, IInv, TypeOK, StoreTypeOK
  <2>2. \A p : ~Dispatched(First(e, p))
      BY <1>4, DispatchedBegun DEF Begun
  <2>3. \A p : ~Dispatched(First(e, p))'
      BY <1>3, <2>2 DEF Dispatched, IsQueued, IsHandled, HandledAt, IsRecorded
  <2>4. \A f \in batch'[i] : SendingFor(i, f)' => f = e
      BY <1>3, <1>6 DEF SendingFor, AtHand
  <2> QED BY <1>1, <2>1, <2>3, <2>4 DEF TargetsFresh
<1> QED BY <1>8, <1>9, <1>10 DEF Reading

LEMMA SkipKeepsReading ==
    ASSUME DInv, OneInstance, NEW i \in Instance, SkipEvent(i)
    PROVE  Reading'
<1> USE DEF DInv
<1>1. \A h \in Instance : h = i
    BY DEF OneInstance
<1>2. PICK e \in batch[i] :
          /\ poller[i] \in {"pending", "claiming"}
          /\ UNCHANGED storeVars \/ UpdateEventStatus(e, "processing")
          /\ batch' = [batch EXCEPT ![i] = @ \ {e}]
    BY DEF SkipEvent
<1>3. poller'[i] = "pending"
    BY DEF SkipEvent, IInv, TypeOK
<1>4. \A f \in batch[i] : f \in Event /\ events[f] = "pending"
    BY <1>2 DEF BatchPending, SendingFor, IInv, TypeOK
<1>5. \A f \in batch'[i] : f \in batch[i] /\ f # e
    BY <1>2 DEF IInv, TypeOK
<1>6. \A f \in batch'[i] : events'[f] = "pending"
    BY <1>2, <1>4, <1>5 DEF storeVars, UpdateEventStatus, IInv, TypeOK, StoreTypeOK
<1> QED BY <1>1, <1>3, <1>6 DEF Reading, BatchDone, BatchPending, TargetsFresh, SendingFor

LEMMA SendKeepsReading ==
    ASSUME DInv, OneInstance, NEW i \in Instance, SendFirstAttempt(i)
    PROVE  Reading' /\ FirstOnce' /\ JobsBegun'
<1> USE DEF DInv
<1>1. \A h \in Instance : h = i
    BY DEF OneInstance
<1>2. PICK e \in batch[i], p \in targets[i] :
          /\ AtHand(i, e)
          /\ Send(i, First(e, p))
          /\ targets' = [targets EXCEPT ![i] = @ \ {p}]
          /\ \/ UNCHANGED <<poller, batch>>
             \/ /\ poller' = [poller EXCEPT ![i] = "pending"]
                /\ batch' = [batch EXCEPT ![i] = @ \ {e}]
    BY DEF SendFirstAttempt, First
<1>3. poller[i] = "sending" /\ UNCHANGED <<events, work, attempts>>
    BY DEF SendFirstAttempt, storeVars
<1>4. /\ e \in Event /\ p \in Endpoint
      /\ \A f \in Event, q \in Endpoint : First(f, q) \in Job
    BY DEF IInv, TypeOK, First, Job
<1>5. Begun(e) /\ \A q \in targets[i] : ~Dispatched(First(e, q))
    BY <1>2, <1>3 DEF TargetsFresh, SendingFor
<1>6. \A f \in batch[i] : AtHand(i, f) => f = e
    BY <1>2, IdsAreOrdered DEF AtHand, IInv, TypeOK
<1>7. \A f \in Event, q \in Endpoint : First(f, q) = First(e, p) => f = e /\ q = p
    BY DEF First
<1>8. \A f \in Event, q \in Endpoint : First(f, q) # First(e, p) => NoCopy(First(f, q))
    BY <1>2, <1>3, <1>4, SendMoves DEF IInv
<1>9. FirstOnce'
  <2>1. Once(First(e, p))'
      BY <1>2, <1>3, <1>4, <1>5, SendMoves DEF IInv, FirstOnce
  <2>2. \A f \in Event, q \in Endpoint : First(f, q) # First(e, p) => Once(First(f, q))'
      BY <1>8 DEF NoCopy, FirstOnce
  <2>3. \A f \in Event, q \in Endpoint : First(f, q) = First(e, p) => Once(First(f, q))'
      BY <1>7, <2>1
  <2> QED BY <2>2, <2>3 DEF FirstOnce
<1>10. BatchDone'
    BY <1>1, <1>2, <1>3 DEF BatchDone, IInv, TypeOK
<1>11. BatchPending'
    BY <1>1, <1>2, <1>3, <1>6 DEF BatchPending, SendingFor, AtHand, IInv, TypeOK
<1>12. TargetsFresh'
  <2> SUFFICES ASSUME NEW f \in batch'[i], SendingFor(i, f)', NEW q \in targets'[i]
               PROVE  Begun(f)' /\ ~Dispatched(First(f, q))'
      BY <1>1, <1>2, <1>3, <1>5, <1>6 DEF TargetsFresh, SendingFor, AtHand, Begun, IInv, TypeOK
  <2>1. f = e /\ q \in targets[i] /\ q # p
      BY <1>2, <1>3, <1>6 DEF SendingFor, AtHand, IInv, TypeOK
  <2>2. q \in Endpoint
      BY <2>1 DEF IInv, TypeOK
  <2> QED BY <1>3, <1>4, <1>5, <1>7, <1>8, <2>1, <2>2 DEF NoCopy, Begun
<1>13. JobsBegun'
  <2>1. /\ jobs[i] \in Seq(Job)
        /\ jobs' = [jobs EXCEPT ![i] = Append(jobs[i], First(e, p))]
      BY <1>2 DEF Send, IInv, TypeOK
  <2>2. \A n \in 1..Len(Append(jobs[i], First(e, p))) :
            \/ Append(jobs[i], First(e, p))[n] = First(e, p)
            \/ n \in 1..Len(jobs[i]) /\ Append(jobs[i], First(e, p))[n] = jobs[i][n]
      BY <2>1
  <2>3. First(e, p).event = e
      BY DEF First
  <2> QED BY <1>1, <1>3, <1>5, <2>1, <2>2, <2>3 DEF JobsBegun, Begun, IInv, TypeOK
<1> QED BY <1>9, <1>10, <1>11, <1>12, <1>13 DEF Reading

\* One step per action: the poller's own steps, then everybody else's.
LEMMA DInvStep ==
    ASSUME DInv, OneInstance, NobodyReplays, [Next]_vars
    PROVE  DInv'
<1> DEFINE Kept == Reading' /\ FirstOnce' /\ JobsBegun' /\ WorkBegun' /\ LogBegun'
<1> USE DEF DInv
<1>i. IInv'
    BY IInvStep
<1>j. UNCHANGED jobs => JobsBegun'
    BY JobsBegunStays
<1>w. UNCHANGED work => WorkBegun'
    BY WorkBegunStays
<1>l. UNCHANGED attempts => LogBegun'
    BY LogBegunStays
<1>o. (\A j \in Job : NoCopy(j)) => FirstOnce'
  <2>1. \A e \in Event, p \in Endpoint : First(e, p) \in Job
      BY DEF First, Job
  <2> QED BY <2>1 DEF NoCopy, FirstOnce
<1>s. UNCHANGED <<jobs, work, attempts>> => FirstOnce' /\ JobsBegun' /\ WorkBegun' /\ LogBegun'
    BY NothingMoves, <1>o, <1>j, <1>w, <1>l
<1>e. UNCHANGED <<poller, batch, targets>> /\ (\A j \in Job : NoCopy(j)) => Reading' /\ FirstOnce'
    BY OthersKeepReading, <1>o
<1> USE DEF storeVars, pollerVars
<1>1. ASSUME NEW i \in Instance,
             \/ PollPendingEvents(i) \/ FindEndpoints(i) \/ PollRetryableAttempts(i)
             \/ LookUpRetry(i) \/ PollFails(i) \/ SkipRetry(i)
      PROVE  Kept
  <2>1. UNCHANGED <<events, jobs, work, attempts>>
      BY <1>1 DEF PollPendingEvents, FindEndpoints, PollRetryableAttempts, LookUpRetry, PollFails,
                  SkipRetry
  <2>2. /\ poller[i] # "sending" /\ poller'[i] # "sending"
        /\ \A e \in batch'[i] : e \in batch[i] \/ events[e] = "pending"
        /\ poller'[i] \in {"retrying", "resending"} => batch'[i] = {}
    <3>1. CASE PollPendingEvents(i)
        BY <3>1, QueryTypes DEF PollPendingEvents, IInv, TypeOK
    <3>2. CASE FindEndpoints(i)
        BY <3>2 DEF FindEndpoints, IInv, TypeOK
    <3>3. CASE PollRetryableAttempts(i) \/ PollFails(i)
        BY <3>3 DEF PollRetryableAttempts, PollFails, BatchDone, IInv, TypeOK
    <3>4. CASE LookUpRetry(i) \/ SkipRetry(i)
        BY <3>4 DEF LookUpRetry, SkipRetry, BatchDone, IInv, TypeOK
    <3> QED BY <1>1, <3>1, <3>2, <3>3, <3>4
  <2> QED BY <2>1, <2>2, <1>s, PollerKeepsReading
<1>2. ASSUME NEW i \in Instance, ClaimEvent(i) \/ SkipEvent(i)
      PROVE  Kept
  <2>1. UNCHANGED <<jobs, work, attempts>>
      BY <1>2 DEF ClaimEvent, SkipEvent, UpdateEventStatus
  <2> QED BY <1>2, <2>1, <1>s, ClaimKeepsReading, SkipKeepsReading
<1>3. ASSUME NEW i \in Instance, SendFirstAttempt(i)
      PROVE  Kept
  <2>1. UNCHANGED <<work, attempts>>
      BY <1>3 DEF SendFirstAttempt
  <2> QED BY <1>3, <2>1, <1>w, <1>l, SendKeepsReading
<1>4. ASSUME NEW i \in Instance, SendRetry(i)
      PROVE  Kept
  <2>1. PICK a \in retries[i] :
            Send(i, [event |-> a.event, endpoint |-> a.endpoint, number |-> a.number + 1])
      BY <1>4 DEF SendRetry
  <2> DEFINE x == [event |-> a.event, endpoint |-> a.endpoint, number |-> a.number + 1]
  <2>2. a \in attempts /\ a \in AttemptRow
      BY DEF IInv, TypeOK, InFlightJustified, RetriesDue
  <2>3. x \in Job /\ x.number # 1 /\ Begun(x.event)
      BY <2>2 DEF AttemptRow, Job, LogBegun
  <2>4. /\ UNCHANGED <<events, work, attempts, batch>>
        /\ poller[i] = "resending" /\ poller'[i] = "retrying"
      BY <1>4 DEF SendRetry, IInv, TypeOK
  <2>5. Reading'
    <3>1. batch'[i] = {}
        BY <2>4 DEF BatchDone
    <3> QED BY <2>4, <3>1, PollerKeepsReading
  <2>6. FirstOnce'
    <3>1. \A e \in Event, p \in Endpoint : First(e, p) \in Job /\ First(e, p) # x
        BY <2>3 DEF First, Job
    <3>2. \A e \in Event, p \in Endpoint : NoCopy(First(e, p))
        BY <2>1, <2>3, <2>4, <3>1, SendMoves DEF IInv
    <3> QED BY <3>2 DEF NoCopy, FirstOnce
  <2>7. JobsBegun'
    <3>1. jobs[i] \in Seq(Job) /\ jobs' = [jobs EXCEPT ![i] = Append(jobs[i], x)]
        BY <2>1 DEF Send, IInv, TypeOK
    <3>2. \A n \in 1..Len(Append(jobs[i], x)) :
              \/ Append(jobs[i], x)[n] = x
              \/ n \in 1..Len(jobs[i]) /\ Append(jobs[i], x)[n] = jobs[i][n]
        BY <2>3, <3>1
    <3>3. \A h \in Instance : h = i
        BY DEF OneInstance
    <3> QED BY <2>3, <2>4, <3>1, <3>2, <3>3 DEF JobsBegun, Begun, IInv, TypeOK
  <2> QED BY <2>4, <2>5, <2>6, <2>7, <1>w, <1>l
<1>5. ASSUME NEW i \in Instance, NEW k \in Slot, ReceiveJob(i, k)
      PROVE  Kept
  <2>1. \A j \in Job : NoCopy(j)
      BY <1>5, ReceiveMoves DEF IInv
  <2>2. /\ jobs[i] \in Seq(Job) /\ jobs[i] # <<>>
        /\ jobs' = [jobs EXCEPT ![i] = Tail(@)]
        /\ work' = [work EXCEPT ![i][k] = [at |-> "delivering", job |-> Head(jobs[i])]]
        /\ UNCHANGED <<poller, batch, targets, attempts>>
      BY <1>5 DEF ReceiveJob, Become, IInv, TypeOK
  <2>3. /\ Head(jobs[i]) = jobs[i][1] /\ 1 \in 1..Len(jobs[i])
        /\ \A n \in 1..Len(Tail(jobs[i])) :
               Tail(jobs[i])[n] = jobs[i][n + 1] /\ n + 1 \in 1..Len(jobs[i])
      BY <2>2
  <2>4. JobsBegun'
      BY <2>2, <2>3, JobsBegunStays DEF IInv, TypeOK
  <2>5. WorkBegun'
      BY <2>2, <2>3, WorkBegunStays DEF JobsBegun, IInv, TypeOK
  <2> QED BY <2>1, <2>2, <2>4, <2>5, <1>e, <1>l
<1>6. ASSUME NEW i \in Instance, NEW k \in Slot,
             \/ Deliver(i, k) \/ RecordAttempt(i, k) \/ MarkEvent(i, k) \/ DropJob(i, k)
      PROVE  Kept
  <2> DEFINE old == work[i][k]
  <2>0. /\ old.at # "idle" /\ old.job \in Job
        /\ old.at \in {"recording", "marking"} =>
               old.ok \in BOOLEAN /\ old = [at |-> old.at, job |-> old.job, ok |-> old.ok]
      BY <1>6, WorkTypes DEF Deliver, RecordAttempt, MarkEvent, DropJob, IInv, TypeOK
  <2>1. PICK w \in Work :
            /\ work' = [work EXCEPT ![i][k] = w]
            /\ w.at # "delivering"
            /\ w.at # "idle" => w.job = old.job
            /\ w.at = "recording" => old.at = "delivering"
            /\ \/ UNCHANGED attempts
               \/ /\ old.at = "recording" /\ w.at # "recording"
                  /\ \E ok \in BOOLEAN : attempts' = attempts \cup {RowOf(old.job, ok)}
    <3>1. CASE Deliver(i, k)
      <4>1. PICK ok \in BOOLEAN :
                work' = [work EXCEPT ![i][k] = [at |-> "recording", job |-> old.job, ok |-> ok]]
          BY <3>1 DEF Deliver, Become
      <4>2. [at |-> "recording", job |-> old.job, ok |-> ok] \in Work
          BY <2>0 DEF Work
      <4>3. old.at = "delivering" /\ UNCHANGED attempts
          BY <3>1 DEF Deliver
      <4> QED BY <4>1, <4>2, <4>3
    <3>2. CASE RecordAttempt(i, k)
      <4>1. old.at = "recording" /\ [old EXCEPT !.at = "marking"] \in Work
          BY <2>0, <3>2 DEF RecordAttempt, Work
      <4>2. /\ [old EXCEPT !.at = "marking"].job = old.job
            /\ [old EXCEPT !.at = "marking"].at = "marking"
          BY <2>0, <4>1
      <4>3. NoWork \in Work /\ NoWork.at = "idle"
          BY DEF Work, NoWork
      <4>5. PICK w \in Work :
                /\ work' = [work EXCEPT ![i][k] = w]
                /\ w.at \in {"marking", "idle"}
                /\ w.at # "idle" => w.job = old.job
          BY <3>2, <4>1, <4>2, <4>3 DEF RecordAttempt, Become
      <4>6. attempts' = attempts \cup {RowOf(old.job, old.ok)} \/ UNCHANGED attempts
          BY <3>2 DEF RecordAttempt, CreateDeliveryAttempt
      <4> QED BY <2>0, <4>1, <4>5, <4>6
    <3>3. CASE MarkEvent(i, k) \/ DropJob(i, k)
      <4>1. NoWork \in Work /\ NoWork.at = "idle"
          BY DEF Work, NoWork
      <4>2. work' = [work EXCEPT ![i][k] = NoWork]
          BY <3>3 DEF MarkEvent, DropJob, Become
      <4>3. \/ UNCHANGED attempts
            \/ old.at = "recording" /\ attempts' = attempts \cup {RowOf(old.job, old.ok)}
          BY <3>3 DEF MarkEvent, DropJob, UpdateEventStatus, CreateDeliveryAttempt
      <4> QED BY <2>0, <4>1, <4>2, <4>3
    <3> QED BY <1>6, <3>1, <3>2, <3>3
  <2>2. UNCHANGED <<poller, batch, targets, jobs>>
      BY <1>6 DEF Deliver, RecordAttempt, MarkEvent, DropJob
  <2>3. w.at = "recording" => HandledAt(i, k, w.job)
      BY <2>1 DEF HandledAt
  <2>4. \A j \in Job : NoCopy(j)
      BY <2>1, <2>2, <2>3, WorkerMoves DEF IInv
  <2>5. WorkBegun'
      BY <2>0, <2>1, WorkBegunStays DEF IInv, TypeOK
  <2>6. LogBegun'
    <3>1. \A ok \in BOOLEAN : Begun(RowOf(old.job, ok).event)
        BY <2>0 DEF RowOf, WorkBegun
    <3> QED BY <2>1, <3>1, LogBegunStays
  <2> QED BY <2>2, <2>4, <2>5, <2>6, <1>e, <1>j
<1>7. ASSUME NEW i \in Instance, Crash(i)
      PROVE  Kept
  <2>1. UNCHANGED <<events, attempts>>
      BY <1>7 DEF Crash
  <2>2. \A h \in Instance : h = i
      BY DEF OneInstance
  <2>3. poller'[i] = "retrying" /\ batch'[i] = {}
      BY <1>7 DEF Crash, IInv, TypeOK
  <2>4. Reading'
      BY <2>2, <2>3 DEF Reading, BatchDone, BatchPending, TargetsFresh
  <2>5. \A j \in Job : NoCopy(j)
      BY <1>7, CrashMoves DEF IInv
  <2>6. JobsBegun' /\ WorkBegun'
      BY <1>7, <2>2 DEF Crash, JobsBegun, WorkBegun, NoWork, IInv, TypeOK
  <2> QED BY <2>1, <2>4, <2>5, <2>6, <1>o, <1>l
<1>8. ASSUME ClientRequest
      PROVE  Kept
  <2>1. UNCHANGED <<attempts, pollerVars, jobs, work>>
      BY <1>8, ClientRequestKeeps
  <2> QED BY <2>1, <1>s, <1>e, NothingMoves
<1>9. ASSUME NEW a \in attempts, TimePasses(a)
      PROVE  Kept
  <2>1. \A j \in Job : NoCopy(j)
      BY <1>9, TimeMoves DEF IInv
  <2>2. /\ attempts' = (attempts \ {a}) \cup {[a EXCEPT !.retry = "due"]}
        /\ UNCHANGED <<pollerVars, jobs, work>>
      BY <1>9 DEF TimePasses, BackoffElapses
  <2>3. [a EXCEPT !.retry = "due"].event = a.event
      BY DEF IInv, TypeOK, StoreTypeOK, AttemptRow
  <2>4. LogBegun'
      BY <2>2, <2>3, LogBegunStays
  <2> QED BY <2>1, <2>2, <2>4, <1>e, <1>j, <1>w
<1>10. ASSUME UNCHANGED vars
       PROVE  Kept
    BY <1>10, <1>s, <1>e, NothingMoves DEF vars
<1>11. Kept
    BY <1>1, <1>2, <1>3, <1>4, <1>5, <1>6, <1>7, <1>8, <1>9, <1>10
       DEF Next, PollerStep, WorkerStep, PollerProceeds, WorkerProceeds, PollerFails
<1> QED BY <1>i, <1>11 DEF Reading

\* The first attempt of an event to an endpoint is dispatched once, in spite of
\* failing statements, crashes, purges and endpoints that change or disappear, as
\* long as there is one instance and nobody replays (poller.go: pollPendingEvents
\* claims an event after it has read it and before it sends its jobs).
THEOREM FirstAttemptDispatchedOnce ==
    ASSUME OneInstance, NobodyReplays
    PROVE  Spec => []FirstAttemptOnce
<1>1. Init => DInv
    BY DInvInit
<1>2. DInv /\ [Next]_vars => DInv'
    BY DInvStep
<1>3. DInv => FirstAttemptOnce
    BY OnceIsAtMostOnce DEF DInv, IInv, FirstOnce, First, FirstAttemptOnce
<1> QED BY <1>1, <1>2, <1>3, PTL DEF Spec

(***************************************************************************)
(* No event is stranded.                                                   *)
(***************************************************************************)
NothingFails == Scenario \cap {"storeError", "crash", "delete"} = {}

\* What moves an event on that is being processed.
Moving(e) ==
    \/ \E i \in Instance : SendingFor(i, e) /\ targets[i] # {}
    \/ \E i \in Instance : \E n \in 1..Len(jobs[i]) : jobs[i][n].event = e
    \/ \E i \in Instance, k \in Slot : work[i][k].at # "idle" /\ work[i][k].job.event = e
    \/ \E a \in attempts : a.event = e /\ a.retry # "none"

NoneStranded == \A e \in Event : events[e] = "processing" => Moving(e)

TargetsLeft == \A i \in Instance : poller[i] \in {"claiming", "sending"} => targets[i] # {}

TargetsThere == \A i \in Instance : \A p \in targets[i] : EndpointExists(p)
JobsThere == \A i \in Instance : \A n \in 1..Len(jobs[i]) : EndpointExists(jobs[i][n].endpoint)
WorkThere == \A i \in Instance, k \in Slot :
                 work[i][k].at # "idle" => EndpointExists(work[i][k].job.endpoint)
LogThere == \A a \in attempts : EndpointExists(a.endpoint)

\* No insert of an attempt is refused, for the endpoint of a job stays, and a
\* claimed event has endpoints to send to.
SInv == /\ IInv
        /\ TargetsThere /\ JobsThere /\ WorkThere /\ LogThere
        /\ TargetsLeft /\ NoneStranded

\* Steps in which nothing fails.
LEMMA UndisturbedSteps ==
    ASSUME NothingFails, [Next]_vars
    PROVE  \/ \E i \in Instance : PollerProceeds(i)
           \/ \E i \in Instance, k \in Slot : WorkerProceeds(i, k)
           \/ ClientRequest
           \/ \E a \in attempts : TimePasses(a)
           \/ UNCHANGED vars
BY DEF NothingFails, Next, PollerStep, WorkerStep, StoreMayFail, Crash

\* Endpoints stay when nobody deletes them.
LEMMA EndpointsStay ==
    ASSUME SInv, NothingFails, [Next]_vars
    PROVE  \A p \in Endpoint : EndpointExists(p) => EndpointExists(p)'
<1> USE DEF EndpointExists
<1>1. CASE UNCHANGED endpoints
    BY <1>1
<1>2. CASE \E p \in Endpoint, topics \in SUBSET Topic : CreateEndpoint(p, topics)
    BY <1>2 DEF CreateEndpoint, SInv, IInv, TypeOK, StoreTypeOK
<1>3. CASE \E p \in Endpoint, s \in {"enabled", "disabled"}, topics \in SUBSET Topic :
               UpdateEndpoint(p, s, topics)
    BY <1>3 DEF UpdateEndpoint, SInv, IInv, TypeOK, StoreTypeOK
<1>4. CASE ClientRequest
    BY <1>1, <1>2, <1>3, <1>4
       DEF NothingFails, ClientRequest, HandleCreateEvent, HandleCreateEndpoint, HandleReplayEvent,
           HandleBulkReplay, HandlePurge, HandleUpdateEndpoint, HandleDeleteEndpoint, CreateEvent,
           ReplayEvent, UpdateEventStatus, BulkReplayDeadEvents, PurgeDeadEvents
<1> QED BY <1>1, <1>4, UndisturbedSteps
        DEF PollerProceeds, WorkerProceeds, PollPendingEvents, FindEndpoints, ClaimEvent,
            UpdateEventStatus, SendFirstAttempt, PollRetryableAttempts, LookUpRetry, SendRetry,
            ReceiveJob, Deliver, RecordAttempt, CreateDeliveryAttempt, MarkEvent, TimePasses,
            BackoffElapses, vars, storeVars

\* Targets, jobs and rows that are passed on have endpoints that stay.
LEMMA TargetsThereStays ==
    ASSUME SInv, NothingFails, [Next]_vars,
           \A i \in Instance : \A p \in targets'[i] : p \in targets[i] \/ EndpointExists(p)
    PROVE  TargetsThere'
<1>1. \A i \in Instance : \A p \in targets'[i] : p \in Endpoint /\ EndpointExists(p)
    BY TypeStep DEF SInv, IInv, TypeOK, TargetsThere
<1> QED BY <1>1, EndpointsStay DEF TargetsThere

LEMMA JobsThereStays ==
    ASSUME SInv, NothingFails, [Next]_vars,
           \A i \in Instance : \A n \in 1..Len(jobs'[i]) :
               \/ \E m \in 1..Len(jobs[i]) : jobs'[i][n] = jobs[i][m]
               \/ EndpointExists(jobs'[i][n].endpoint)
    PROVE  JobsThere'
<1> SUFFICES ASSUME NEW i \in Instance, NEW n \in 1..Len(jobs'[i])
             PROVE  endpoints'[jobs'[i][n].endpoint].state \notin {"none", "deleted"}
    BY DEF JobsThere, EndpointExists
<1>1. jobs'[i][n].endpoint \in Endpoint
  <2>1. jobs'[i][n] \in Job
      BY TypeStep DEF SInv, IInv, TypeOK
  <2> QED BY <2>1 DEF Job
<1>2. EndpointExists(jobs'[i][n].endpoint)
    BY DEF SInv, JobsThere
<1> QED BY <1>1, <1>2, EndpointsStay DEF EndpointExists

LEMMA WorkThereStays ==
    ASSUME SInv, NothingFails, [Next]_vars,
           \A i \in Instance, k \in Slot :
               \/ work'[i][k].at = "idle"
               \/ work[i][k].at # "idle" /\ work'[i][k].job = work[i][k].job
               \/ EndpointExists(work'[i][k].job.endpoint)
    PROVE  WorkThere'
<1> SUFFICES ASSUME NEW i \in Instance, NEW k \in Slot, work'[i][k].at # "idle"
             PROVE  endpoints'[work'[i][k].job.endpoint].state \notin {"none", "deleted"}
    BY DEF WorkThere, EndpointExists
<1>1. work'[i][k].job.endpoint \in Endpoint
  <2>1. work'[i][k] \in Work
      BY TypeStep DEF SInv, IInv, TypeOK
  <2> QED BY <2>1, WorkTypes DEF Job
<1>2. EndpointExists(work'[i][k].job.endpoint)
    BY DEF SInv, WorkThere
<1> QED BY <1>1, <1>2, EndpointsStay DEF EndpointExists

LEMMA LogThereStays ==
    ASSUME SInv, NothingFails, [Next]_vars,
           \A a \in attempts' : (\E b \in attempts : a.endpoint = b.endpoint)
                                   \/ EndpointExists(a.endpoint)
    PROVE  LogThere'
<1> SUFFICES ASSUME NEW a \in attempts'
             PROVE  endpoints'[a.endpoint].state \notin {"none", "deleted"}
    BY DEF LogThere, EndpointExists
<1>1. a.endpoint \in Endpoint
    BY TypeStep DEF SInv, IInv, TypeOK, StoreTypeOK, AttemptRow
<1>2. EndpointExists(a.endpoint)
    BY DEF SInv, LogThere
<1> QED BY <1>1, <1>2, EndpointsStay DEF EndpointExists

\* What a send adds to a channel.
LEMMA SendAdds ==
    ASSUME TypeOK, NEW i \in Instance, NEW x \in Job, Send(i, x)
    PROVE  /\ \A h \in Instance : \A n \in 1..Len(jobs'[h]) :
                  \/ n \in 1..Len(jobs[h]) /\ jobs'[h][n] = jobs[h][n]
                  \/ jobs'[h][n] = x
           /\ \A h \in Instance : \A n \in 1..Len(jobs[h]) :
                  n \in 1..Len(jobs'[h]) /\ jobs'[h][n] = jobs[h][n]
           /\ \E n \in 1..Len(jobs'[i]) : jobs'[i][n] = x
<1>1. /\ jobs[i] \in Seq(Job) /\ Len(jobs[i]) \in Nat
      /\ jobs' = [jobs EXCEPT ![i] = Append(jobs[i], x)]
    BY DEF Send, TypeOK
<1>2. /\ Len(Append(jobs[i], x)) = Len(jobs[i]) + 1
      /\ Append(jobs[i], x)[Len(jobs[i]) + 1] = x
      /\ \A n \in 1..Len(jobs[i]) : Append(jobs[i], x)[n] = jobs[i][n]
    BY <1>1
<1>3. jobs'[i] = Append(jobs[i], x) /\ \A h \in Instance : h # i => jobs'[h] = jobs[h]
    BY <1>1 DEF TypeOK
<1>4. Len(jobs[i]) + 1 \in 1..Len(jobs'[i])
    BY <1>1, <1>2, <1>3
<1>5. \A n \in 1..Len(jobs'[i]) : n \in 1..Len(jobs[i]) \/ n = Len(jobs[i]) + 1
    BY <1>1, <1>2, <1>3
<1>6. \A n \in 1..Len(jobs[i]) : n \in 1..Len(jobs'[i])
    BY <1>1, <1>2, <1>3
<1> QED BY <1>2, <1>3, <1>4, <1>5, <1>6

LEMMA SInvInit == Init => SInv
BY IInvInit DEF Init, StoreInit, NoWork, SInv, TargetsThere, JobsThere, WorkThere, LogThere,
    TargetsLeft, NoneStranded

\* A poller that goes on, after other things than a send, takes nothing from any
\* event that is being processed.
LEMMA NoneStrandedStays ==
    ASSUME SInv, UNCHANGED <<events, jobs, work, attempts>>, NEW i \in Instance,
           poller[i] # "sending",
           \A h \in Instance \ {i} : /\ poller'[h] = poller[h]
                                     /\ batch'[h] = batch[h]
                                     /\ targets'[h] = targets[h]
    PROVE  NoneStranded'
<1> SUFFICES ASSUME NEW e \in Event, events[e] = "processing"
             PROVE  Moving(e)'
    BY DEF NoneStranded
<1>1. Moving(e)
    BY DEF SInv, NoneStranded
<1>2. ASSUME NEW h \in Instance, SendingFor(h, e), targets[h] # {}
      PROVE  SendingFor(h, e)' /\ targets'[h] # {}
    BY <1>2 DEF SendingFor, AtHand
<1> QED BY <1>1, <1>2 DEF Moving

\* One step per action.
LEMMA SInvStep ==
    ASSUME SInv, NothingFails, [Next]_vars
    PROVE  SInv'
<1> DEFINE Kept == TargetsThere' /\ JobsThere' /\ WorkThere' /\ LogThere'
                   /\ TargetsLeft' /\ NoneStranded'
<1>i. IInv'
    BY IInvStep DEF SInv
<1>p. UNCHANGED targets => TargetsThere'
    BY TargetsThereStays
<1>j. UNCHANGED jobs => JobsThere'
    BY JobsThereStays
<1>w. UNCHANGED work => WorkThere'
    BY WorkThereStays
<1>l. UNCHANGED attempts => LogThere'
    BY LogThereStays
<1>t. UNCHANGED <<poller, targets>> => TargetsLeft'
    BY DEF SInv, TargetsLeft
<1> USE DEF storeVars, pollerVars, SInv
<1>1. ASSUME NEW i \in Instance,
             PollPendingEvents(i) \/ FindEndpoints(i) \/ PollRetryableAttempts(i) \/ LookUpRetry(i)
      PROVE  Kept
  <2>1. UNCHANGED <<events, jobs, work, attempts>>
      BY <1>1 DEF PollPendingEvents, FindEndpoints, PollRetryableAttempts, LookUpRetry
  <2>2. TargetsThere'
    <3>1. CASE FindEndpoints(i)
      <4>1. \A t : \A p \in GetEndpointsByTopic(t) : EndpointExists(p)
          BY DEF GetEndpointsByTopic, EndpointExists
      <4>2. PICK found \in SUBSET Endpoint : /\ \A p \in found : EndpointExists(p)
                                             /\ \/ UNCHANGED targets
                                                \/ targets' = [targets EXCEPT ![i] = found]
          BY <3>1, <4>1, QueryTypes DEF FindEndpoints
      <4>3. \A h \in Instance : \A p \in targets'[h] : p \in targets[h] \/ EndpointExists(p)
          BY <4>2 DEF IInv, TypeOK
      <4> QED BY <4>3, TargetsThereStays
    <3> QED BY <1>1, <3>1, <1>p DEF PollPendingEvents, PollRetryableAttempts, LookUpRetry
  <2>3. TargetsLeft'
      BY <1>1 DEF PollPendingEvents, FindEndpoints, PollRetryableAttempts, LookUpRetry,
                  TargetsLeft, IInv, TypeOK
  <2>4. /\ poller[i] # "sending"
        /\ \A h \in Instance \ {i} : /\ poller'[h] = poller[h]
                                      /\ batch'[h] = batch[h]
                                      /\ targets'[h] = targets[h]
      BY <1>1 DEF PollPendingEvents, FindEndpoints, PollRetryableAttempts, LookUpRetry, IInv, TypeOK
  <2> QED BY <2>1, <2>2, <2>3, <2>4, <1>j, <1>w, <1>l, NoneStrandedStays
<1>2. ASSUME NEW i \in Instance, ClaimEvent(i)
      PROVE  Kept
  <2>1. PICK e \in batch[i] : AtHand(i, e) /\ UpdateEventStatus(e, "processing")
      BY <1>2 DEF ClaimEvent
  <2>2. /\ poller[i] = "claiming" /\ poller' = [poller EXCEPT ![i] = "sending"]
        /\ UNCHANGED <<batch, targets, retries, jobs, work, attempts>>
      BY <1>2, <2>1 DEF ClaimEvent, UpdateEventStatus
  <2>3. TargetsLeft'
      BY <2>2 DEF TargetsLeft, IInv, TypeOK
  <2>4. NoneStranded'
    <3> SUFFICES ASSUME NEW f \in Event, events'[f] = "processing"
                 PROVE  Moving(f)'
        BY DEF NoneStranded
    <3>1. CASE f = e
      <4>1. SendingFor(i, f)' /\ targets'[i] # {}
          BY <2>1, <2>2, <3>1 DEF SendingFor, AtHand, TargetsLeft, IInv, TypeOK
      <4> QED BY <4>1 DEF Moving
    <3>2. CASE f # e
      <4>1. Moving(f)
          BY <2>1, <3>2 DEF UpdateEventStatus, NoneStranded, IInv, TypeOK, StoreTypeOK
      <4>2. \A h \in Instance : SendingFor(h, f) => SendingFor(h, f)'
          BY <2>2 DEF SendingFor, AtHand, IInv, TypeOK
      <4> QED BY <2>2, <4>1, <4>2 DEF Moving
    <3> QED BY <3>1, <3>2
  <2> QED BY <2>2, <2>3, <2>4, <1>p, <1>j, <1>w, <1>l
<1>3. ASSUME NEW i \in Instance, SendFirstAttempt(i)
      PROVE  Kept
  <2>1. PICK e \in batch[i], p \in targets[i] :
            /\ AtHand(i, e)
            /\ Send(i, First(e, p))
            /\ targets' = [targets EXCEPT ![i] = @ \ {p}]
            /\ \/ targets[i] # {p} /\ UNCHANGED <<poller, batch>>
               \/ /\ poller' = [poller EXCEPT ![i] = "pending"]
                  /\ batch' = [batch EXCEPT ![i] = @ \ {e}]
      BY <1>3 DEF SendFirstAttempt, First
  <2>2. UNCHANGED <<events, work, attempts>>
      BY <1>3 DEF SendFirstAttempt
  <2>3. /\ First(e, p) \in Job /\ First(e, p).event = e /\ First(e, p).endpoint = p
        /\ EndpointExists(p)
      BY DEF First, Job, TargetsThere, IInv, TypeOK
  <2>4. TargetsThere'
      BY <2>1, TargetsThereStays DEF IInv, TypeOK
  <2>5. JobsThere'
      BY <2>1, <2>3, SendAdds, JobsThereStays DEF IInv
  <2>6. TargetsLeft'
      BY <2>1 DEF TargetsLeft, IInv, TypeOK
  <2>7. NoneStranded'
    <3> SUFFICES ASSUME NEW f \in Event, events[f] = "processing"
                 PROVE  Moving(f)'
        BY <2>2 DEF NoneStranded
    <3>1. CASE f = e
      <4>1. \E n \in 1..Len(jobs'[i]) : jobs'[i][n] = First(e, p)
          BY <2>1, <2>3, SendAdds DEF IInv
      <4> QED BY <2>3, <3>1, <4>1 DEF Moving
    <3>2. CASE f # e
      <4>1. ASSUME NEW h \in Instance, SendingFor(h, f), targets[h] # {}
            PROVE  SendingFor(h, f)' /\ targets'[h] # {}
        <5>1. h # i
            BY <2>1, <3>2, <4>1, IdsAreOrdered DEF SendingFor, AtHand, IInv, TypeOK
        <5> QED BY <2>1, <4>1, <5>1 DEF SendingFor, AtHand, IInv, TypeOK
      <4>2. ASSUME NEW h \in Instance, NEW n \in 1..Len(jobs[h]), jobs[h][n].event = f
            PROVE  n \in 1..Len(jobs'[h]) /\ jobs'[h][n].event = f
          BY <2>1, <2>3, <4>2, SendAdds DEF IInv
      <4> QED BY <2>2, <4>1, <4>2 DEF Moving, NoneStranded
    <3> QED BY <3>1, <3>2
  <2> QED BY <2>2, <2>4, <2>5, <2>6, <2>7, <1>w, <1>l
<1>4. ASSUME NEW i \in Instance, SendRetry(i)
      PROVE  Kept
  <2>1. PICK a \in retries[i] :
            Send(i, [event |-> a.event, endpoint |-> a.endpoint, number |-> a.number + 1])
      BY <1>4 DEF SendRetry
  <2> DEFINE x == [event |-> a.event, endpoint |-> a.endpoint, number |-> a.number + 1]
  <2>2. a \in attempts /\ a \in AttemptRow
      BY DEF IInv, TypeOK, InFlightJustified, RetriesDue
  <2>3. x \in Job /\ x.endpoint = a.endpoint /\ EndpointExists(a.endpoint)
      BY <2>2 DEF AttemptRow, Job, LogThere
  <2>4. /\ UNCHANGED <<events, work, attempts, batch, targets>>
        /\ poller[i] = "resending" /\ poller' = [poller EXCEPT ![i] = "retrying"]
      BY <1>4 DEF SendRetry
  <2>5. JobsThere'
      BY <2>1, <2>3, SendAdds, JobsThereStays DEF IInv
  <2>6. TargetsLeft'
      BY <2>4 DEF TargetsLeft, IInv, TypeOK
  <2>7. NoneStranded'
    <3> SUFFICES ASSUME NEW f \in Event, events[f] = "processing"
                 PROVE  Moving(f)'
        BY <2>4 DEF NoneStranded
    <3>1. \A h \in Instance : SendingFor(h, f) => SendingFor(h, f)'
        BY <2>4 DEF SendingFor, AtHand, IInv, TypeOK
    <3>2. ASSUME NEW h \in Instance, NEW n \in 1..Len(jobs[h]), jobs[h][n].event = f
          PROVE  n \in 1..Len(jobs'[h]) /\ jobs'[h][n].event = f
        BY <2>1, <2>3, <3>2, SendAdds DEF IInv
    <3> QED BY <2>4, <3>1, <3>2 DEF Moving, NoneStranded
  <2> QED BY <2>4, <2>5, <2>6, <2>7, <1>p, <1>w, <1>l
<1>5. ASSUME NEW i \in Instance, NEW k \in Slot, ReceiveJob(i, k)
      PROVE  Kept
  <2>1. /\ jobs[i] \in Seq(Job) /\ jobs[i] # <<>>
        /\ jobs' = [jobs EXCEPT ![i] = Tail(@)]
        /\ work' = [work EXCEPT ![i][k] = [at |-> "delivering", job |-> Head(jobs[i])]]
        /\ work[i][k].at = "idle"
        /\ UNCHANGED <<storeVars, pollerVars>>
      BY <1>5 DEF ReceiveJob, Become, IInv, TypeOK
  <2>2. /\ Head(jobs[i]) = jobs[i][1] /\ 1 \in 1..Len(jobs[i])
        /\ \A n \in 1..Len(Tail(jobs[i])) :
               Tail(jobs[i])[n] = jobs[i][n + 1] /\ n + 1 \in 1..Len(jobs[i])
        /\ \A n \in 1..Len(jobs[i]) :
               n # 1 => n - 1 \in 1..Len(Tail(jobs[i])) /\ Tail(jobs[i])[n - 1] = jobs[i][n]
      BY <2>1
  <2>3. JobsThere'
      BY <2>1, <2>2, JobsThereStays DEF IInv, TypeOK
  <2>4. WorkThere'
      BY <2>1, <2>2, WorkThereStays DEF JobsThere, IInv, TypeOK
  <2>5. NoneStranded'
    <3> SUFFICES ASSUME NEW f \in Event, events[f] = "processing"
                 PROVE  Moving(f)'
        BY <2>1 DEF NoneStranded
    <3>1. \A h \in Instance : SendingFor(h, f) => SendingFor(h, f)'
        BY <2>1 DEF SendingFor, AtHand
    <3>2. ASSUME NEW h \in Instance, NEW n \in 1..Len(jobs[h]), jobs[h][n].event = f
          PROVE  Moving(f)'
      <4>1. CASE h = i /\ n = 1
        <5>1. work'[i][k].at # "idle" /\ work'[i][k].job.event = f
            BY <2>1, <2>2, <3>2, <4>1 DEF IInv, TypeOK
        <5> QED BY <5>1 DEF Moving
      <4>2. CASE h = i /\ n # 1
        <5>1. n - 1 \in 1..Len(jobs'[i]) /\ jobs'[i][n - 1].event = f
            BY <2>1, <2>2, <3>2, <4>2 DEF IInv, TypeOK
        <5> QED BY <5>1 DEF Moving
      <4>3. CASE h # i
        <5>1. n \in 1..Len(jobs'[h]) /\ jobs'[h][n].event = f
            BY <2>1, <3>2, <4>3 DEF IInv, TypeOK
        <5> QED BY <5>1 DEF Moving
      <4> QED BY <4>1, <4>2, <4>3
    <3>3. ASSUME NEW h \in Instance, NEW l \in Slot,
                 work[h][l].at # "idle", work[h][l].job.event = f
          PROVE  work'[h][l] = work[h][l]
        BY <2>1, <3>3 DEF IInv, TypeOK
    <3> QED BY <2>1, <3>1, <3>2, <3>3 DEF Moving, NoneStranded
  <2> QED BY <2>1, <2>3, <2>4, <2>5, <1>p, <1>l, <1>t
<1>6. ASSUME NEW i \in Instance, NEW k \in Slot, Deliver(i, k)
      PROVE  Kept
  <2>1. PICK ok \in BOOLEAN :
            work' = [work EXCEPT ![i][k] = [at |-> "recording", job |-> work[i][k].job, ok |-> ok]]
      BY <1>6 DEF Deliver, Become
  <2>2. work[i][k].at = "delivering" /\ UNCHANGED <<storeVars, pollerVars, jobs>>
      BY <1>6 DEF Deliver
  <2>3. \A h \in Instance, l \in Slot : work[h][l].at # "idle" =>
            work'[h][l].at # "idle" /\ work'[h][l].job = work[h][l].job
      BY <2>1 DEF IInv, TypeOK
  <2>4. WorkThere'
      BY <2>1, <2>2, WorkThereStays DEF IInv, TypeOK
  <2>5. NoneStranded'
      BY <2>2, <2>3 DEF NoneStranded, Moving, SendingFor, AtHand
  <2> QED BY <2>2, <2>4, <2>5, <1>p, <1>j, <1>l, <1>t
<1>7. ASSUME NEW i \in Instance, NEW k \in Slot, RecordAttempt(i, k)
      PROVE  Kept
  <2> DEFINE w == work[i][k]
             row == RowOf(w.job, w.ok)
  <2>1. /\ w.at = "recording" /\ w.job \in Job /\ w.ok \in BOOLEAN
        /\ w = [at |-> "recording", job |-> w.job, ok |-> w.ok]
      BY <1>7, WorkTypes DEF RecordAttempt, IInv, TypeOK
  <2>2. row.event = w.job.event /\ row.endpoint = w.job.endpoint
      BY DEF RowOf
  <2>3. ReferencesExist(row)
      BY <2>1, <2>2 DEF ReferencesExist, WorkThere, IInv, InFlightJustified, WorkSound, Sound
  <2>4. /\ attempts' = attempts \cup {row}
        /\ UNCHANGED <<events, pollerVars, jobs>>
        /\ \/ work' = [work EXCEPT ![i][k] = [at |-> "marking", job |-> w.job, ok |-> w.ok]]
           \/ ~w.ok /\ row.retry # "none" /\ work' = [work EXCEPT ![i][k] = NoWork]
      BY <1>7, <2>1, <2>3 DEF RecordAttempt, CreateDeliveryAttempt, Become
  <2>5. LogThere'
      BY <2>1, <2>2, <2>4, LogThereStays DEF WorkThere
  <2>6. \A h \in Instance, l \in Slot :
            \/ work'[h][l].at = "idle" /\ h = i /\ l = k /\ row.retry # "none"
            \/ work'[h][l] = work[h][l]
            \/ work'[h][l].at # "idle" /\ work'[h][l].job = work[h][l].job /\ h = i /\ l = k
      BY <2>4 DEF NoWork, IInv, TypeOK
  <2>7. WorkThere'
      BY <2>1, <2>6, WorkThereStays
  <2>8. NoneStranded'
    <3> SUFFICES ASSUME NEW f \in Event, events[f] = "processing"
                 PROVE  Moving(f)'
        BY <2>4 DEF NoneStranded
    <3>1. \A h \in Instance : SendingFor(h, f) => SendingFor(h, f)'
        BY <2>4 DEF SendingFor, AtHand
    <3>2. ASSUME NEW h \in Instance, NEW l \in Slot,
                 work[h][l].at # "idle", work[h][l].job.event = f
          PROVE  \/ work'[h][l].at # "idle" /\ work'[h][l].job.event = f
                 \/ row \in attempts' /\ row.event = f /\ row.retry # "none"
        BY <2>1, <2>2, <2>4, <2>6, <3>2
    <3> QED BY <2>4, <3>1, <3>2 DEF Moving, NoneStranded
  <2> QED BY <2>4, <2>5, <2>7, <2>8, <1>p, <1>j, <1>t
<1>8. ASSUME NEW i \in Instance, NEW k \in Slot, MarkEvent(i, k)
      PROVE  Kept
  <2> DEFINE w == work[i][k]
             s == IF w.ok THEN "delivered" ELSE "dead"
  <2>1. /\ work' = [work EXCEPT ![i][k] = NoWork]
        /\ UpdateEventStatus(w.job.event, s) /\ w.at = "marking"
        /\ UNCHANGED <<attempts, pollerVars, jobs>>
      BY <1>8 DEF MarkEvent, Become, UpdateEventStatus
  <2>2. w.job.event \in Event /\ EventExists(w.job.event)
      BY <2>1, WorkTypes DEF IInv, TypeOK, Job, InFlightJustified, WorkSound, Sound
  <2>3. WorkThere'
      BY <2>1, WorkThereStays DEF NoWork, IInv, TypeOK
  <2>4. NoneStranded'
    <3> SUFFICES ASSUME NEW f \in Event, events'[f] = "processing"
                 PROVE  Moving(f)'
        BY DEF NoneStranded
    <3>1. f # w.job.event /\ events[f] = "processing"
        BY <2>1, <2>2 DEF UpdateEventStatus, IInv, TypeOK, StoreTypeOK
    <3>2. \A h \in Instance : SendingFor(h, f) => SendingFor(h, f)'
        BY <2>1 DEF SendingFor, AtHand
    <3>3. ASSUME NEW h \in Instance, NEW l \in Slot,
                 work[h][l].at # "idle", work[h][l].job.event = f
          PROVE  work'[h][l] = work[h][l]
        BY <2>1, <3>1, <3>3 DEF IInv, TypeOK
    <3> QED BY <2>1, <3>1, <3>2, <3>3 DEF Moving, NoneStranded
  <2> QED BY <2>1, <2>3, <2>4, <1>p, <1>j, <1>l, <1>t
<1>9. ASSUME ClientRequest
      PROVE  Kept
  <2>1. UNCHANGED <<attempts, pollerVars, jobs, work>>
      BY <1>9, ClientRequestKeeps
  <2>2. \A f \in Event : events'[f] = "processing" => events[f] = "processing"
    <3>1. CASE \E e \in Event : CreateEvent(e) \/ ReplayEvent(e)
        BY <3>1 DEF CreateEvent, ReplayEvent, UpdateEventStatus, IInv, TypeOK, StoreTypeOK
    <3>2. CASE BulkReplayDeadEvents \/ PurgeDeadEvents
        BY <3>2 DEF BulkReplayDeadEvents, PurgeDeadEvents
    <3> QED BY <1>9, <3>1, <3>2, ClientRequestCases
            DEF CreateEndpoint, UpdateEndpoint, DeleteEndpoint
  <2>3. NoneStranded'
      BY <2>1, <2>2 DEF NoneStranded, Moving, SendingFor, AtHand
  <2> QED BY <2>1, <2>3, <1>p, <1>j, <1>w, <1>l, <1>t
<1>10. ASSUME NEW a \in attempts, TimePasses(a)
       PROVE  Kept
  <2> DEFINE due == [a EXCEPT !.retry = "due"]
  <2>1. /\ attempts' = (attempts \ {a}) \cup {due}
        /\ UNCHANGED <<events, pollerVars, jobs, work>>
      BY <1>10 DEF TimePasses, BackoffElapses
  <2>2. due.event = a.event /\ due.endpoint = a.endpoint /\ due.retry = "due"
      BY DEF IInv, TypeOK, StoreTypeOK, AttemptRow
  <2>3. LogThere'
      BY <2>1, <2>2, LogThereStays
  <2>4. \A b \in attempts : \/ b \in attempts'
                            \/ due \in attempts' /\ due.event = b.event /\ due.retry # "none"
      BY <2>1, <2>2
  <2>5. NoneStranded'
      BY <2>1, <2>4 DEF NoneStranded, Moving, SendingFor, AtHand
  <2> QED BY <2>1, <2>3, <2>5, <1>p, <1>j, <1>w, <1>t
<1>11. ASSUME UNCHANGED vars
       PROVE  Kept
  <2>1. NoneStranded'
      BY <1>11 DEF vars, NoneStranded, Moving, SendingFor, AtHand
  <2> QED BY <1>11, <2>1, <1>p, <1>j, <1>w, <1>l, <1>t DEF vars
<1>12. Kept
    BY <1>1, <1>2, <1>3, <1>4, <1>5, <1>6, <1>7, <1>8, <1>9, <1>10, <1>11, UndisturbedSteps
       DEF PollerProceeds, WorkerProceeds
<1> QED BY <1>i, <1>12

LEMMA NoneStrandedIsEnough ==
    ASSUME TypeOK, NoneStranded
    PROVE  NoStrandedEvent
<1>1. ASSUME NEW i \in Instance, NEW n \in 1..Len(jobs[i])
      PROVE  n \in 1..Capacity /\ n <= Len(jobs[i])
    BY ConcurrencyIsNat DEF TypeOK, Capacity
<1> QED BY <1>1 DEF NoneStranded, NoStrandedEvent, Moving, SendingFor

\* An event in processing always has something left that moves it on, with any
\* number of instances and through replays and purges, as long as no statement
\* fails, no process dies and no endpoint is deleted (pollPendingEvents marks an
\* event only when it has jobs to send for it, processJob schedules a retry or
\* marks the event).
THEOREM NoEventStranded ==
    ASSUME NothingFails
    PROVE  Spec => []NoStrandedEvent
<1>1. Init => SInv
    BY SInvInit
<1>2. SInv /\ [Next]_vars => SInv'
    BY SInvStep
<1>3. SInv => NoStrandedEvent
    BY NoneStrandedIsEnough DEF SInv, IInv
<1> QED BY <1>1, <1>2, <1>3, PTL DEF Spec
=============================================================================
