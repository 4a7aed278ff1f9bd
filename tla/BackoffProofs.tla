--------------------------- MODULE BackoffProofs ---------------------------
(***************************************************************************)
(* Proofs about the delays between attempts, for every schedule of delays  *)
(* that grows, every MAX_RETRIES, and any number of instances.             *)
(***************************************************************************)
EXTENDS Backoff, PipelineProofs

(***************************************************************************)
(* The clock adds no behaviour to the pipeline.                            *)
(***************************************************************************)
LEMMA BackoffStepIsPipelineStep ==
    ASSUME [BackoffNext]_backoffVars
    PROVE  [Next]_vars
BY DEF BackoffNext, backoffVars, Untimed, DeliverAt, RecordAt, DropAt, DelayPasses, Tick,
       Next, WorkerStep, WorkerProceeds

\* Timed steps are steps of the pipeline, so what is proved of it holds.
THEOREM BackoffImplementsPipeline == BackoffSpec => Spec
<1>1. BackoffInit => Init
    BY DEF BackoffInit
<1>2. [BackoffNext]_backoffVars => [Next]_vars
    BY BackoffStepIsPipelineStep
<1> QED BY <1>1, <1>2, PTL DEF BackoffSpec, Spec

(***************************************************************************)
(* The table of delays.                                                    *)
(***************************************************************************)
\* The index stays within the table, on both sides.
LEMMA DelayType ==
    ASSUME NEW n \in Nat
    PROVE  NextRetryDelay(n) \in Nat
BY DelaysGrow DEF NextRetryDelay

\* The delay after an attempt is none of the shorter ones before it.
LEMMA DelayIsLongEnough ==
    ASSUME NEW n \in Nat \ {0}, NEW m \in 1..Len(Delays), m <= n
    PROVE  Delays[m] <= NextRetryDelay(n)
BY DelaysGrow DEF NextRetryDelay

\* What an insert adds to the schedule.
LEMMA ScheduledRow ==
    ASSUME TypeOK, BackoffTypeOK, NEW i \in Instance, NEW k \in Slot,
           work[i][k].at = "recording", NEW f \in Scheduled(i, k)
    PROVE  /\ f \in Failure
           /\ SamePair(f, work[i][k].job) /\ f.number = work[i][k].job.number
           /\ f.made = finished[i][k] /\ f.made <= now
           /\ f.at = f.made + NextRetryDelay(f.number)
<1> DEFINE j == work[i][k].job
<1>1. j \in Job /\ finished[i][k] \in Nat /\ finished[i][k] <= now
    BY WorkTypes DEF TypeOK, BackoffTypeOK
<1>2. j.event \in Event /\ j.endpoint \in Endpoint /\ j.number \in Nat \ {0}
    BY <1>1 DEF Job
<1>3. NextRetryDelay(j.number) \in Nat
    BY <1>2, DelayType
<1>4. f = [event |-> j.event, endpoint |-> j.endpoint, number |-> j.number,
           made |-> finished[i][k], at |-> finished[i][k] + NextRetryDelay(j.number)]
    BY DEF Scheduled
<1> QED BY <1>1, <1>2, <1>3, <1>4 DEF Failure, SamePair

\* The schedule only grows, by what one worker inserts.
LEMMA ScheduleGrows ==
    ASSUME [BackoffNext]_backoffVars
    PROVE  /\ schedule \subseteq schedule'
           /\ \A f \in schedule' \ schedule :
                 \E i \in Instance, k \in Slot : /\ work[i][k].at = "recording"
                                                 /\ f \in Scheduled(i, k)
BY DEF BackoffNext, backoffVars, clockVars, Untimed, DeliverAt, RecordAt, RecordAttempt, DropAt,
       DelayPasses, Tick

\* Time does not go back, and a worker's POST is over now or was before.
LEMMA TimeGoesOn ==
    ASSUME BackoffTypeOK, [BackoffNext]_backoffVars
    PROVE  /\ now' \in 0..MaxTime /\ now <= now'
           /\ finished' \in [Instance -> [Slot -> 0..now']]
<1> USE DEF BackoffTypeOK
<1>1. CASE UNCHANGED <<now, finished>>
    BY <1>1, MaxTimeIsNat
<1>2. CASE Tick
    BY <1>2, MaxTimeIsNat DEF Tick
<1>3. ASSUME NEW i \in Instance, NEW k \in Slot, DeliverAt(i, k)
      PROVE  UNCHANGED now /\ finished' \in [Instance -> [Slot -> 0..now]]
    BY <1>3, MaxTimeIsNat DEF DeliverAt
<1> QED BY <1>1, <1>2, <1>3, MaxTimeIsNat
        DEF BackoffNext, backoffVars, clockVars, Untimed, RecordAt, DropAt, DelayPasses

LEMMA BackoffTypeStep ==
    ASSUME TypeOK, BackoffTypeOK, [BackoffNext]_backoffVars
    PROVE  BackoffTypeOK'
<1>1. \A f \in schedule' : f \in Failure /\ f.made <= now
    BY ScheduledRow, ScheduleGrows DEF BackoffTypeOK
<1>2. \A f \in schedule' : f.made <= now'
    BY <1>1, TimeGoesOn, MaxTimeIsNat DEF BackoffTypeOK, Failure
<1> QED BY <1>1, <1>2, TimeGoesOn DEF BackoffTypeOK

\* No step of any process stores a time that has not come.
THEOREM BackoffTypeCorrect == BackoffSpec => []BackoffTypeOK
<1>1. BackoffInit => BackoffTypeOK
    BY MaxTimeIsNat DEF BackoffInit, BackoffTypeOK
<1>2. TypeOK /\ BackoffTypeOK /\ [BackoffNext]_backoffVars => BackoffTypeOK'
    BY BackoffTypeStep
<1> QED BY <1>1, <1>2, BackoffImplementsPipeline, TypeCorrect, PTL DEF BackoffSpec

(***************************************************************************)
(* No retry is early.                                                      *)
(***************************************************************************)
\* A row is due because a time stored for it has come.
DueReached ==
    \A a \in attempts : a.retry = "due" => \E f \in schedule : StoredFor(f, a) /\ f.at <= now

\* The times stored are those of the table.
TimesStored == \A f \in schedule : f.at = f.made + NextRetryDelay(f.number)

\* A POST that is over, and not yet recorded, was not early.
PostsWaited ==
    \A i \in Instance, k \in Slot :
        LET w == work[i][k]
        IN  w.at = "recording" => w.job.number = 1 \/ FollowsIn(w.job, finished[i][k])

RetriesWaited == \A i \in Instance : \A a \in retries[i] :
                     \E f \in schedule : StoredFor(f, a) /\ WaitedOut(f, now)
JobsWaited == \A i \in Instance : \A n \in 1..Len(jobs[i]) :
                  jobs[i][n].number = 1 \/ FollowsIn(jobs[i][n], now)
WorkWaited == \A i \in Instance, k \in Slot :
                  work[i][k].at # "idle" =>
                      work[i][k].job.number = 1 \/ FollowsIn(work[i][k].job, now)
LogSpaced == \A f \in schedule : f.number = 1 \/ FollowsIn(f, f.made)

BInv == /\ BackoffTypeOK /\ TimesStored /\ DueReached
        /\ RetriesWaited /\ JobsWaited /\ WorkWaited /\ PostsWaited /\ LogSpaced

\* A failure whose time has come has waited out every delay up to its own.
LEMMA ReachedIsWaitedOut ==
    ASSUME BackoffTypeOK, TimesStored, NEW f \in schedule, f.at <= now
    PROVE  WaitedOut(f, now)
<1>1. /\ f.number \in Nat \ {0} /\ f.made \in Nat /\ now \in Nat
      /\ f.at = f.made + NextRetryDelay(f.number)
    BY MaxTimeIsNat DEF BackoffTypeOK, TimesStored, Failure
<1>2. ASSUME NEW m \in 1..Len(Delays), m <= f.number
      PROVE  f.made + Delays[m] <= now
  <2>1. Delays[m] <= NextRetryDelay(f.number)
      BY <1>1, <1>2, DelayIsLongEnough
  <2>2. Delays[m] \in Nat
      BY DelaysGrow
  <2>3. f.number \in Nat
      BY <1>1
  <2>4. NextRetryDelay(f.number) \in Nat
      BY <2>3, DelayType
  <2> QED BY <1>1, <2>1, <2>2, <2>4
<1> QED BY <1>2 DEF WaitedOut

\* What has been waited out stays so.
LEMMA WaitedOutStays ==
    ASSUME NEW f \in Failure, NEW t \in Nat, NEW u \in Nat, t <= u, WaitedOut(f, t)
    PROVE  WaitedOut(f, u)
<1> SUFFICES ASSUME NEW m \in 1..Len(Delays), m <= f.number
             PROVE  f.made + Delays[m] <= u
    BY DEF WaitedOut
<1>1. f.made \in Nat /\ Delays[m] \in Nat
    BY DelaysGrow DEF Failure
<1>2. f.made + Delays[m] <= t
    BY DEF WaitedOut
<1> QED BY <1>1, <1>2

\* What follows a failure in time still does after any step.
LEMMA FollowsStays ==
    ASSUME BackoffTypeOK, [BackoffNext]_backoffVars, NEW x, NEW t \in Nat, NEW u \in Nat,
           t <= u, FollowsIn(x, t)
    PROVE  \E f \in schedule' : /\ SamePair(f, x) /\ x.number = f.number + 1
                                /\ WaitedOut(f, u)
<1>1. PICK f \in schedule : SamePair(f, x) /\ x.number = f.number + 1 /\ WaitedOut(f, t)
    BY DEF FollowsIn
<1>2. f \in Failure
    BY DEF BackoffTypeOK
<1>3. WaitedOut(f, u)
    BY <1>1, <1>2, WaitedOutStays
<1> QED BY <1>1, <1>3, ScheduleGrows

\* The job that retries row a.
RetryOf(a) == [event |-> a.event, endpoint |-> a.endpoint, number |-> a.number + 1]

\* Where the rows, jobs and work of a step without a clock come from.
LEMMA UntimedMoves ==
    ASSUME TypeOK, Untimed
    PROVE  /\ UNCHANGED attempts
           /\ \A i \in Instance : \A a \in retries'[i] :
                 a \in retries[i] \/ (a \in attempts /\ a.retry = "due")
           /\ \A i \in Instance : \A n \in 1..Len(jobs'[i]) :
                 \/ jobs'[i][n].number = 1
                 \/ \E m \in 1..Len(jobs[i]) : jobs'[i][n] = jobs[i][m]
                 \/ \E a \in retries[i] : jobs'[i][n] = RetryOf(a)
           /\ \A i \in Instance, k \in Slot :
                 \/ work'[i][k] = work[i][k] \/ work'[i][k] = NoWork
                 \/ \E m \in 1..Len(jobs[i]) :
                       work'[i][k] = [at |-> "delivering", job |-> jobs[i][m]]
<1> DEFINE Rows == \A i \in Instance : \A a \in retries'[i] :
                       a \in retries[i] \/ (a \in attempts /\ a.retry = "due")
           Sent == \A i \in Instance : \A n \in 1..Len(jobs'[i]) :
                       \/ jobs'[i][n].number = 1
                       \/ \E m \in 1..Len(jobs[i]) : jobs'[i][n] = jobs[i][m]
                       \/ \E a \in retries[i] : jobs'[i][n] = RetryOf(a)
           Busy == \A i \in Instance, k \in Slot :
                       \/ work'[i][k] = work[i][k] \/ work'[i][k] = NoWork
                       \/ \E m \in 1..Len(jobs[i]) :
                             work'[i][k] = [at |-> "delivering", job |-> jobs[i][m]]
           Moves == UNCHANGED attempts /\ Rows /\ Sent /\ Busy
           Same == UNCHANGED <<attempts, retries, jobs, work>>
<1> USE DEF storeVars, pollerVars, UpdateEventStatus
<1>u. /\ UNCHANGED retries => Rows
      /\ UNCHANGED jobs => Sent
      /\ UNCHANGED work => Busy
    OBVIOUS
<1>v. ASSUME NEW i \in Instance, NEW R \in SUBSET retries[i],
             retries' = [retries EXCEPT ![i] = R]
      PROVE  Rows
    BY <1>v DEF TypeOK
<1>1. CASE Same
    BY <1>1, <1>u
<1>2. ASSUME NEW i \in Instance, PollRetryableAttempts(i)
      PROVE  Moves
  <2>1. UNCHANGED <<attempts, jobs, work>> /\ retries' = [retries EXCEPT ![i] = GetRetryableAttempts]
      BY <1>2 DEF PollRetryableAttempts
  <2>2. Rows
      BY <2>1, QueryTypes DEF TypeOK
  <2> QED BY <2>1, <2>2, <1>u
<1>3. ASSUME NEW i \in Instance, LookUpRetry(i) \/ SkipRetry(i)
      PROVE  Moves
  <2>1. UNCHANGED <<attempts, jobs, work>>
      BY <1>3 DEF LookUpRetry, SkipRetry
  <2>2. UNCHANGED retries \/ \E R \in SUBSET retries[i] : retries' = [retries EXCEPT ![i] = R]
      BY <1>3 DEF LookUpRetry, SkipRetry
  <2> QED BY <2>1, <2>2, <1>u, <1>v
<1>4. ASSUME NEW i \in Instance, NEW j \in Job, Send(i, j)
      PROVE  \A h \in Instance : \A n \in 1..Len(jobs'[h]) :
                 \/ jobs'[h][n] = j /\ h = i
                 \/ n \in 1..Len(jobs[h]) /\ jobs'[h][n] = jobs[h][n]
  <2>1. jobs[i] \in Seq(Job) /\ jobs' = [jobs EXCEPT ![i] = Append(jobs[i], j)]
      BY <1>4 DEF Send, TypeOK
  <2>2. \A n \in 1..Len(Append(jobs[i], j)) :
            \/ Append(jobs[i], j)[n] = j
            \/ n \in 1..Len(jobs[i]) /\ Append(jobs[i], j)[n] = jobs[i][n]
      BY <2>1
  <2> QED BY <2>1, <2>2 DEF TypeOK
<1>5. ASSUME NEW i \in Instance, SendFirstAttempt(i)
      PROVE  Moves
  <2>1. PICK j \in Job : Send(i, j) /\ j.number = 1
    <3>1. PICK e \in Event, p \in Endpoint :
              Send(i, [event |-> e, endpoint |-> p, number |-> 1])
        BY <1>5 DEF SendFirstAttempt, TypeOK
    <3>2. [event |-> e, endpoint |-> p, number |-> 1] \in Job
        BY DEF Job
    <3> QED BY <3>1, <3>2
  <2>2. Sent
      BY <1>4, <2>1
  <2>3. UNCHANGED <<attempts, retries, work>>
      BY <1>5 DEF SendFirstAttempt
  <2> QED BY <2>2, <2>3, <1>u
<1>6. ASSUME NEW i \in Instance, SendRetry(i)
      PROVE  Moves
  <2>1. PICK a \in retries[i] : /\ Send(i, RetryOf(a))
                                /\ retries' = [retries EXCEPT ![i] = retries[i] \ {a}]
      BY <1>6 DEF SendRetry, RetryOf
  <2>2. RetryOf(a) \in Job
      BY DEF TypeOK, AttemptRow, Job, RetryOf
  <2>3. Sent
      BY <1>4, <2>1, <2>2
  <2>4. UNCHANGED <<attempts, work>>
      BY <1>6 DEF SendRetry
  <2> QED BY <2>1, <2>3, <2>4, <1>u, <1>v
<1>7. ASSUME NEW i \in Instance, Crash(i)
      PROVE  Moves
  <2>1. /\ UNCHANGED attempts
        /\ retries' = [retries EXCEPT ![i] = {}]
        /\ jobs' = [jobs EXCEPT ![i] = <<>>]
        /\ work' = [work EXCEPT ![i] = [k \in Slot |-> NoWork]]
      BY <1>7 DEF Crash
  <2>2. Rows
      BY <2>1, <1>v
  <2>3. Sent /\ Busy
      BY <2>1 DEF TypeOK
  <2> QED BY <2>1, <2>2, <2>3
<1>8. ASSUME NEW i \in Instance, NEW k \in Slot, ReceiveJob(i, k)
      PROVE  Moves
  <2>1. /\ UNCHANGED <<attempts, retries>>
        /\ jobs[i] # <<>> /\ jobs' = [jobs EXCEPT ![i] = Tail(jobs[i])]
        /\ work' = [work EXCEPT ![i][k] = [at |-> "delivering", job |-> Head(jobs[i])]]
      BY <1>8 DEF ReceiveJob, Become
  <2>2. /\ jobs[i] \in Seq(Job) /\ 1 \in 1..Len(jobs[i]) /\ Head(jobs[i]) = jobs[i][1]
        /\ \A n \in 1..Len(Tail(jobs[i])) :
               n + 1 \in 1..Len(jobs[i]) /\ Tail(jobs[i])[n] = jobs[i][n + 1]
      BY <2>1 DEF TypeOK
  <2>3. Sent
      BY <2>1, <2>2 DEF TypeOK
  <2>4. Busy
      BY <2>1, <2>2 DEF TypeOK
  <2> QED BY <2>1, <2>3, <2>4, <1>u
<1>9. ASSUME NEW i \in Instance, NEW k \in Slot, MarkEvent(i, k)
      PROVE  Moves
  <2>1. UNCHANGED <<attempts, retries, jobs>> /\ work' = [work EXCEPT ![i][k] = NoWork]
      BY <1>9 DEF MarkEvent, Become
  <2>2. Busy
      BY <2>1 DEF TypeOK
  <2> QED BY <2>1, <2>2, <1>u
<1>10. ASSUME ClientRequest
       PROVE  Same
    BY <1>10, ClientRequestCases
       DEF CreateEvent, ReplayEvent, BulkReplayDeadEvents, PurgeDeadEvents, CreateEndpoint,
           UpdateEndpoint, DeleteEndpoint
<1>11. ASSUME NEW i \in Instance, PollerStep(i)
       PROVE  \/ Same \/ PollRetryableAttempts(i) \/ LookUpRetry(i) \/ SkipRetry(i)
              \/ SendFirstAttempt(i) \/ SendRetry(i)
    BY <1>11 DEF PollerStep, PollerProceeds, PollerFails, PollPendingEvents, FindEndpoints,
                 ClaimEvent, PollFails, SkipEvent
<1> QED BY <1>1, <1>2, <1>3, <1>5, <1>6, <1>7, <1>8, <1>9, <1>10, <1>11 DEF Untimed

\* The other steps leave the poller's rows and the channel alone.
LEMMA TimedKeeps ==
    ASSUME [BackoffNext]_backoffVars
    PROVE  Untimed \/ UNCHANGED <<retries, jobs>>
<1>1. ASSUME NEW i \in Instance, NEW k \in Slot, DeliverAt(i, k) \/ RecordAt(i, k) \/ DropAt(i, k)
      PROVE  UNCHANGED pollerVars /\ UNCHANGED jobs
    BY <1>1 DEF DeliverAt, Deliver, RecordAt, RecordAttempt, DropAt, DropJob
<1>2. ASSUME NEW a \in attempts, DelayPasses(a)
      PROVE  UNCHANGED pollerVars /\ UNCHANGED jobs
    BY <1>2 DEF DelayPasses, TimePasses
<1>3. CASE Tick \/ UNCHANGED backoffVars
    BY <1>3 DEF Tick, backoffVars, vars, pollerVars
<1> QED BY <1>1, <1>2, <1>3 DEF BackoffNext, pollerVars

\* A row is due before a step, or the step has found its time reached.
LEMMA DueMoves ==
    ASSUME TypeOK, [BackoffNext]_backoffVars, NEW a \in attempts', a.retry = "due"
    PROVE  \/ a \in attempts
           \/ \E b \in attempts : Reached(b) /\ a = [b EXCEPT !.retry = "due"]
<1>1. CASE UNCHANGED attempts
    BY <1>1
<1>2. ASSUME NEW i \in Instance, NEW k \in Slot,
             RecordAt(i, k) \/ DropAt(i, k)
      PROVE  attempts' \subseteq attempts \cup {RowAtHand(i, k)}
    BY <1>2 DEF RecordAt, RecordAttempt, DropAt, CreateDeliveryAttempt, RowAtHand, storeVars
<1>3. ASSUME NEW i \in Instance, NEW k \in Slot
      PROVE  RowAtHand(i, k).retry # "due"
    BY DEF RowAtHand, RowOf, NextRetryAt
<1>4. ASSUME NEW b \in attempts, DelayPasses(b)
      PROVE  Reached(b) /\ attempts' = (attempts \ {b}) \cup {[b EXCEPT !.retry = "due"]}
    BY <1>4 DEF DelayPasses, TimePasses, BackoffElapses
<1>5. ASSUME NEW i \in Instance, NEW k \in Slot, DeliverAt(i, k)
      PROVE  UNCHANGED attempts
    BY <1>5 DEF DeliverAt, Deliver, storeVars
<1> QED BY <1>1, <1>2, <1>3, <1>4, <1>5, UntimedMoves
        DEF BackoffNext, backoffVars, vars, storeVars, Tick

\* A worker goes on with its job, and the end of its POST is remembered.
LEMMA WorkMoves ==
    ASSUME TypeOK, BackoffTypeOK, [BackoffNext]_backoffVars, NEW i \in Instance, NEW k \in Slot
    PROVE  \/ work'[i][k] = NoWork
           \/ \E m \in 1..Len(jobs[i]) : work'[i][k] = [at |-> "delivering", job |-> jobs[i][m]]
           \/ work'[i][k] = work[i][k] /\ finished'[i][k] = finished[i][k]
           \/ /\ work[i][k].at # "idle" /\ work'[i][k].job = work[i][k].job
              /\ work'[i][k].at = "marking" \/ finished'[i][k] = now
<1> DEFINE Moves ==
           \/ work'[i][k] = NoWork
           \/ \E m \in 1..Len(jobs[i]) : work'[i][k] = [at |-> "delivering", job |-> jobs[i][m]]
           \/ work'[i][k] = work[i][k] /\ finished'[i][k] = finished[i][k]
           \/ /\ work[i][k].at # "idle" /\ work'[i][k].job = work[i][k].job
              /\ work'[i][k].at = "marking" \/ finished'[i][k] = now
<1>1. CASE UNCHANGED <<work, finished>>
    BY <1>1
<1>2. CASE Untimed
    BY <1>2, UntimedMoves DEF Untimed, clockVars
<1>3. ASSUME NEW h \in Instance, NEW l \in Slot, DeliverAt(h, l)
      PROVE  Moves
  <2>1. PICK ok \in BOOLEAN :
            work' = [work EXCEPT ![h][l] = [at |-> "recording", job |-> work[h][l].job, ok |-> ok]]
      BY <1>3 DEF DeliverAt, Deliver, Become
  <2>2. work[h][l].at # "idle" /\ finished' = [finished EXCEPT ![h][l] = now]
      BY <1>3 DEF DeliverAt, Deliver
  <2> QED BY <2>1, <2>2 DEF TypeOK, BackoffTypeOK
<1>4. ASSUME NEW h \in Instance, NEW l \in Slot, RecordAt(h, l)
      PROVE  Moves
  <2>1. /\ work[h][l].at = "recording" /\ UNCHANGED finished
        /\ \/ work' = [work EXCEPT ![h][l] = [work[h][l] EXCEPT !.at = "marking"]]
           \/ work' = [work EXCEPT ![h][l] = NoWork]
      BY <1>4 DEF RecordAt, RecordAttempt, Become
  <2>2. work[h][l] \in [at : {"recording", "marking"}, job : Job, ok : BOOLEAN]
      BY <2>1 DEF TypeOK, Work, NoWork
  <2> DEFINE m == [work[h][l] EXCEPT !.at = "marking"]
  <2>3. m.at = "marking" /\ m.job = work[h][l].job
      BY <2>2
  <2>4. CASE work' = [work EXCEPT ![h][l] = m]
    <3>1. work'[i][k] = IF i = h /\ k = l THEN m ELSE work[i][k]
        BY <2>4 DEF TypeOK
    <3> QED BY <2>1, <2>3, <3>1
  <2>5. CASE work' = [work EXCEPT ![h][l] = NoWork]
      BY <2>1, <2>5 DEF TypeOK
  <2> QED BY <2>1, <2>4, <2>5
<1>5. ASSUME NEW h \in Instance, NEW l \in Slot, DropAt(h, l)
      PROVE  Moves
    BY <1>5 DEF DropAt, DropJob, Become, TypeOK
<1> QED BY <1>1, <1>2, <1>3, <1>4, <1>5
        DEF BackoffNext, backoffVars, vars, clockVars, DelayPasses, TimePasses, Tick

\* A time that has come is still in the schedule after any step, and has come.
LEMMA ReachedStays ==
    ASSUME BackoffTypeOK, [BackoffNext]_backoffVars, NEW f \in schedule, f.at <= now
    PROVE  f \in schedule' /\ f.at <= now'
BY ScheduleGrows, TimeGoesOn, MaxTimeIsNat DEF BackoffTypeOK, Failure

LEMMA DueReachedStep ==
    ASSUME TypeOK, BackoffTypeOK, DueReached, [BackoffNext]_backoffVars
    PROVE  DueReached'
<1> SUFFICES ASSUME NEW a \in attempts', a.retry = "due"
             PROVE  \E f \in schedule' : StoredFor(f, a) /\ f.at <= now'
    BY DEF DueReached, StoredFor
<1>1. CASE a \in attempts
    BY <1>1, ReachedStays DEF DueReached
<1>2. ASSUME NEW b \in attempts, Reached(b), a = [b EXCEPT !.retry = "due"]
      PROVE  \E f \in schedule' : StoredFor(f, a) /\ f.at <= now'
  <2>1. a.event = b.event /\ a.endpoint = b.endpoint /\ a.number = b.number
      BY <1>2 DEF TypeOK, StoreTypeOK, AttemptRow
  <2> QED BY <1>2, <2>1, ReachedStays DEF Reached, StoredFor, SamePair
<1> QED BY <1>1, <1>2, DueMoves

LEMMA TimesStoredStep ==
    ASSUME TypeOK, BackoffTypeOK, TimesStored, [BackoffNext]_backoffVars
    PROVE  TimesStored'
<1>1. \A f \in schedule' : f.at = f.made + NextRetryDelay(f.number)
    BY ScheduleGrows, ScheduledRow DEF TimesStored
<1> QED BY <1>1 DEF TimesStored, NextRetryDelay

LEMMA RetriesWaitedStep ==
    ASSUME TypeOK, BackoffTypeOK, TimesStored, DueReached, RetriesWaited,
           [BackoffNext]_backoffVars
    PROVE  RetriesWaited'
<1> SUFFICES ASSUME NEW i \in Instance, NEW a \in retries'[i]
             PROVE  \E f \in schedule' : StoredFor(f, a) /\ WaitedOut(f, now')
    BY DEF RetriesWaited, StoredFor, WaitedOut
<1>1. a \in retries[i] \/ (a \in attempts /\ a.retry = "due")
    BY TimedKeeps, UntimedMoves
<1>2. PICK f \in schedule : StoredFor(f, a) /\ WaitedOut(f, now)
  <2>1. CASE a \in retries[i]
      BY <2>1 DEF RetriesWaited
  <2>2. CASE a \in attempts /\ a.retry = "due"
      BY <2>2, ReachedIsWaitedOut DEF DueReached
  <2> QED BY <1>1, <2>1, <2>2
<1>3. f \in Failure /\ now \in Nat /\ now' \in Nat /\ now <= now'
    BY TimeGoesOn, MaxTimeIsNat DEF BackoffTypeOK
<1>4. WaitedOut(f, now')
    BY <1>2, <1>3, WaitedOutStays
<1> QED BY <1>2, <1>4, ScheduleGrows

\* A job with a number above one follows a failure now, or did.
LEMMA FollowsOn ==
    ASSUME BackoffTypeOK, [BackoffNext]_backoffVars, NEW x, FollowsIn(x, now)
    PROVE  \E f \in schedule' : /\ SamePair(f, x) /\ x.number = f.number + 1
                                /\ WaitedOut(f, now')
<1>1. now \in Nat /\ now' \in Nat /\ now <= now'
    BY TimeGoesOn, MaxTimeIsNat DEF BackoffTypeOK
<1> QED BY <1>1, FollowsStays

LEMMA RetryFollows ==
    ASSUME RetriesWaited, NEW i \in Instance, NEW a \in retries[i]
    PROVE  FollowsIn(RetryOf(a), now)
BY DEF RetriesWaited, RetryOf, FollowsIn, StoredFor, SamePair

LEMMA JobsWaitedStep ==
    ASSUME TypeOK, BackoffTypeOK, RetriesWaited, JobsWaited, [BackoffNext]_backoffVars
    PROVE  JobsWaited'
<1> SUFFICES ASSUME NEW i \in Instance, NEW n \in 1..Len(jobs'[i]), jobs'[i][n].number # 1
             PROVE  \E f \in schedule' : /\ SamePair(f, jobs'[i][n])
                                         /\ jobs'[i][n].number = f.number + 1
                                         /\ WaitedOut(f, now')
    BY DEF JobsWaited, FollowsIn, WaitedOut
<1>1. FollowsIn(jobs'[i][n], now)
    BY TimedKeeps, UntimedMoves, RetryFollows DEF JobsWaited
<1> QED BY <1>1, FollowsOn

LEMMA WorkWaitedStep ==
    ASSUME TypeOK, BackoffTypeOK, JobsWaited, WorkWaited, [BackoffNext]_backoffVars
    PROVE  WorkWaited'
<1> SUFFICES ASSUME NEW i \in Instance, NEW k \in Slot,
                    work'[i][k].at # "idle", work'[i][k].job.number # 1
             PROVE  \E f \in schedule' : /\ SamePair(f, work'[i][k].job)
                                         /\ work'[i][k].job.number = f.number + 1
                                         /\ WaitedOut(f, now')
    BY DEF WorkWaited, FollowsIn, WaitedOut
<1>1. FollowsIn(work'[i][k].job, now)
  <2>1. CASE work'[i][k] = NoWork
      BY <2>1 DEF NoWork
  <2>2. ASSUME NEW m \in 1..Len(jobs[i]),
               work'[i][k] = [at |-> "delivering", job |-> jobs[i][m]]
        PROVE  FollowsIn(work'[i][k].job, now)
    <3>1. work'[i][k].job = jobs[i][m]
        BY <2>2
    <3> QED BY <3>1 DEF JobsWaited
  <2>3. CASE work[i][k].at # "idle" /\ work'[i][k].job = work[i][k].job
      BY <2>3 DEF WorkWaited
  <2> QED BY <2>1, <2>2, <2>3, WorkMoves
<1> QED BY <1>1, FollowsOn

LEMMA PostsWaitedStep ==
    ASSUME TypeOK, BackoffTypeOK, WorkWaited, PostsWaited, [BackoffNext]_backoffVars
    PROVE  PostsWaited'
<1> SUFFICES ASSUME NEW i \in Instance, NEW k \in Slot,
                    work'[i][k].at = "recording", work'[i][k].job.number # 1
             PROVE  \E f \in schedule' : /\ SamePair(f, work'[i][k].job)
                                         /\ work'[i][k].job.number = f.number + 1
                                         /\ WaitedOut(f, finished'[i][k])
    BY DEF PostsWaited, FollowsIn, WaitedOut
<1>1. FollowsIn(work'[i][k].job, finished'[i][k])
  <2>1. work'[i][k] # NoWork
      BY DEF NoWork
  <2>2. \A j : work'[i][k] # [at |-> "delivering", job |-> j]
      OBVIOUS
  <2>3. CASE work'[i][k] = work[i][k] /\ finished'[i][k] = finished[i][k]
      BY <2>3 DEF PostsWaited
  <2>4. CASE /\ work[i][k].at # "idle" /\ work'[i][k].job = work[i][k].job
             /\ finished'[i][k] = now
      BY <2>4 DEF WorkWaited
  <2> QED BY <2>1, <2>2, <2>3, <2>4, WorkMoves
<1>2. finished'[i][k] \in Nat
    BY TimeGoesOn, MaxTimeIsNat
<1> QED BY <1>1, <1>2, FollowsStays

\* What a step adds to the schedule follows a failure that was there before.
LEMMA NewFailureFollows ==
    ASSUME TypeOK, BackoffTypeOK, PostsWaited, [BackoffNext]_backoffVars,
           NEW f \in schedule' \ schedule
    PROVE  f \in Failure /\ (f.number = 1 \/ FollowsIn(f, f.made))
<1>1. PICK i \in Instance, k \in Slot : work[i][k].at = "recording" /\ f \in Scheduled(i, k)
    BY ScheduleGrows
<1>2. /\ f \in Failure /\ SamePair(f, work[i][k].job)
      /\ f.number = work[i][k].job.number /\ f.made = finished[i][k]
    BY <1>1, ScheduledRow
<1>3. f.number = 1 \/ FollowsIn(work[i][k].job, finished[i][k])
    BY <1>1, <1>2 DEF PostsWaited
<1> QED BY <1>2, <1>3 DEF FollowsIn, SamePair

LEMMA LogSpacedStep ==
    ASSUME TypeOK, BackoffTypeOK, PostsWaited, LogSpaced, [BackoffNext]_backoffVars
    PROVE  LogSpaced'
<1> SUFFICES ASSUME NEW f \in schedule', f.number # 1
             PROVE  \E g \in schedule' : /\ SamePair(g, f) /\ f.number = g.number + 1
                                         /\ WaitedOut(g, f.made)
    BY DEF LogSpaced, FollowsIn, WaitedOut
<1>1. f.made \in Nat /\ FollowsIn(f, f.made)
    BY NewFailureFollows DEF LogSpaced, BackoffTypeOK, Failure
<1> QED BY <1>1, FollowsStays

LEMMA BackoffInitially == BackoffInit => BInv
<1> SUFFICES ASSUME BackoffInit
             PROVE  BInv
    OBVIOUS
<1> USE DEF BackoffInit, Init, StoreInit
<1>1. BackoffTypeOK /\ TimesStored /\ DueReached /\ LogSpaced
    BY MaxTimeIsNat DEF BackoffTypeOK, TimesStored, DueReached, LogSpaced
<1>2. RetriesWaited /\ JobsWaited
    BY DEF RetriesWaited, JobsWaited
<1>3. WorkWaited /\ PostsWaited
    BY DEF WorkWaited, PostsWaited, NoWork
<1> QED BY <1>1, <1>2, <1>3 DEF BInv

LEMMA BackoffStep ==
    ASSUME TypeOK, BInv, [BackoffNext]_backoffVars
    PROVE  BInv'
BY BackoffTypeStep, TimesStoredStep, DueReachedStep, RetriesWaitedStep, JobsWaitedStep,
   WorkWaitedStep, PostsWaitedStep, LogSpacedStep DEF BInv

\* Whatever fails, crashes or is asked for, and however many instances poll
\* the same rows again and again, no attempt but the first is dispatched,
\* posted or recorded before one with the number below it has failed and waited
\* as long as the table asks, beyond the end of the table its last delay.
THEOREM NoRetryIsEarly == BackoffSpec => []RetriesWait
<1>1. TypeOK /\ BInv /\ [BackoffNext]_backoffVars => BInv'
    BY BackoffStep
<1>2. BInv => RetriesWait
    BY DEF BInv, RetriesWait, RetriesWaited, JobsWaited, WorkWaited, LogSpaced
<1> QED BY <1>1, <1>2, BackoffInitially, BackoffImplementsPipeline, TypeCorrect, PTL
        DEF BackoffSpec

(***************************************************************************)
(* Giving up takes its time.                                               *)
(***************************************************************************)
\* F is the row of failures of a delivery up to f, each one old enough for the
\* next.
LeadsTo(F, f) ==
    /\ F[f.number] = f
    /\ \A n \in 1..f.number : SamePair(F[n], f) /\ F[n].number = n
    /\ \A n \in 1..(f.number - 1) : WaitedOut(F[n], F[n + 1].made)

\* Every failure that is stored has come about by one.
ScheduleGapless == \A f \in schedule : \E F \in [1..f.number -> schedule] : LeadsTo(F, f)

\* The failure before the one that made an event dead had waited.
DeadWaited ==
    \A e \in Event : events[e] = "dead" =>
        \/ Budget = 1
        \/ \E f \in schedule : f.event = e /\ f.number = Budget - 1 /\ WaitedOut(f, now)

LEMMA ScheduleGaplessStep ==
    ASSUME TypeOK, BackoffTypeOK, PostsWaited, ScheduleGapless, [BackoffNext]_backoffVars
    PROVE  ScheduleGapless'
<1> SUFFICES ASSUME NEW f \in schedule'
             PROVE  \E F \in [1..f.number -> schedule'] : LeadsTo(F, f)
    BY DEF ScheduleGapless, LeadsTo, SamePair, WaitedOut
<1>s. schedule \subseteq schedule'
    BY ScheduleGrows
<1>1. CASE f \in schedule
    BY <1>1, <1>s DEF ScheduleGapless
<1>2. ASSUME f \in Failure, f.number = 1
      PROVE  \E F \in [1..f.number -> schedule'] : LeadsTo(F, f)
  <2> WITNESS [n \in 1..f.number |-> f] \in [1..f.number -> schedule']
  <2> QED BY <1>2 DEF LeadsTo, SamePair
<1>3. ASSUME f \in Failure, FollowsIn(f, f.made)
      PROVE  \E F \in [1..f.number -> schedule'] : LeadsTo(F, f)
  <2>1. PICK g \in schedule : SamePair(g, f) /\ f.number = g.number + 1 /\ WaitedOut(g, f.made)
      BY <1>3 DEF FollowsIn
  <2>2. g.number \in Nat \ {0}
      BY DEF BackoffTypeOK, Failure
  <2>3. PICK F \in [1..g.number -> schedule] : LeadsTo(F, g)
      BY DEF ScheduleGapless
  <2> DEFINE G == [n \in 1..f.number |-> IF n = f.number THEN f ELSE F[n]]
  <2>4. \A n \in 1..f.number : n = f.number \/ n \in 1..g.number
      BY <2>1, <2>2
  <2>5. G \in [1..f.number -> schedule']
      BY <2>4, <1>s
  <2>6. G[f.number] = f
      BY <2>1, <2>2
  <2>7. ASSUME NEW n \in 1..f.number
        PROVE  SamePair(G[n], f) /\ G[n].number = n
      BY <2>1, <2>3, <2>4 DEF LeadsTo, SamePair
  <2>8. ASSUME NEW n \in 1..(f.number - 1)
        PROVE  WaitedOut(G[n], G[n + 1].made)
    <3>1. n \in 1..g.number /\ n # f.number /\ n \in 1..f.number /\ n + 1 \in 1..f.number
        BY <2>1, <2>2
    <3>2. G[n] = F[n]
        BY <3>1
    <3>3. CASE n = g.number
      <4>1. G[n] = g /\ G[n + 1] = f
          BY <2>1, <2>3, <3>1, <3>2, <3>3 DEF LeadsTo
      <4> QED BY <2>1, <4>1
    <3>4. CASE n # g.number
      <4>1. n \in 1..(g.number - 1) /\ n + 1 # f.number
          BY <2>1, <2>2, <3>1, <3>4
      <4>2. G[n + 1] = F[n + 1]
          BY <3>1, <4>1
      <4>3. WaitedOut(F[n], F[n + 1].made)
          BY <2>3, <4>1 DEF LeadsTo
      <4> QED BY <3>2, <4>2, <4>3
    <3> QED BY <3>3, <3>4
  <2>9. LeadsTo(G, f)
      BY <2>6, <2>7, <2>8 DEF LeadsTo
  <2> QED BY <2>5, <2>9
<1> QED BY <1>1, <1>2, <1>3, NewFailureFollows

\* An event becomes dead by a worker that marks it.
LEMMA DeadMoves ==
    ASSUME TypeOK, [Next]_vars, NEW e \in Event, events'[e] = "dead", events[e] # "dead"
    PROVE  \E i \in Instance, k \in Slot :
               work[i][k].at = "marking" /\ ~work[i][k].ok /\ work[i][k].job.event = e
<1> DEFINE Marks == \E i \in Instance, k \in Slot :
               work[i][k].at = "marking" /\ ~work[i][k].ok /\ work[i][k].job.event = e
<1>u. ASSUME NEW d, NEW s, UpdateEventStatus(d, s)
      PROVE  s = "dead" /\ d = e
    BY <1>u DEF UpdateEventStatus, TypeOK, StoreTypeOK
<1>1. ASSUME NEW i \in Instance, NEW k \in Slot, MarkEvent(i, k) \/ DropJob(i, k)
      PROVE  Marks
  <2>1. UpdateEventStatus(work[i][k].job.event, IF work[i][k].ok THEN "delivered" ELSE "dead")
        /\ work[i][k].at = "marking"
      BY <1>1 DEF MarkEvent, DropJob, CreateDeliveryAttempt, storeVars
  <2> QED BY <1>u, <2>1
<1>2. ASSUME NEW i \in Instance, PollerStep(i)
      PROVE  FALSE
  <2>1. \A d : ~UpdateEventStatus(d, "processing")
      BY <1>u
  <2>2. UNCHANGED events \/ \E d \in Event : UpdateEventStatus(d, "processing")
      BY <1>2 DEF PollerStep, PollerProceeds, PollerFails, PollPendingEvents, FindEndpoints,
                  ClaimEvent, SendFirstAttempt, PollRetryableAttempts, LookUpRetry, SendRetry,
                  PollFails, SkipEvent, SkipRetry, storeVars, TypeOK
  <2> QED BY <2>1, <2>2
<1>3. ASSUME NEW i \in Instance, NEW k \in Slot,
             ReceiveJob(i, k) \/ Deliver(i, k) \/ RecordAttempt(i, k)
      PROVE  FALSE
    BY <1>3 DEF ReceiveJob, Deliver, RecordAttempt, CreateDeliveryAttempt, storeVars
<1>4. ASSUME NEW a \in attempts, TimePasses(a)
      PROVE  FALSE
    BY <1>4 DEF TimePasses, BackoffElapses
<1>5. ASSUME NEW i \in Instance, Crash(i)
      PROVE  FALSE
    BY <1>5 DEF Crash, storeVars
<1>6. ASSUME ClientRequest
      PROVE  FALSE
    BY <1>6, <1>u, ClientRequestCases
       DEF CreateEvent, ReplayEvent, BulkReplayDeadEvents, PurgeDeadEvents, CreateEndpoint,
           UpdateEndpoint, DeleteEndpoint, TypeOK, StoreTypeOK
<1> QED BY <1>1, <1>2, <1>3, <1>4, <1>5, <1>6
        DEF Next, WorkerStep, WorkerProceeds, vars, storeVars

LEMMA DeadWaitedStep ==
    ASSUME IInv, BackoffTypeOK, WorkWaited, DeadWaited, [BackoffNext]_backoffVars
    PROVE  DeadWaited'
<1> SUFFICES ASSUME NEW e \in Event, events'[e] = "dead", Budget # 1
             PROVE  \E f \in schedule' : /\ f.event = e /\ f.number = Budget - 1
                                         /\ WaitedOut(f, now')
    BY DEF DeadWaited, WaitedOut
<1>t. TypeOK /\ now \in Nat /\ now' \in Nat /\ now <= now'
    BY TimeGoesOn, MaxTimeIsNat DEF BackoffTypeOK, IInv
<1>1. \E f \in schedule : f.event = e /\ f.number = Budget - 1 /\ WaitedOut(f, now)
  <2>1. CASE events[e] = "dead"
      BY <2>1 DEF DeadWaited
  <2>2. CASE events[e] # "dead"
    <3>1. PICK i \in Instance, k \in Slot :
              work[i][k].at = "marking" /\ ~work[i][k].ok /\ work[i][k].job.event = e
        BY <2>2, <1>t, BackoffStepIsPipelineStep, DeadMoves
    <3> DEFINE j == work[i][k].job
    <3>2. j.number \in Nat \ {0} /\ j.number <= Budget /\ Exhausted(j.number)
      <4>1. j \in Job
          BY <3>1, <1>t, WorkTypes DEF TypeOK
      <4>2. j.number <= Budget
          BY <3>1 DEF IInv, InFlightJustified, WorkSound, Sound
      <4>3. Exhausted(j.number)
          BY <3>1 DEF IInv, MarksRecorded
      <4> QED BY <4>1, <4>2, <4>3 DEF Job
    <3>3. j.number = Budget
        BY <3>2, MaxRetriesIsInt DEF Exhausted, Budget
    <3>4. FollowsIn(j, now)
        BY <3>1, <3>3 DEF WorkWaited
    <3>5. PICK f \in schedule : SamePair(f, j) /\ j.number = f.number + 1 /\ WaitedOut(f, now)
        BY <3>4 DEF FollowsIn
    <3>6. f.number \in Nat
        BY DEF BackoffTypeOK, Failure
    <3> QED BY <3>1, <3>2, <3>3, <3>5, <3>6 DEF SamePair
  <2> QED BY <2>1, <2>2
<1>2. PICK f \in schedule : f.event = e /\ f.number = Budget - 1 /\ WaitedOut(f, now)
    BY <1>1
<1>3. f \in schedule' /\ WaitedOut(f, now')
    BY <1>2, <1>t, ScheduleGrows, WaitedOutStays DEF BackoffTypeOK
<1> QED BY <1>2, <1>3

\* From the failure before the last one, its row of failures.
LEMMA DeadHasWaited ==
    ASSUME IInv, BackoffTypeOK, ScheduleGapless, DeadWaited
    PROVE  DeadAfterDelays
<1> SUFFICES ASSUME NEW e \in Event, events[e] = "dead"
             PROVE  \E p \in Endpoint, F \in [1..(Budget - 1) -> schedule] :
                        \A n \in 1..(Budget - 1) :
                            /\ F[n].event = e /\ F[n].endpoint = p /\ F[n].number = n
                            /\ WaitedOut(F[n], IF n < Budget - 1 THEN F[n + 1].made ELSE now)
    BY DEF DeadAfterDelays
<1>b. Budget \in Nat \ {0}
    BY MaxRetriesIsInt DEF Budget
<1>1. CASE Budget = 1
  <2>1. PICK p \in Endpoint : TRUE
      BY DEF IInv, StatusIsEarned, TypeOK, StoreTypeOK, AttemptRow
  <2>2. 1..(Budget - 1) = {}
      BY <1>1
  <2>3. [n \in 1..(Budget - 1) |-> n] \in [1..(Budget - 1) -> schedule]
      BY <2>2
  <2> QED BY <2>1, <2>2, <2>3
<1>2. CASE Budget # 1
  <2>1. PICK f \in schedule : f.event = e /\ f.number = Budget - 1 /\ WaitedOut(f, now)
      BY <1>2 DEF DeadWaited
  <2>2. PICK F \in [1..(Budget - 1) -> schedule] : LeadsTo(F, f)
      BY <2>1 DEF ScheduleGapless
  <2>3. f.endpoint \in Endpoint
      BY DEF BackoffTypeOK, Failure
  <2>4. ASSUME NEW n \in 1..(Budget - 1)
        PROVE  /\ F[n].event = e /\ F[n].endpoint = f.endpoint /\ F[n].number = n
               /\ WaitedOut(F[n], IF n < Budget - 1 THEN F[n + 1].made ELSE now)
    <3>1. F[n].event = e /\ F[n].endpoint = f.endpoint /\ F[n].number = n
        BY <2>1, <2>2 DEF LeadsTo, SamePair
    <3>2. CASE n = Budget - 1
        BY <1>b, <2>1, <2>2, <3>1, <3>2 DEF LeadsTo
    <3>3. CASE n # Budget - 1
      <4>1. n < Budget - 1 /\ n \in 1..(f.number - 1)
          BY <1>b, <2>1, <3>3
      <4>2. WaitedOut(F[n], F[n + 1].made)
          BY <2>2, <4>1 DEF LeadsTo
      <4> QED BY <3>1, <4>1, <4>2
    <3> QED BY <3>1, <3>2, <3>3
  <2> QED BY <2>2, <2>3, <2>4
<1> QED BY <1>1, <1>2

\* No event is dead before the delays of all its attempts but the last have
\* passed one after the other, for any MAX_RETRIES and any growing table.
THEOREM DeadTakesItsTime == BackoffSpec => []DeadAfterDelays
<1> DEFINE Inv == IInv /\ BInv /\ ScheduleGapless /\ DeadWaited
<1>1. BackoffInit => Inv
    BY IInvInit, BackoffInitially
       DEF BackoffInit, Init, StoreInit, ScheduleGapless, DeadWaited
<1>2. Inv /\ [BackoffNext]_backoffVars => Inv'
    BY BackoffStep, IInvStep, BackoffStepIsPipelineStep, ScheduleGaplessStep, DeadWaitedStep
       DEF IInv, BInv
<1>3. Inv => DeadAfterDelays
    BY DeadHasWaited DEF BInv
<1> QED BY <1>1, <1>2, <1>3, PTL DEF BackoffSpec
=============================================================================
