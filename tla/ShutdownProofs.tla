--------------------------- MODULE ShutdownProofs ---------------------------
(***************************************************************************)
(* Proofs about the life of a process, for every value of the constants:   *)
(* shutdown is within what the pipeline withstands, so that everything     *)
(* proved of the pipeline holds through it.                                *)
(***************************************************************************)
EXTENDS Shutdown, DispatchProofs

\* Every step of a process, its shutdown included, is a step of the pipeline
\* with a failing store and crashes, or changes nothing there.
LEMMA ShutdownStepIsPipelineStep ==
    ASSUME [ShutdownNext]_shutdownVars
    PROVE  [Next]_vars
<1> USE ShutdownDisturbs
<1>1. CASE UNCHANGED shutdownVars
    BY <1>1 DEF shutdownVars
<1>2. ASSUME NEW i \in Instance, PollerRuns(i)
      PROVE  [Next]_vars
    BY <1>2 DEF PollerRuns, PollerWindsDown, PollerReturns, PollerProceeds, PollerStep,
                StoreMayFail, Next
<1>3. ASSUME NEW i \in Instance, NEW k \in Slot, WorkerRuns(i, k)
      PROVE  [Next]_vars
    BY <1>3 DEF WorkerRuns, WorkerWindsDown, WorkerReturns, WorkerRunsOut, WorkerProceeds,
                WorkerStep, StoreMayFail, Next
<1>4. ASSUME NEW i \in Instance,
             Exit(i) \/ Kill(i) \/ PanicOnClosed(i)
      PROVE  [Next]_vars
    BY <1>4 DEF Exit, Kill, PanicOnClosed, EndProcess, Next
<1>5. ASSUME NEW i \in Instance,
             \/ CancelContext(i) \/ CloseJobs(i) \/ WaitForWorkers(i) \/ NotifyShutdown(i)
             \/ Start(i)
      PROVE  [Next]_vars
    BY <1>5 DEF CancelContext, CloseJobs, WaitForWorkers, NotifyShutdown, Advance, Start
<1>6. CASE Outside
    BY <1>6 DEF Outside, Next
<1> QED BY <1>1, <1>2, <1>3, <1>4, <1>5, <1>6 DEF ShutdownNext, MainProceeds

\* The life of the processes refines the pipeline.
THEOREM ShutdownImplementsPipeline == ShutdownSpec => ShutdownIsPipeline
<1>1. ShutdownInit => Init
    BY DEF ShutdownInit
<1>2. [ShutdownNext]_shutdownVars => [Next]_vars
    BY ShutdownStepIsPipelineStep
<1> QED BY <1>1, <1>2, PTL DEF ShutdownSpec, ShutdownIsPipeline, Spec

\* The log stays unbroken, jobs in flight justified and statuses earned through
\* every shutdown and restart of any number of processes.
THEOREM ShutdownKeepsInvariant == ShutdownSpec => []IInv
BY ShutdownImplementsPipeline, InvariantHolds, PTL DEF ShutdownIsPipeline

(***************************************************************************)
(* Nothing is going on when the process has stopped.                       *)
(***************************************************************************)
LifeStates == /\ main \in [Instance -> Phase]
              /\ pollerGone \in [Instance -> BOOLEAN]
              /\ workersGone \in [Instance -> SUBSET Slot]

\* A worker that has returned left no job between its POST and its statements,
\* and when main goes on after the wait all of them have returned.
GoneIsQuiet ==
    /\ LifeStates
    /\ \A i \in Instance :
         /\ \A k \in workersGone[i] : work[i][k].at \in {"idle", "delivering"}
         /\ main[i] = "stopped" => workersGone[i] = Slot

LEMMA GoneIsQuietStep ==
    ASSUME TypeOK, GoneIsQuiet, [ShutdownNext]_shutdownVars
    PROVE  GoneIsQuiet'
<1> USE DEF GoneIsQuiet, LifeStates, TypeOK, lifeVars
<1>1. CASE UNCHANGED shutdownVars
    BY <1>1 DEF shutdownVars, vars
<1>2. ASSUME NEW i \in Instance, PollerRuns(i)
      PROVE  GoneIsQuiet'
  <2>1. UNCHANGED <<work, main, workersGone>> /\ pollerGone' \in [Instance -> BOOLEAN]
      BY <1>2 DEF PollerRuns, PollerWindsDown, PollerReturns, PollerProceeds, PollerFails,
                  PollPendingEvents, FindEndpoints, ClaimEvent, SendFirstAttempt,
                  PollRetryableAttempts, LookUpRetry, SendRetry, PollFails, SkipEvent, SkipRetry,
                  vars
  <2> QED BY <2>1
<1>3. ASSUME NEW i \in Instance, NEW k \in Slot, WorkerRuns(i, k)
      PROVE  GoneIsQuiet'
  <2>1. UNCHANGED <<main, pollerGone>>
      BY <1>3 DEF WorkerRuns, WorkerWindsDown, WorkerReturns, WorkerRunsOut, WorkerGoes
  <2>2. k \notin workersGone[i]
      BY <1>3 DEF WorkerRuns
  <2>3. CASE UNCHANGED workersGone
    <3>1. \A h \in Instance, m \in Slot : h # i \/ m # k => work'[h][m] = work[h][m]
        BY <1>3 DEF WorkerRuns, WorkerWindsDown, WorkerReturns, WorkerRunsOut, WorkerProceeds,
                    ReceiveJob, Deliver, RecordAttempt, MarkEvent, DropJob, Become, vars
    <3>2. \A h \in Instance : \A m \in workersGone[h] : m \in Slot /\ (h # i \/ m # k)
        BY <2>2
    <3> QED BY <2>1, <2>3, <3>1, <3>2
  <2>4. CASE WorkerReturns(i, k) \/ WorkerRunsOut(i, k)
    <3>1. /\ workersGone' = [workersGone EXCEPT ![i] = @ \cup {k}]
          /\ work'[i][k].at \in {"idle", "delivering"}
          /\ \A h \in Instance, m \in Slot : h # i \/ m # k => work'[h][m] = work[h][m]
        BY <2>4 DEF WorkerReturns, WorkerRunsOut, WorkerGoes, ReceiveJob, Become, vars
    <3> QED BY <2>1, <3>1
  <2>5. UNCHANGED workersGone \/ WorkerReturns(i, k) \/ WorkerRunsOut(i, k)
      BY <1>3 DEF WorkerRuns, WorkerWindsDown
  <2> QED BY <2>3, <2>4, <2>5
<1>4. ASSUME NEW i \in Instance, Exit(i) \/ Kill(i) \/ PanicOnClosed(i)
      PROVE  GoneIsQuiet'
  <2>1. /\ work' = [work EXCEPT ![i] = [k \in Slot |-> NoWork]]
        /\ main' = [main EXCEPT ![i] = "down"]
        /\ UNCHANGED <<pollerGone, workersGone>>
      BY <1>4 DEF Exit, Kill, PanicOnClosed, EndProcess, Crash
  <2>2. main' \in [Instance -> Phase] /\ main'[i] # "stopped"
      BY <2>1 DEF Phase
  <2>3. \A k \in Slot : work'[i][k].at = "idle"
      BY <2>1 DEF NoWork
  <2>4. \A h \in Instance : h # i => work'[h] = work[h] /\ main'[h] = main[h]
      BY <2>1
  <2> QED BY <2>1, <2>2, <2>3, <2>4
<1>5. ASSUME NEW i \in Instance,
             \/ CancelContext(i) \/ CloseJobs(i) \/ WaitForWorkers(i) \/ NotifyShutdown(i)
      PROVE  GoneIsQuiet'
    BY <1>5 DEF CancelContext, CloseJobs, WaitForWorkers, NotifyShutdown, Advance, Phase, vars
<1>6. ASSUME NEW i \in Instance, Start(i)
      PROVE  GoneIsQuiet'
    BY <1>6 DEF Start, Phase, vars
<1>7. CASE Outside
    BY <1>7, ClientRequestCases DEF Outside, TimePasses
<1> QED BY <1>1, <1>2, <1>3, <1>4, <1>5, <1>6, <1>7 DEF ShutdownNext, MainProceeds

\* wp.Stop returns only when no worker has statements of a job ahead of it.
THEOREM StopIsQuiet == ShutdownSpec => []StoppedIsQuiet
<1>1. ShutdownInit => GoneIsQuiet
    BY DEF ShutdownInit, GoneIsQuiet, LifeStates, Phase
<1>2. TypeOK /\ GoneIsQuiet /\ [ShutdownNext]_shutdownVars => GoneIsQuiet'
    BY GoneIsQuietStep
<1>3. GoneIsQuiet => StoppedIsQuiet
    BY DEF GoneIsQuiet, StoppedIsQuiet
<1>4. IInv => TypeOK
    BY DEF IInv
<1> QED BY <1>1, <1>2, <1>3, <1>4, ShutdownKeepsInvariant, PTL DEF ShutdownSpec

(***************************************************************************)
(* Goroutines return after the cancellation only.                          *)
(***************************************************************************)
LEMMA LifeTypeStep ==
    ASSUME LifeTypeOK, [ShutdownNext]_shutdownVars
    PROVE  LifeTypeOK'
<1> USE DEF LifeTypeOK
<1>1. CASE UNCHANGED lifeVars
    BY <1>1 DEF lifeVars, Working
<1>2. ASSUME NEW i \in Instance, PollerReturns(i)
      PROVE  LifeTypeOK'
    BY <1>2 DEF PollerReturns, Cancelled, Closed, Working
<1>3. ASSUME NEW i \in Instance, NEW k \in Slot, WorkerReturns(i, k) \/ WorkerRunsOut(i, k)
      PROVE  LifeTypeOK'
  <2>1. /\ ~Working(i)
        /\ UNCHANGED <<main, pollerGone>>
        /\ workersGone' = [workersGone EXCEPT ![i] = @ \cup {k}]
      BY <1>3 DEF WorkerReturns, WorkerRunsOut, WorkerGoes, Cancelled, Closed, Working
  <2> QED BY <2>1 DEF Working
<1>4. ASSUME NEW i \in Instance, Exit(i) \/ Kill(i) \/ PanicOnClosed(i)
      PROVE  LifeTypeOK'
  <2>1. main' = [main EXCEPT ![i] = "down"] /\ UNCHANGED <<pollerGone, workersGone>>
      BY <1>4 DEF Exit, Kill, PanicOnClosed, EndProcess
  <2> QED BY <2>1 DEF Phase, Working
<1>5. ASSUME NEW i \in Instance,
             \/ CancelContext(i) \/ CloseJobs(i) \/ WaitForWorkers(i) \/ NotifyShutdown(i)
      PROVE  LifeTypeOK'
    BY <1>5 DEF CancelContext, CloseJobs, WaitForWorkers, NotifyShutdown, Advance, Phase, Working
<1>6. ASSUME NEW i \in Instance, Start(i)
      PROVE  LifeTypeOK'
    BY <1>6 DEF Start, Phase, Working
<1>7. ASSUME NEW i \in Instance, PollerRuns(i)
      PROVE  UNCHANGED lifeVars \/ PollerReturns(i)
    BY <1>7 DEF PollerRuns, PollerWindsDown
<1>8. ASSUME NEW i \in Instance, NEW k \in Slot, WorkerRuns(i, k)
      PROVE  UNCHANGED lifeVars \/ WorkerReturns(i, k) \/ WorkerRunsOut(i, k)
    BY <1>8 DEF WorkerRuns, WorkerWindsDown
<1> QED BY <1>1, <1>2, <1>3, <1>4, <1>5, <1>6, <1>7, <1>8
        DEF ShutdownNext, MainProceeds, Outside, shutdownVars

\* Poller and workers are there from the start of a process to the cancellation
\* of their context, in every life that a process has.
THEOREM LifeTypeCorrect == ShutdownSpec => []LifeTypeOK
<1>1. ShutdownInit => LifeTypeOK
    BY DEF ShutdownInit, LifeTypeOK, Phase
<1>2. LifeTypeOK /\ [ShutdownNext]_shutdownVars => LifeTypeOK'
    BY LifeTypeStep
<1> QED BY <1>1, <1>2, PTL DEF ShutdownSpec

\* Shutting down and starting again, in order or not, makes no process dispatch
\* a first attempt that was dispatched before.
THEOREM RestartsDispatchNothingTwice ==
    ASSUME OneInstance, NobodyReplays
    PROVE  ShutdownSpec => []FirstAttemptOnce
<1>1. ShutdownSpec => Spec
    BY ShutdownImplementsPipeline DEF ShutdownIsPipeline
<1>2. Spec => []FirstAttemptOnce
    BY FirstAttemptDispatchedOnce
<1> QED BY <1>1, <1>2, PTL
=============================================================================
