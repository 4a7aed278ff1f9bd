------------------------------ MODULE Shutdown ------------------------------
(***************************************************************************)
(* The life of a `hookman serve` process around its poller and workers     *)
(* (cmd/hookman/main.go): a signal, the grace period, the cancelled        *)
(* context, the drained HTTP server, the closed job channel, the wait for  *)
(* the workers, the end, and the next start.                               *)
(*                                                                         *)
(* The statements of poller and workers carry the context that shutdown    *)
(* cancels: before, they succeed; after, each one reports an error.  A     *)
(* goroutine that has returned stays where it was and takes no more steps. *)
(***************************************************************************)
EXTENDS PipelineProperties

\* In the pipeline's terms, cancellation is a failing store, and an end of the
\* process a crash.
ASSUME ShutdownDisturbs == {"storeError", "crash"} \subseteq Scenario

VARIABLES
    main,         \* how far the main function of each process is
    pollerGone,   \* the poller has returned
    workersGone   \* the workers that have returned

lifeVars == <<main, pollerGone, workersGone>>
shutdownVars == <<vars, lifeVars>>

\* "grace": health checks answer 503; "draining": the context is cancelled and
\* the HTTP server shuts down; "stopping": the channel is closed and the
\* workers are waited for; "stopped": they are done.
Phase == {"running", "grace", "draining", "stopping", "stopped", "down"}

ShutdownInit == /\ Init
                /\ main = [i \in Instance |-> "running"]
                /\ pollerGone = [i \in Instance |-> FALSE]
                /\ workersGone = [i \in Instance |-> {}]

Working(i) == main[i] \in {"running", "grace"}
Closed(i) == main[i] \in {"stopping", "stopped"}
Cancelled(i) == main[i] = "draining" \/ Closed(i)
Serving(i) == main[i] \in {"running", "grace", "draining"}

\* Goroutines return only after the cancellation, and are there again after
\* the next start.
LifeTypeOK ==
    /\ main \in [Instance -> Phase]
    /\ pollerGone \in [Instance -> BOOLEAN]
    /\ workersGone \in [Instance -> SUBSET Slot]
    /\ \A i \in Instance : Working(i) => ~pollerGone[i] /\ workersGone[i] = {}
-----------------------------------------------------------------------------
(* The main function. *)
Advance(i, from, to) == /\ main[i] = from
                        /\ main' = [main EXCEPT ![i] = to]
                        /\ UNCHANGED <<vars, pollerGone, workersGone>>

NotifyShutdown(i) == Advance(i, "running", "grace")

\* Five seconds later.
CancelContext(i) == Advance(i, "grace", "draining")

\* The HTTP server has answered its requests, or SHUTDOWN_TIMEOUT is over.
CloseJobs(i) == Advance(i, "draining", "stopping")

\* Mutant: the workers are not waited for.
DoNotWait(i) == Advance(i, "stopping", "stopped")

WaitForWorkers(i) == workersGone[i] = Slot /\ Advance(i, "stopping", "stopped")

\* What the process held in memory is gone.
EndProcess(i) == /\ Crash(i)
                 /\ main' = [main EXCEPT ![i] = "down"]
                 /\ UNCHANGED <<pollerGone, workersGone>>

Exit(i) == main[i] = "stopped" /\ EndProcess(i)

\* Killed, or out of the time that the container runtime allows.
Kill(i) == main[i] # "down" /\ EndProcess(i)

\* Mutant: a send on the closed channel is dropped, and the poller goes on.
DropOnClosed(i) ==
    /\ Closed(i) /\ ~pollerGone[i]
    /\ poller[i] = "sending"
    /\ poller' = [poller EXCEPT ![i] = "pending"]
    /\ UNCHANGED <<storeVars, batch, targets, retries, jobs, work, lifeVars>>

\* A select that may send on the closed channel or see the cancelled context
\* panics when it picks the send, and takes the whole process down.
PanicOnClosed(i) == /\ Closed(i) /\ ~pollerGone[i]
                    /\ poller[i] \in {"sending", "resending"}
                    /\ EndProcess(i)

\* Mutant: main starts again without its goroutines.
StartMainOnly(i) == main[i] = "down" /\ Advance(i, "down", "running")

Start(i) == /\ main[i] = "down"
            /\ main' = [main EXCEPT ![i] = "running"]
            /\ pollerGone' = [pollerGone EXCEPT ![i] = FALSE]
            /\ workersGone' = [workersGone EXCEPT ![i] = {}]
            /\ UNCHANGED vars
-----------------------------------------------------------------------------
(* Poller and workers before and after the cancellation. *)
\* The last statements fail; a select that could still send may do so.
PollerWindsDown(i) ==
    /\ Cancelled(i)
    /\ \/ PollerFails(i)
       \/ ~Closed(i) /\ (SendFirstAttempt(i) \/ SendRetry(i))
    /\ UNCHANGED lifeVars

\* ctx.Done() is chosen, in the loop of Start or in place of a send.
PollerReturns(i) ==
    /\ Cancelled(i)
    /\ \/ poller[i] = "retrying" /\ retries[i] = {}
       \/ poller[i] \in {"sending", "resending"}
    /\ pollerGone' = [pollerGone EXCEPT ![i] = TRUE]
    /\ UNCHANGED <<vars, main, workersGone>>

\* A POST may fail or just have been answered; its record and mark fail.
WorkerWindsDown(i, k) == /\ Cancelled(i)
                         /\ Deliver(i, k) \/ DropJob(i, k)
                         /\ UNCHANGED lifeVars

WorkerGoes(i, k) == /\ workersGone' = [workersGone EXCEPT ![i] = @ \cup {k}]
                    /\ UNCHANGED <<main, pollerGone>>

\* A worker that receives a job after the cancellation returns with it, and
\* so does one that has received a job but not yet looked at the context.
WorkerReturns(i, k) ==
    /\ Cancelled(i)
    /\ \/ ReceiveJob(i, k)
       \/ work[i][k].at = "delivering" /\ UNCHANGED vars
    /\ WorkerGoes(i, k)

\* Mutant: the channel is not closed, and the range goes on waiting.
StayOnChannel(i, k) == FALSE

\* The range over the closed, empty channel ends.
WorkerRunsOut(i, k) ==
    /\ Closed(i)
    /\ work[i][k].at = "idle" /\ jobs[i] = <<>>
    /\ WorkerGoes(i, k)
    /\ UNCHANGED vars

PollerRuns(i) ==
    /\ ~pollerGone[i]
    /\ \/ Working(i) /\ PollerProceeds(i) /\ UNCHANGED lifeVars
       \/ PollerWindsDown(i)
       \/ PollerReturns(i)

WorkerRuns(i, k) ==
    /\ k \notin workersGone[i]
    /\ \/ Working(i) /\ WorkerProceeds(i, k) /\ UNCHANGED lifeVars
       \/ WorkerWindsDown(i, k)
       \/ WorkerReturns(i, k)
       \/ WorkerRunsOut(i, k)

MainProceeds(i) == CancelContext(i) \/ CloseJobs(i) \/ WaitForWorkers(i) \/ Exit(i)

\* Requests need a process that serves them.
Outside == /\ \/ ClientRequest /\ \E i \in Instance : Serving(i)
              \/ \E a \in attempts : TimePasses(a)
           /\ UNCHANGED lifeVars

ShutdownNext ==
    \/ \E i \in Instance : \/ PollerRuns(i) \/ MainProceeds(i) \/ NotifyShutdown(i)
                           \/ Kill(i) \/ PanicOnClosed(i) \/ Start(i)
    \/ \E i \in Instance, k \in Slot : WorkerRuns(i, k)
    \/ Outside

ShutdownSpec == ShutdownInit /\ [][ShutdownNext]_shutdownVars

\* Goroutines are scheduled, every wait of main has a limit or ends with the
\* workers, and time passes.  Nothing makes a process receive a signal, be
\* killed or start.
FairShutdownSpec ==
    /\ ShutdownSpec
    /\ \A i \in Instance :
         /\ WF_shutdownVars(PollerRuns(i))
         /\ WF_shutdownVars(MainProceeds(i))
         /\ \A k \in Slot : WF_shutdownVars(WorkerRuns(i, k))
    /\ \A j \in BudgetedJob :
         WF_shutdownVars(TimePasses(RowOf(j, FALSE)) /\ UNCHANGED lifeVars)
-----------------------------------------------------------------------------
\* Whatever a shutdown interrupts, the tables see nothing but what a failing
\* store and a crash could do to them: the pipeline's guarantees all carry over.
ShutdownIsPipeline == Spec

\* When wp.Stop has returned no worker is between a POST and the statements
\* that follow it: whatever a job was going to do to the store is done.
StoppedIsQuiet ==
    \A i \in Instance : main[i] = "stopped" =>
        \A k \in Slot : work[i][k].at \in {"idle", "delivering"}

\* A shutdown that has begun comes to an end: no worker waits for ever on the
\* channel, on the poller or on a job.
ShutdownEnds == \A i \in Instance : main[i] = "grace" ~> main[i] = "down"

\* A restart, orderly or not, can cost a job but never a scheduled retry: once
\* the processes stay up, a failed attempt with a next_retry_at is followed by
\* the next one, unless the event is dead before.
RetriesSurviveRestarts ==
    <>[](\A i \in Instance : main[i] = "running") =>
        \A j \in BudgetedJob :
            (RowOf(j, FALSE) \in attempts /\ ~Exhausted(j.number))
                ~> \/ IsRecorded([j EXCEPT !.number = @ + 1])
                   \/ events[j.event] = "dead"

\* main.go: "Wait for workers to finish current jobs"; pool.go: "Stop waits for
\* all workers to finish processing their current jobs".  While its process
\* goes on, a worker that has made a delivery leaves an attempt of it.
CurrentJobsFinish ==
    [][\A i \in Instance, k \in Slot :
           LET w == work[i][k]
           IN  w.at = "recording" /\ work'[i][k].at # "recording" /\ main'[i] # "down"
                   => RowOf(w.job, w.ok) \in attempts']_shutdownVars
=============================================================================
