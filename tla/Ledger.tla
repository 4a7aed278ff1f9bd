------------------------------- MODULE Ledger -------------------------------
(***************************************************************************)
(* What the delivery pipeline promises of the rows it leaves in the store, *)
(* with pollers, channels, workers and instances hidden.                   *)
(*                                                                         *)
(* An accepted event is never lost.  Attempts are only ever added, each    *)
(* one the first of its delivery or the retry of a failed attempt whose    *)
(* backoff is over, and none beyond the budget.  An event is delivered or  *)
(* dead only when an attempt of its own shows it.                          *)
(***************************************************************************)
EXTENDS Retry

VARIABLES events, attempts

Init == /\ events = [e \in Event |-> "none"]
        /\ attempts = {}

Accept(e) ==
    /\ events[e] = "none"
    /\ events' = [events EXCEPT ![e] = "pending"]
    /\ UNCHANGED attempts

\* Operators send any set of accepted events back to the queue at once.
Replay(E) ==
    /\ \A e \in E : events[e] # "none"
    /\ events' = [e \in Event |-> IF e \in E THEN "pending" ELSE events[e]]
    /\ UNCHANGED attempts

Earned(e, s) == \/ s = "processing"
                \/ s = "delivered" /\ \E a \in attempts : ShowsSuccess(a, e)
                \/ s = "dead" /\ \E a \in attempts : ShowsExhaustion(a, e)

Progress(e, s) ==
    /\ events[e] # "none"
    /\ Earned(e, s)
    /\ events' = [events EXCEPT ![e] = s]
    /\ UNCHANGED attempts

Record(a) ==
    /\ events[a.event] # "none"
    /\ Justified(a, attempts)
    /\ attempts' = attempts \cup {a}
    /\ UNCHANGED events

BackoffElapses(a) ==
    /\ a.retry = "waiting"
    /\ attempts' = (attempts \ {a}) \cup {[a EXCEPT !.retry = "due"]}
    /\ UNCHANGED events

Next == \/ \E e \in Event : Accept(e)
        \/ \E E \in SUBSET Event : Replay(E)
        \/ \E e \in Event, s \in {"processing", "delivered", "dead"} : Progress(e, s)
        \/ \E j \in BudgetedJob, ok \in BOOLEAN : Record(RowOf(j, ok))
        \/ \E a \in attempts : BackoffElapses(a)

Spec == Init /\ [][Next]_<<events, attempts>>
=============================================================================
