------------------------------- MODULE Retry -------------------------------
(***************************************************************************)
(* The record a delivery leaves behind: what internal/delivery decides     *)
(* about an attempt (deliver.go, retry.go) and the row of the table        *)
(* delivery_attempts that carries the decision.                            *)
(*                                                                         *)
(* A row's next_retry_at is modelled by what the retry query tells apart:  *)
(* "none" (NULL), "waiting" (in the future) or "due" (reached).  Rows that *)
(* agree on every field below behave alike, so a table is a set of rows.   *)
(***************************************************************************)
EXTENDS Integers

CONSTANTS
    Event,      \* ids of events, numbered in the order of creation
    Endpoint,   \* ids of endpoints, numbered in the order of creation
    MaxRetries  \* MAX_RETRIES: any integer the environment sets

ASSUME IdsAreOrdered == Event \subseteq Nat \ {0} /\ Endpoint \subseteq Nat \ {0}
ASSUME MaxRetriesIsInt == MaxRetries \in Int

AttemptRow == [event    : Event,
               endpoint : Endpoint,
               number   : Nat \ {0},
               status   : {"success", "failed"},
               retry    : {"none", "waiting", "due"}]

\* A delivery job: the fields of DeliveryJob that steer the pipeline.
Job == [event : Event, endpoint : Endpoint, number : Nat \ {0}]

\* Mutant: the last attempt is given up before it is made.
ExhaustedEarly(n) == n + 1 >= MaxRetries

\* NextRetryDelay reports no delay: the attempt was the last one.
Exhausted(n) == n >= MaxRetries

\* The number of attempts a delivery gets: the first one is always made.
Budget == IF MaxRetries >= 1 THEN MaxRetries ELSE 1

\* The jobs that stay within the budget.
BudgetedJob == [event : Event, endpoint : Endpoint, number : 1..Budget]

\* The next_retry_at of an attempt that has just been made.
NextRetryAt(ok, n) == IF ok \/ Exhausted(n) THEN "none" ELSE "waiting"

\* The row that records job j with outcome ok.
RowOf(j, ok) == [event    |-> j.event,
                 endpoint |-> j.endpoint,
                 number   |-> j.number,
                 status   |-> IF ok THEN "success" ELSE "failed",
                 retry    |-> NextRetryAt(ok, j.number)]

SamePair(x, y) == x.event = y.event /\ x.endpoint = y.endpoint

\* b is the failed attempt, its backoff over, that x (a job or a row) retries.
Retries(x, b) == /\ SamePair(x, b)
                 /\ x.number = b.number + 1
                 /\ b.status = "failed"
                 /\ b.retry = "due"

\* x opens a delivery, or continues one that the rows in log have failed.
Justified(x, log) == x.number = 1 \/ \E b \in log : Retries(x, b)

\* A row agrees with what Deliver can return: retries only failures, only
\* while budget remains, and gives up only when the budget is spent.
Consistent(a) ==
    /\ a.number <= Budget
    /\ a.status = "success" => a.retry = "none"
    /\ a.status = "failed" => (a.retry = "none" <=> Exhausted(a.number))

\* The rows that entitle an event to its two final statuses.
ShowsSuccess(a, e) == a.event = e /\ a.status = "success"
ShowsExhaustion(a, e) == a.event = e /\ a.status = "failed" /\ Exhausted(a.number)
=============================================================================
