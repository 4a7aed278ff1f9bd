------------------------------- MODULE Store -------------------------------
(***************************************************************************)
(* The Postgres store: the three tables of migrations/ and the statements  *)
(* of internal/store/queries that the delivery pipeline and the management *)
(* API run on them.  Every statement is issued on the connection pool,     *)
(* outside any transaction, so each one is a single atomic step.           *)
(*                                                                         *)
(* A row that was never inserted is "none" and a deleted row is "deleted"; *)
(* both are absent from the table, but ids are ULIDs and never come back.  *)
(***************************************************************************)
EXTENDS Retry, FiniteSets

CONSTANTS
    Topic,      \* topic names
    TopicOf,    \* the topic each event is posted with
    BatchSize   \* LIMIT of the two polling queries (50 in NewPoller)

ASSUME TopicsAssigned == TopicOf \in [Event -> Topic]

VARIABLES
    events,     \* table events: the status of each row
    endpoints,  \* table endpoints: enabled flag and topics of each row
    attempts    \* table delivery_attempts

storeVars == <<events, endpoints, attempts>>

EventStatus == {"none", "pending", "processing", "delivered", "dead", "deleted"}
EndpointRow == [state : {"none", "enabled", "disabled", "deleted"}, topics : SUBSET Topic]

StoreTypeOK ==
    /\ events \in [Event -> EventStatus]
    /\ endpoints \in [Endpoint -> EndpointRow]
    /\ attempts \in SUBSET AttemptRow

StoreInit ==
    /\ events = [e \in Event |-> "none"]
    /\ endpoints = [p \in Endpoint |-> [state |-> "none", topics |-> {}]]
    /\ attempts = {}

EventExists(e) == events[e] \notin {"none", "deleted"}
EndpointExists(p) == endpoints[p].state \notin {"none", "deleted"}

(***************************************************************************)
(* Queries.                                                                *)
(***************************************************************************)
\* The oldest pending events.  SKIP LOCKED only skips rows another statement
\* holds at that instant: the lock is gone when the statement ends.
GetPendingEvents ==
    LET pending == {e \in Event : events[e] = "pending"}
    IN  {e \in pending : Cardinality({f \in pending : f < e}) < BatchSize}

GetEndpointsByTopic(t) ==
    {p \in Endpoint : endpoints[p].state = "enabled" /\ t \in endpoints[p].topics}

\* DISTINCT ON keeps, of the rows of a pair, the one with the highest attempt
\* number; LIMIT keeps the first pairs in the order of their ids.
OnePerPair(rows) ==
    LET last == {a \in rows : \A b \in rows : SamePair(a, b) => b.number <= a.number}
        before(a, b) == \/ a.event < b.event
                        \/ a.event = b.event /\ a.endpoint < b.endpoint
    IN  {a \in last : Cardinality({b \in last : before(b, a)}) < BatchSize}

\* Mutants: the query without its next_retry_at <= now, and with the status
\* filter of the query for pending events.
RetryableTooEarly == OnePerPair({a \in attempts : a.retry # "none" /\ events[a.event] # "dead"})
RetryablePendingOnly == OnePerPair({a \in attempts : a.retry = "due" /\ events[a.event] = "pending"})

GetRetryableAttempts ==
    OnePerPair({a \in attempts : /\ a.retry = "due"
                                 /\ a.status = "failed"
                                 /\ events[a.event] # "dead"})

(***************************************************************************)
(* Statements that write.  UPDATE of a missing row changes nothing.        *)
(***************************************************************************)
UpdateEventStatus(e, s) ==
    /\ events' = [events EXCEPT ![e] = IF EventExists(e) THEN s ELSE @]
    /\ UNCHANGED <<endpoints, attempts>>

\* Mutant: endpoint_id references nothing.
EventReferenceExists(a) == EventExists(a.event)

\* The two foreign keys of delivery_attempts.
ReferencesExist(a) == EventExists(a.event) /\ EndpointExists(a.endpoint)

CreateDeliveryAttempt(a) ==
    /\ ReferencesExist(a)
    /\ attempts' = attempts \cup {a}
    /\ UNCHANGED <<events, endpoints>>

CreateEvent(e) ==
    /\ \A f \in Event : f <= e => (events[f] = "none" <=> f = e)
    /\ events' = [events EXCEPT ![e] = "pending"]
    /\ UNCHANGED <<endpoints, attempts>>

BulkReplayDeadEvents ==
    /\ events' = [e \in Event |-> IF events[e] = "dead" THEN "pending" ELSE events[e]]
    /\ UNCHANGED <<endpoints, attempts>>

\* Mutant: the foreign key leaves the attempts of a purged event alone.
PurgeOrphans == TRUE

\* The DELETE fails as a whole when a delivery attempt references a dead event.
PurgeAllowed == \A a \in attempts : events[a.event] # "dead"

PurgeDeadEvents ==
    /\ PurgeAllowed
    /\ events' = [e \in Event |-> IF events[e] = "dead" THEN "deleted" ELSE events[e]]
    /\ UNCHANGED <<endpoints, attempts>>

CreateEndpoint(p, topics) ==
    /\ \A q \in Endpoint : q <= p => (endpoints[q].state = "none" <=> q = p)
    /\ endpoints' = [endpoints EXCEPT ![p] = [state |-> "enabled", topics |-> topics]]
    /\ UNCHANGED <<events, attempts>>

UpdateEndpoint(p, state, topics) ==
    /\ EndpointExists(p)
    /\ endpoints' = [endpoints EXCEPT ![p] = [state |-> state, topics |-> topics]]
    /\ UNCHANGED <<events, attempts>>

DeleteEndpoint(p) ==
    /\ EndpointExists(p)
    /\ \A a \in attempts : a.endpoint # p
    /\ endpoints' = [endpoints EXCEPT ![p] = [state |-> "deleted", topics |-> {}]]
    /\ UNCHANGED <<events, attempts>>

\* The next_retry_at of row a is reached.
BackoffElapses(a) ==
    /\ a.retry = "waiting"
    /\ attempts' = (attempts \ {a}) \cup {[a EXCEPT !.retry = "due"]}
    /\ UNCHANGED <<events, endpoints>>
=============================================================================
