----------------------------- MODULE Management -----------------------------
(***************************************************************************)
(* Requests of the management API and the dashboard that take more than    *)
(* one statement (internal/api/events.go, internal/api/endpoints.go,       *)
(* internal/dashboard/dashboard.go), cut at their statements, over the     *)
(* tables that the pipeline works on.  Meanwhile other clients go on       *)
(* making the one-statement requests of the pipeline's ClientRequest.      *)
(*                                                                         *)
(* The details of an event and the row of an updated endpoint are          *)
(* remembered, as they were shown, until the client makes the next request; *)
(* what else a client is told is forgotten at once.                        *)
(***************************************************************************)
EXTENDS PipelineProperties

CONSTANT Request   \* requests that are being handled at the same time

VARIABLE requests  \* what each one has read, and answered

managementVars == <<vars, requests>>

\* What an UPDATE of an endpoint names.  A field that is not named is NULL in
\* its parameters: "keep" for the flag, no set of topics for the topics.
Change == [state  : {"keep", "enabled", "disabled"},
           topics : {{}} \cup {{T} : T \in SUBSET Topic}]

\* Who shows the details of an event: handleGetEvent or handleEventDetail.
Handler == {"api", "dashboard"}

NoRequest == [at |-> "idle"]
ShownStatus == EventStatus \ {"none", "deleted"}
ShownRow == [state : {"enabled", "disabled"}, topics : SUBSET Topic]
RequestState ==
    {NoRequest}
    \cup [at : {"detail"}, by : Handler, event : Event, status : ShownStatus]
    \cup [at : {"detailAnswer"}, by : Handler, event : Event, status : ShownStatus,
          rows : SUBSET AttemptRow]
    \cup [at : {"replay"}, event : Event]
    \cup [at : {"update"}, endpoint : Endpoint, change : Change]
    \cup [at : {"updateAnswer"}, endpoint : Endpoint, row : ShownRow]
    \cup [at : {"reread", "delete", "deliveries"}, endpoint : Endpoint]

ManagementTypeOK == requests \in [Request -> RequestState]

ManagementInit == Init /\ requests = [r \in Request |-> NoRequest]

Answered == {"idle", "detailAnswer", "updateAnswer"}

Go(r, state) == requests' = [requests EXCEPT ![r] = state]
Elsewhere == UNCHANGED <<pollerVars, jobs, work>>
-----------------------------------------------------------------------------
(* The first statement of each handler: the row has to be there. *)
GetEvent(r, e, state) ==
    /\ requests[r].at \in Answered
    /\ EventExists(e)
    /\ Go(r, state)
    /\ UNCHANGED vars

GetEndpoint(r, p, state) ==
    /\ requests[r].at \in Answered
    /\ EndpointExists(p)
    /\ Go(r, state)
    /\ UNCHANGED vars

Negated(state) == IF state = "enabled" THEN "disabled" ELSE "enabled"
Naming(state) == [state |-> state, topics |-> {}]

BeginDetail(r, e, h) ==
    GetEvent(r, e, [at |-> "detail", by |-> h, event |-> e, status |-> events[e]])
BeginReplay(r, e) == GetEvent(r, e, [at |-> "replay", event |-> e])
BeginPatch(r, p, change) ==
    GetEndpoint(r, p, [at |-> "update", endpoint |-> p, change |-> change])
BeginToggle(r, p) == BeginPatch(r, p, Naming(Negated(endpoints[p].state)))
BeginDelete(r, p) == GetEndpoint(r, p, [at |-> "delete", endpoint |-> p])
BeginDeliveries(r, p) == GetEndpoint(r, p, [at |-> "deliveries", endpoint |-> p])
-----------------------------------------------------------------------------
(* The statements that follow. *)
GetDeliveryAttemptsByEvent(e) == {a \in attempts : a.event = e}

Detail(q, rows) ==
    [at |-> "detailAnswer", by |-> q.by, event |-> q.event, status |-> q.status, rows |-> rows]

\* GET /api/events/{id} and the event page of the dashboard.
AnswerDetail(r) ==
    LET q == requests[r]
    IN  /\ q.at = "detail"
        /\ Go(r, Detail(q, GetDeliveryAttemptsByEvent(q.event)))
        /\ UNCHANGED vars

\* Mutant: the API goes on without the attempts as well.
AnswerWithoutAttempts(r) ==
    LET q == requests[r]
    IN  /\ StoreMayFail
        /\ q.at = "detail"
        /\ Go(r, Detail(q, {}))
        /\ UNCHANGED vars

\* The attempts cannot be read: the dashboard shows its page without any.
ShowBarePage(r) ==
    LET q == requests[r]
    IN  /\ StoreMayFail
        /\ q.at = "detail" /\ q.by = "dashboard"
        /\ Go(r, Detail(q, {}))
        /\ UNCHANGED vars

\* POST /api/events/{id}/replay.  The event is not looked at again.
AnswerReplay(r) ==
    LET q == requests[r]
    IN  /\ q.at = "replay"
        /\ UpdateEventStatus(q.event, "pending")
        /\ Go(r, NoRequest)
        /\ Elsewhere

\* Mutant: a field that is not named is reset.
Overwrite(change, row) ==
    [state  |-> IF change.state = "keep" THEN "enabled" ELSE change.state,
     topics |-> UNION change.topics]

\* SET enabled = COALESCE($4, enabled), topics = COALESCE($2, topics).
Coalesce(change, row) ==
    [state  |-> IF change.state = "keep" THEN row.state ELSE change.state,
     topics |-> IF change.topics = {} THEN row.topics ELSE UNION change.topics]

\* Mutant: an INSERT that becomes an UPDATE when the row is there.
Upsert(r) ==
    LET q == requests[r]
        p == q.endpoint
    IN  /\ q.at = "update"
        /\ endpoints' = [endpoints EXCEPT ![p] = [@ EXCEPT !.state = "enabled"]]
        /\ Go(r, [at |-> "reread", endpoint |-> p])
        /\ UNCHANGED <<events, attempts>>
        /\ Elsewhere

\* PATCH and toggle.  The UPDATE of a row that is gone changes nothing.
Update(r) ==
    LET q == requests[r]
        p == q.endpoint
        row == Coalesce(q.change, endpoints[p])
    IN  /\ q.at = "update"
        /\ \/ UpdateEndpoint(p, row.state, row.topics)
           \/ ~EndpointExists(p) /\ UNCHANGED storeVars
        /\ Go(r, [at |-> "reread", endpoint |-> p])
        /\ Elsewhere

\* Mutant: the answer is made from the second look-up, whatever its result.
AnswerUnread(r) ==
    LET q == requests[r]
    IN  /\ q.at = "reread"
        /\ Go(r, [at |-> "updateAnswer", endpoint |-> q.endpoint,
                  row |-> endpoints[q.endpoint]])
        /\ UNCHANGED vars

\* The answer shows the row as it is by then, or, without one, only says
\* that it was updated.
AnswerUpdate(r) ==
    LET q == requests[r]
    IN  /\ q.at = "reread"
        /\ Go(r, IF EndpointExists(q.endpoint)
                 THEN [at |-> "updateAnswer", endpoint |-> q.endpoint,
                       row |-> endpoints[q.endpoint]]
                 ELSE NoRequest)
        /\ UNCHANGED vars

\* 204, also when another request has deleted the row, unless the foreign key
\* of an attempt refuses.
AnswerDelete(r) ==
    LET q == requests[r]
    IN  /\ q.at = "delete"
        /\ \/ DeleteEndpoint(q.endpoint)
           \/ /\ \/ ~EndpointExists(q.endpoint)
                 \/ \E a \in attempts : a.endpoint = q.endpoint
              /\ UNCHANGED storeVars
        /\ Go(r, NoRequest)
        /\ Elsewhere

\* GET /api/endpoints/{id}/deliveries: rows that no formula is about.
AnswerDeliveries(r) ==
    /\ requests[r].at = "deliveries"
    /\ Go(r, NoRequest)
    /\ UNCHANGED vars

\* A statement reports an error, and the client is told so.  When it has been
\* applied all the same, that looks like the request of another client just
\* before.
RequestFails(r) ==
    /\ StoreMayFail
    /\ requests[r].at \notin Answered
    /\ ~(requests[r].at = "detail" /\ requests[r].by = "dashboard")
    /\ Go(r, NoRequest)
    /\ UNCHANGED vars
-----------------------------------------------------------------------------
Begin(r) ==
    \/ \E e \in Event : \/ \E h \in Handler : BeginDetail(r, e, h)
                        \/ "replay" \in Scenario /\ BeginReplay(r, e)
    \/ \E p \in Endpoint :
         \/ BeginDeliveries(r, p)
         \/ "update" \in Scenario /\ BeginToggle(r, p)
         \/ "update" \in Scenario /\ \E change \in Change : BeginPatch(r, p, change)
         \/ "delete" \in Scenario /\ BeginDelete(r, p)

HandleRequest(r) == \/ Begin(r)
                    \/ AnswerDetail(r) \/ ShowBarePage(r) \/ AnswerReplay(r)
                    \/ Update(r) \/ AnswerUpdate(r) \/ AnswerDelete(r) \/ AnswerDeliveries(r) \/ RequestFails(r)

ManagementNext == \/ \E r \in Request : HandleRequest(r)
                  \/ Next /\ UNCHANGED requests

ManagementSpec == ManagementInit /\ [][ManagementNext]_managementVars
-----------------------------------------------------------------------------
\* However the statements of requests interleave, the tables and the pipeline
\* see nothing but requests of one statement each.
ManagementIsPipeline == Spec

\* An event that is shown as delivered or dead is shown with the attempt that
\* made it so, although its status is read before its attempts, although it may
\* have been replayed in between and although either statement may fail
\* (handleGetEvent, handleEventDetail).  There is one exception, the page of
\* the dashboard whose second statement failed: it shows the status and, as
\* event_detail.html has it, "No delivery attempts yet."
Explained(status, e, rows) ==
    /\ status = "delivered" => \E a \in rows : ShowsSuccess(a, e)
    /\ status = "dead" => \E a \in rows : ShowsExhaustion(a, e)

DetailExplainsStatus ==
    \A r \in Request : LET q == requests[r] IN
        q.at = "detailAnswer" => \/ Explained(q.status, q.event, q.rows)
                                 \/ q.by = "dashboard" /\ q.rows = {}

\* A toggle or PATCH writes what it names, and leaves alone what others have
\* changed since it read the row (handleToggleEndpoint, handleUpdateEndpoint).
UnnamedFieldsKept ==
    [][\A r \in Request : LET q == requests[r] IN
           q.at = "update" /\ requests'[r] # q =>
               /\ q.change.state = "keep" =>
                      endpoints'[q.endpoint].state = endpoints[q.endpoint].state
               /\ q.change.topics = {} =>
                      endpoints'[q.endpoint].topics = endpoints[q.endpoint].topics]_managementVars
=============================================================================
