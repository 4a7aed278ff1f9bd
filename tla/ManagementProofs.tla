-------------------------- MODULE ManagementProofs --------------------------
(***************************************************************************)
(* Proofs about the requests of several statements, for every value of the *)
(* constants: any number of requests at a time, next to any pipeline.      *)
(***************************************************************************)
EXTENDS Management, PipelineProofs

(***************************************************************************)
(* Types.                                                                  *)
(***************************************************************************)
\* What a handler holds between two statements.
LEMMA RequestTypes ==
    ASSUME NEW q \in RequestState
    PROVE  /\ q.at \in {"detail", "detailAnswer"} =>
                  q.event \in Event /\ q.by \in Handler /\ q.status \in ShownStatus
           /\ q.at = "replay" => q.event \in Event
           /\ q.at = "update" => q.endpoint \in Endpoint /\ q.change \in Change
           /\ q.at \in {"reread", "delete", "deliveries"} => q.endpoint \in Endpoint
BY DEF RequestState, NoRequest

\* The row that an update leaves is a row of the table, and an update never
\* brings a row back or takes one away.
LEMMA CoalesceType ==
    ASSUME NEW change \in Change, NEW row \in EndpointRow, row.state \in {"enabled", "disabled"}
    PROVE  /\ Coalesce(change, row).state \in {"enabled", "disabled"}
           /\ Coalesce(change, row).topics \in SUBSET Topic
BY DEF Coalesce, Change, EndpointRow

LEMMA NegatedIsChange ==
    ASSUME NEW s
    PROVE  Naming(Negated(s)) \in Change
BY DEF Naming, Negated, Change

\* A step of a request takes that request to one of its states.
LEMMA HandleRequestType ==
    ASSUME StoreTypeOK, ManagementTypeOK, NEW r \in Request, HandleRequest(r)
    PROVE  ManagementTypeOK'
<1> DEFINE q == requests[r]
           Moves == \E state \in RequestState : requests' = [requests EXCEPT ![r] = state]
<1> USE DEF Go, GetEvent, GetEndpoint
<1>q. q \in RequestState
    BY DEF ManagementTypeOK
<1>0. NoRequest \in RequestState
    BY DEF RequestState
<1>1. CASE \E e \in Event : BeginReplay(r, e) \/ \E h \in Handler : BeginDetail(r, e, h)
  <2>1. \A e \in Event :
            /\ \A h \in Handler : EventExists(e) =>
                   [at |-> "detail", by |-> h, event |-> e, status |-> events[e]] \in RequestState
            /\ [at |-> "replay", event |-> e] \in RequestState
      BY DEF RequestState, StoreTypeOK, EventExists, ShownStatus
  <2>2. Moves
      BY <1>1, <2>1 DEF BeginDetail, BeginReplay
  <2> QED BY <2>2 DEF ManagementTypeOK
<1>2. CASE \E p \in Endpoint : \/ BeginDeliveries(r, p) \/ BeginDelete(r, p) \/ BeginToggle(r, p)
                               \/ \E change \in Change : BeginPatch(r, p, change)
  <2>1. \A p \in Endpoint :
            /\ [at |-> "deliveries", endpoint |-> p] \in RequestState
            /\ [at |-> "delete", endpoint |-> p] \in RequestState
            /\ \A change \in Change :
                   [at |-> "update", endpoint |-> p, change |-> change] \in RequestState
      BY DEF RequestState
  <2>2. Moves
      BY <1>2, <2>1, NegatedIsChange DEF BeginDeliveries, BeginDelete, BeginToggle, BeginPatch
  <2> QED BY <2>2 DEF ManagementTypeOK
<1>3. CASE AnswerDetail(r) \/ ShowBarePage(r)
  <2>1. q.at = "detail"
      BY <1>3 DEF AnswerDetail, ShowBarePage
  <2>2. \A rows \in SUBSET AttemptRow : Detail(q, rows) \in RequestState
      BY <1>q, <2>1, RequestTypes DEF Detail, RequestState
  <2>3. {} \in SUBSET AttemptRow /\ GetDeliveryAttemptsByEvent(q.event) \in SUBSET AttemptRow
      BY DEF GetDeliveryAttemptsByEvent, StoreTypeOK
  <2>4. Moves
      BY <1>3, <2>2, <2>3 DEF AnswerDetail, ShowBarePage
  <2> QED BY <2>4 DEF ManagementTypeOK
<1>4. CASE Update(r)
  <2>1. [at |-> "reread", endpoint |-> q.endpoint] \in RequestState
      BY <1>4, <1>q, RequestTypes DEF Update, RequestState
  <2> QED BY <1>4, <2>1 DEF Update, ManagementTypeOK
<1>5. CASE AnswerUpdate(r)
  <2>1. q.endpoint \in Endpoint
      BY <1>5, <1>q, RequestTypes DEF AnswerUpdate
  <2>2. EndpointExists(q.endpoint) => endpoints[q.endpoint] \in ShownRow
      BY <2>1 DEF EndpointExists, ShownRow, StoreTypeOK, EndpointRow
  <2>3. EndpointExists(q.endpoint) =>
            [at |-> "updateAnswer", endpoint |-> q.endpoint,
             row |-> endpoints[q.endpoint]] \in RequestState
      BY <2>1, <2>2 DEF RequestState
  <2> QED BY <1>0, <1>5, <2>3 DEF AnswerUpdate, ManagementTypeOK
<1>6. CASE AnswerReplay(r) \/ AnswerDelete(r) \/ AnswerDeliveries(r) \/ RequestFails(r)
    BY <1>0, <1>6 DEF AnswerReplay, AnswerDelete, AnswerDeliveries, RequestFails, ManagementTypeOK
<1> QED BY <1>1, <1>2, <1>3, <1>4, <1>5, <1>6 DEF HandleRequest, Begin

(***************************************************************************)
(* Management refines the pipeline.                                        *)
(***************************************************************************)
\* A handler between its statements is one of those that may occur.
HandlersAllowed ==
    \A r \in Request : /\ requests[r].at = "replay" => "replay" \in Scenario
                       /\ requests[r].at = "update" => "update" \in Scenario
                       /\ requests[r].at = "delete" => "delete" \in Scenario

\* The statement that a handler issues is a request of one statement, or it
\* changes nothing.
LEMMA HandleRequestIsClientRequest ==
    ASSUME TypeOK, ManagementTypeOK, HandlersAllowed, NEW r \in Request, HandleRequest(r)
    PROVE  ClientRequest \/ UNCHANGED vars
<1> DEFINE q == requests[r]
<1> USE DEF Elsewhere, vars, storeVars, pollerVars
<1>q. q \in RequestState
    BY DEF ManagementTypeOK
<1>1. CASE AnswerReplay(r)
  <2>1. q.event \in Event /\ "replay" \in Scenario
      BY <1>1, <1>q, RequestTypes DEF AnswerReplay, HandlersAllowed
  <2>2. CASE EventExists(q.event)
      BY <1>1, <2>1, <2>2 DEF AnswerReplay, ClientRequest, HandleReplayEvent, ReplayEvent
  <2>3. CASE ~EventExists(q.event)
      BY <1>1, <2>1, <2>3 DEF AnswerReplay, UpdateEventStatus, TypeOK, StoreTypeOK
  <2> QED BY <2>2, <2>3
<1>2. CASE Update(r)
  <2> DEFINE row == Coalesce(q.change, endpoints[q.endpoint])
  <2>1. q.endpoint \in Endpoint /\ q.change \in Change /\ "update" \in Scenario
      BY <1>2, <1>q, RequestTypes DEF Update, HandlersAllowed
  <2>2. CASE UpdateEndpoint(q.endpoint, row.state, row.topics)
    <3>1. endpoints[q.endpoint] \in EndpointRow
          /\ endpoints[q.endpoint].state \in {"enabled", "disabled"}
        BY <2>1, <2>2 DEF UpdateEndpoint, EndpointExists, TypeOK, StoreTypeOK, EndpointRow
    <3>2. row.state \in {"enabled", "disabled"} /\ row.topics \in SUBSET Topic
        BY <2>1, <3>1, CoalesceType
    <3> QED BY <1>2, <2>1, <2>2, <3>2 DEF Update, ClientRequest, HandleUpdateEndpoint
  <2> QED BY <1>2, <2>2 DEF Update
<1>3. CASE AnswerDelete(r)
  <2>1. q.endpoint \in Endpoint /\ "delete" \in Scenario
      BY <1>3, <1>q, RequestTypes DEF AnswerDelete, HandlersAllowed
  <2> QED BY <1>3, <2>1 DEF AnswerDelete, ClientRequest, HandleDeleteEndpoint
<1> QED BY <1>1, <1>2, <1>3
        DEF HandleRequest, Begin, BeginDetail, BeginReplay, BeginDeliveries, BeginToggle, BeginPatch,
            BeginDelete, GetEvent, GetEndpoint, AnswerDetail, ShowBarePage, AnswerUpdate,
            AnswerDeliveries, RequestFails

LEMMA ManagementStepIsPipelineStep ==
    ASSUME TypeOK, ManagementTypeOK, HandlersAllowed, [ManagementNext]_managementVars
    PROVE  [Next]_vars
BY HandleRequestIsClientRequest DEF ManagementNext, managementVars, Next

LEMMA HandlersAllowedStep ==
    ASSUME ManagementTypeOK, HandlersAllowed, [ManagementNext]_managementVars
    PROVE  HandlersAllowed'
<1> USE DEF HandlersAllowed, ManagementTypeOK
<1>1. ASSUME NEW r \in Request, HandleRequest(r)
      PROVE  HandlersAllowed'
  <2>1. PICK state : /\ requests' = [requests EXCEPT ![r] = state]
                     /\ state.at = "replay" => "replay" \in Scenario
                     /\ state.at = "update" => "update" \in Scenario
                     /\ state.at = "delete" => "delete" \in Scenario
    <3> USE DEF Go, NoRequest
    <3>1. CASE Begin(r)
        BY <3>1 DEF Begin, BeginDetail, BeginReplay, BeginDeliveries, BeginToggle, BeginPatch,
                    BeginDelete, GetEvent, GetEndpoint
    <3>2. CASE ~Begin(r)
        BY <1>1, <3>2 DEF HandleRequest, AnswerDetail, ShowBarePage, Detail, AnswerReplay, Update,
                          AnswerUpdate, AnswerDelete, AnswerDeliveries, RequestFails
    <3> QED BY <3>1, <3>2
  <2> QED BY <2>1
<1>2. CASE UNCHANGED requests
    BY <1>2
<1> QED BY <1>1, <1>2 DEF ManagementNext, managementVars

\* What the refinement rests on.
ManagementIInv == IInv /\ ManagementTypeOK /\ HandlersAllowed

LEMMA ManagementIInvInit == ManagementInit => ManagementIInv
<1> SUFFICES ASSUME ManagementInit
             PROVE  ManagementIInv
    OBVIOUS
<1>1. IInv
    BY IInvInit DEF ManagementInit
<1>2. NoRequest \in RequestState /\ NoRequest.at = "idle"
    BY DEF RequestState, NoRequest
<1> QED BY <1>1, <1>2 DEF ManagementInit, ManagementIInv, ManagementTypeOK, HandlersAllowed

LEMMA ManagementIInvStep ==
    ASSUME ManagementIInv, [ManagementNext]_managementVars
    PROVE  ManagementIInv' /\ [Next]_vars
<1>1. TypeOK /\ StoreTypeOK
    BY DEF ManagementIInv, IInv, TypeOK
<1>2. [Next]_vars
    BY <1>1, ManagementStepIsPipelineStep DEF ManagementIInv
<1>3. IInv'
    BY <1>2, IInvStep DEF ManagementIInv
<1>4. ManagementTypeOK'
    BY <1>1, HandleRequestType
       DEF ManagementIInv, ManagementNext, managementVars, ManagementTypeOK
<1>5. HandlersAllowed'
    BY HandlersAllowedStep DEF ManagementIInv
<1> QED BY <1>2, <1>3, <1>4, <1>5 DEF ManagementIInv

\* The handlers' statements, in every interleaving, are requests of the pipeline.
THEOREM ManagementImplementsPipeline == ManagementSpec => ManagementIsPipeline
<1>1. ManagementInit => ManagementIInv /\ Init
    BY ManagementIInvInit DEF ManagementInit
<1>2. ManagementIInv /\ [ManagementNext]_managementVars => ManagementIInv' /\ [Next]_vars
    BY ManagementIInvStep
<1> QED BY <1>1, <1>2, PTL DEF ManagementSpec, ManagementIsPipeline, Spec

\* What handlers hold and answer is well-typed, and the pipeline's invariant
\* holds around them.
THEOREM ManagementInvariant == ManagementSpec => []ManagementIInv
<1>1. ManagementInit => ManagementIInv
    BY ManagementIInvInit
<1>2. ManagementIInv /\ [ManagementNext]_managementVars => ManagementIInv'
    BY ManagementIInvStep
<1> QED BY <1>1, <1>2, PTL DEF ManagementSpec

\* A request is in one of the states of its handler.
THEOREM ManagementTypeCorrect == ManagementSpec => []ManagementTypeOK
<1>1. ManagementIInv => ManagementTypeOK
    BY DEF ManagementIInv
<1> QED BY <1>1, ManagementInvariant, PTL

(***************************************************************************)
(* Answers.                                                                *)
(***************************************************************************)
\* What the tables owe to a request for details, from its first statement on.
Backed(q) ==
    /\ q.at = "detail" => Explained(q.status, q.event, attempts)
    /\ q.at = "detailAnswer" => \/ Explained(q.status, q.event, q.rows)
                                \/ q.by = "dashboard" /\ q.rows = {}

\* No step of the pipeline or of another request takes back what it rests on:
\* the rows that explain a final status are there to stay.
LEMMA BackedStays ==
    ASSUME IInv, [Next]_vars, NEW q, Backed(q)
    PROVE  Backed(q)'
<1>1. \A a \in attempts : ShowsSuccess(a, q.event) \/ ShowsExhaustion(a, q.event) => a \in attempts'
    BY StoreKept DEF IInv, HistoryUnbroken, Consistent, ShowsSuccess, ShowsExhaustion
<1>2. q.at = "detail" => Explained(q.status, q.event, attempts')
    BY <1>1 DEF Backed, Explained
<1>3. q.at = "detailAnswer" => \/ Explained(q.status, q.event, q.rows)
                               \/ q.by = "dashboard" /\ q.rows = {}
    BY DEF Backed
<1> QED BY <1>2, <1>3 DEF Backed, Explained

\* A step of a request finds what its next state rests on.
LEMMA HandleRequestBacked ==
    ASSUME ManagementIInv, NEW r \in Request, Backed(requests[r]), HandleRequest(r)
    PROVE  \E state : requests' = [requests EXCEPT ![r] = state] /\ Backed(state)'
<1> DEFINE q == requests[r]
<1> USE DEF Go, GetEvent, GetEndpoint, vars, storeVars
<1>0. ASSUME NEW state, requests' = [requests EXCEPT ![r] = state],
             state.at \notin {"detail", "detailAnswer"}
      PROVE  Backed(state)'
    BY <1>0 DEF Backed
<1>1. ASSUME NEW e \in Event, NEW h \in Handler, BeginDetail(r, e, h)
      PROVE  \E state : requests' = [requests EXCEPT ![r] = state] /\ Backed(state)'
  <2>1. Explained(events[e], e, attempts) /\ UNCHANGED attempts
      BY <1>1 DEF BeginDetail, ManagementIInv, IInv, StatusIsEarned, Explained
  <2>2. PICK s : s = [at |-> "detail", by |-> h, event |-> e, status |-> events[e]]
      OBVIOUS
  <2>3. s.at = "detail" /\ s.event = e /\ s.status = events[e]
      BY <2>2
  <2>4. Backed(s)'
      BY <2>1, <2>3 DEF Backed, Explained
  <2> QED BY <1>1, <2>2, <2>4 DEF BeginDetail
<1>2. ASSUME NEW rows, Explained(q.status, q.event, rows) \/ (q.by = "dashboard" /\ rows = {}),
             requests' = [requests EXCEPT ![r] = Detail(q, rows)]
      PROVE  \E state : requests' = [requests EXCEPT ![r] = state] /\ Backed(state)'
  <2>1. PICK s : s = Detail(q, rows)
      OBVIOUS
  <2>2. /\ s.at = "detailAnswer" /\ s.by = q.by /\ s.status = q.status
        /\ s.event = q.event /\ s.rows = rows
      BY <2>1 DEF Detail
  <2>3. PICK status, e, by : status = q.status /\ e = q.event /\ by = q.by
      OBVIOUS
  <2>4. Backed(s)'
      BY <1>2, <2>2, <2>3 DEF Backed, Explained
  <2> QED BY <1>2, <2>1, <2>4
<1>3. CASE AnswerDetail(r)
  <2>1. Explained(q.status, q.event, GetDeliveryAttemptsByEvent(q.event))
      BY <1>3 DEF AnswerDetail, GetDeliveryAttemptsByEvent, Backed, Explained, ShowsSuccess,
                  ShowsExhaustion
  <2> QED BY <1>2, <1>3, <2>1 DEF AnswerDetail
<1>4. CASE ShowBarePage(r)
    BY <1>2, <1>4 DEF ShowBarePage
<1>5. CASE Begin(r)
  <2>1. CASE \E e \in Event, h \in Handler : BeginDetail(r, e, h)
      BY <1>1, <2>1
  <2>2. CASE \E e \in Event : BeginReplay(r, e)
    <3>1. PICK e, s : s = [at |-> "replay", event |-> e] /\ requests' = [requests EXCEPT ![r] = s]
        BY <2>2 DEF BeginReplay
    <3> QED BY <1>0, <3>1
  <2>3. ASSUME NEW p, NEW change, BeginPatch(r, p, change)
        PROVE  \E state : requests' = [requests EXCEPT ![r] = state] /\ Backed(state)'
    <3>1. PICK s : s = [at |-> "update", endpoint |-> p, change |-> change]
        OBVIOUS
    <3> QED BY <1>0, <2>3, <3>1 DEF BeginPatch
  <2>4. ASSUME NEW p, BeginDelete(r, p) \/ BeginDeliveries(r, p)
        PROVE  \E state : requests' = [requests EXCEPT ![r] = state] /\ Backed(state)'
    <3>1. PICK s : /\ s \in [at : {"delete", "deliveries"}, endpoint : {p}]
                   /\ requests' = [requests EXCEPT ![r] = s]
        BY <2>4 DEF BeginDelete, BeginDeliveries
    <3> QED BY <1>0, <3>1
  <2> QED BY <1>5, <2>1, <2>2, <2>3, <2>4 DEF Begin, BeginToggle
<1>6. CASE \/ AnswerReplay(r) \/ AnswerDelete(r) \/ AnswerDeliveries(r) \/ RequestFails(r)
    BY <1>0, <1>6 DEF AnswerReplay, AnswerDelete, AnswerDeliveries, RequestFails, NoRequest
<1>7. CASE Update(r)
  <2>1. PICK s : s = [at |-> "reread", endpoint |-> q.endpoint]
      OBVIOUS
  <2>2. s.at = "reread" /\ requests' = [requests EXCEPT ![r] = s]
      BY <1>7, <2>1 DEF Update
  <2> QED BY <1>0, <2>2
<1>8. CASE AnswerUpdate(r)
  <2>1. PICK s : s = IF EndpointExists(q.endpoint)
                     THEN [at |-> "updateAnswer", endpoint |-> q.endpoint,
                           row |-> endpoints[q.endpoint]]
                     ELSE NoRequest
      OBVIOUS
  <2>2. s.at \in {"updateAnswer", "idle"}
      BY <2>1 DEF NoRequest
  <2>3. requests' = [requests EXCEPT ![r] = s]
      BY <1>8, <2>1 DEF AnswerUpdate
  <2> QED BY <1>0, <2>2, <2>3
<1> QED BY <1>3, <1>4, <1>5, <1>6, <1>7, <1>8 DEF HandleRequest

\* Every request, at any moment, is backed by the tables.
AllBacked == \A r \in Request : Backed(requests[r])

LEMMA AllBackedStep ==
    ASSUME ManagementIInv, AllBacked, [ManagementNext]_managementVars
    PROVE  AllBacked'
<1>1. [Next]_vars /\ IInv /\ ManagementTypeOK
    BY ManagementIInvStep DEF ManagementIInv
<1>2. \A q : Backed(q) => Backed(q)'
    BY <1>1, BackedStays
<1>3. ASSUME NEW r \in Request, HandleRequest(r), NEW s \in Request
      PROVE  Backed(requests[s])'
  <2>1. PICK state : requests' = [requests EXCEPT ![r] = state] /\ Backed(state)'
      BY <1>3, HandleRequestBacked DEF AllBacked
  <2>2. PICK t : t = requests'[s]
      OBVIOUS
  <2>3. t = state \/ t = requests[s]
      BY <1>1, <2>1, <2>2 DEF ManagementTypeOK
  <2>4. Backed(t)'
      BY <1>2, <2>1, <2>3 DEF AllBacked
  <2> QED BY <2>2, <2>4 DEF Backed, Explained
<1>4. ASSUME UNCHANGED requests, NEW s \in Request
      PROVE  Backed(requests[s])'
  <2>1. PICK t : t = requests[s]
      OBVIOUS
  <2>2. Backed(t)'
      BY <1>2, <2>1 DEF AllBacked
  <2> QED BY <1>4, <2>1, <2>2 DEF Backed, Explained
<1> QED BY <1>3, <1>4 DEF AllBacked, ManagementNext, managementVars

\* The event detail shows a final status with the attempt behind it, but for
\* the page of the dashboard that could not read any attempts.
THEOREM DetailExplained == ManagementSpec => []DetailExplainsStatus
<1>1. ManagementInit => AllBacked
    BY DEF ManagementInit, AllBacked, Backed, NoRequest
<1>2. ManagementIInv /\ AllBacked /\ [ManagementNext]_managementVars => AllBacked'
    BY AllBackedStep
<1>3. AllBacked => DetailExplainsStatus
    BY DEF AllBacked, Backed, DetailExplainsStatus
<1> QED BY <1>1, <1>2, <1>3, ManagementInvariant, PTL DEF ManagementSpec

(***************************************************************************)
(* Updates.                                                                *)
(***************************************************************************)
\* The UPDATE of an endpoint changes only fields that the request names.
LEMMA UpdateKeepsUnnamed ==
    ASSUME StoreTypeOK, ManagementTypeOK, NEW r \in Request, Update(r)
    PROVE  LET q == requests[r] IN
             /\ q.change.state = "keep" =>
                    endpoints'[q.endpoint].state = endpoints[q.endpoint].state
             /\ q.change.topics = {} =>
                    endpoints'[q.endpoint].topics = endpoints[q.endpoint].topics
<1> DEFINE q == requests[r]
           row == Coalesce(q.change, endpoints[q.endpoint])
<1>1. q.endpoint \in Endpoint
    BY RequestTypes DEF Update, ManagementTypeOK
<1>2. CASE UpdateEndpoint(q.endpoint, row.state, row.topics)
  <2>1. endpoints'[q.endpoint] = [state |-> row.state, topics |-> row.topics]
      BY <1>1, <1>2 DEF UpdateEndpoint, StoreTypeOK
  <2> QED BY <2>1 DEF Coalesce
<1>3. CASE UNCHANGED storeVars
    BY <1>3 DEF storeVars
<1> QED BY <1>2, <1>3 DEF Update

\* A request that is about to update goes on by its own UPDATE or by an error.
LEMMA UpdateIsNext ==
    ASSUME ManagementTypeOK, NEW r \in Request, requests[r].at = "update",
           [ManagementNext]_managementVars, requests'[r] # requests[r]
    PROVE  Update(r) \/ RequestFails(r)
<1>1. PICK s \in Request : HandleRequest(s)
    BY DEF ManagementNext, managementVars
<1>2. s = r
  <2>1. \E state : requests' = [requests EXCEPT ![s] = state]
      BY <1>1 DEF HandleRequest, Begin, BeginDetail, BeginReplay, BeginDeliveries, BeginToggle,
                  BeginPatch, BeginDelete, GetEvent, GetEndpoint, AnswerDetail, ShowBarePage,
                  AnswerReplay, Update, AnswerUpdate, AnswerDelete, AnswerDeliveries, RequestFails, Go
  <2> QED BY <2>1 DEF ManagementTypeOK
<1> QED BY <1>1, <1>2
        DEF HandleRequest, Begin, BeginDetail, BeginReplay, BeginDeliveries, BeginToggle, BeginPatch,
            BeginDelete, GetEvent, GetEndpoint, AnswerDetail, ShowBarePage, AnswerReplay, AnswerUpdate,
            AnswerDelete, AnswerDeliveries, Answered

\* A toggle or PATCH loses no change that another client has made, to a field
\* it does not name, since it read the row.
THEOREM UpdatesKeepTheRest == ManagementSpec => UnnamedFieldsKept
<1> DEFINE Kept(q) == /\ q.change.state = "keep" =>
                             endpoints'[q.endpoint].state = endpoints[q.endpoint].state
                      /\ q.change.topics = {} =>
                             endpoints'[q.endpoint].topics = endpoints[q.endpoint].topics
           Keeping == \A r \in Request : LET q == requests[r] IN
                         q.at = "update" /\ requests'[r] # q => Kept(q)
<1>1. ManagementIInv /\ [ManagementNext]_managementVars => [Keeping]_managementVars
  <2> SUFFICES ASSUME ManagementIInv, [ManagementNext]_managementVars, NEW r \in Request,
                      requests[r].at = "update", requests'[r] # requests[r]
               PROVE  Kept(requests[r])
      OBVIOUS
  <2>1. StoreTypeOK /\ ManagementTypeOK
      BY DEF ManagementIInv, IInv, TypeOK
  <2>2. CASE Update(r)
      BY <2>1, <2>2, UpdateKeepsUnnamed
  <2>3. CASE RequestFails(r)
      BY <2>3 DEF RequestFails, vars, storeVars
  <2> QED BY <2>1, <2>2, <2>3, UpdateIsNext
<1> QED BY <1>1, ManagementInvariant, PTL DEF ManagementSpec, UnnamedFieldsKept
=============================================================================
