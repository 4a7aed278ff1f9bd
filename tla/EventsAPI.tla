------------------------------ MODULE EventsAPI ------------------------------
(***************************************************************************)
(* The events API towards its clients: posting events with idempotency     *)
(* keys (handleCreateEvent) and reading the table page by page             *)
(* (handleListEvents, handleListDeadEvents), while the pipeline and         *)
(* operators change statuses.                                              *)
(*                                                                         *)
(* Rows are never deleted: in Pipeline, EventsAreKept.  A POST without a   *)
(* key is one statement and is the pipeline's CreateEvent.                 *)
(***************************************************************************)
EXTENDS Integers, FiniteSets

CONSTANTS
    Event,     \* event ids; ULIDs are compared as they are made, as numbers here
    Key,       \* idempotency keys
    Client,    \* clients that post
    Reader,    \* clients that read pages
    PageSize,  \* LIMIT of a page
    Status,    \* statuses that a row can have
    Query      \* what is read: "all" rows, those of one status, or the "dead letters"

ASSUME IdsAreNumbers == Event \subseteq Nat \ {0}
ASSUME PagesHoldRows == PageSize \in Nat \ {0}
ASSUME StatusIsKnown == {"pending", "dead"} \subseteq Status
ASSUME QueryIsKnown == Query \subseteq {"all", "dead letters"} \cup Status

VARIABLES
    keys,      \* idempotency_key of each row, {} where there is no row
    status,    \* status of each row
    updates,   \* updated_at of each row, as the number of rows updated since
    posts,     \* what each client has posted, and how far the handler is
    listings   \* what each reader has read so far

tableVars == <<keys, status, updates>>
vars == <<tableVars, posts, listings>>

Exists(e) == keys[e] # {}
Keyed(k) == {e \in Event : keys[e] = {k}}
-----------------------------------------------------------------------------
(***************************************************************************)
(* POST /api/events.                                                       *)
(***************************************************************************)
NoPost == [at |-> "idle"]
Post == {NoPost}
        \cup [at : {"creating", "answered"}, key : Key, event : Event]
        \cup [at : {"failed"}, key : Key]

Become(c, p) == posts' = [posts EXCEPT ![c] = p]

\* A client posts, or posts again after an error.
MayPost(c, k) == \/ posts[c].at \in {"idle", "answered"}
                 \/ posts[c].at = "failed" /\ posts[c].key = k

\* GetEventByIdempotencyKey finds the event: 200 with its id.
FindEvent(c, k) ==
    /\ MayPost(c, k)
    /\ \E e \in Keyed(k) : Become(c, [at |-> "answered", key |-> k, event |-> e])
    /\ UNCHANGED <<tableVars, listings>>

\* Mutant: the idempotency check is left out.
DrawIdAlways(c, k) ==
    /\ MayPost(c, k)
    /\ \E e \in Event :
         /\ ~Exists(e)
         /\ \A d \in Client : posts[d].at = "creating" => posts[d].event # e
         /\ Become(c, [at |-> "creating", key |-> k, event |-> e])
    /\ UNCHANGED <<tableVars, listings>>

\* It finds none, and NewEvent draws an id.
DrawId(c, k) ==
    /\ MayPost(c, k)
    /\ Keyed(k) = {}
    /\ \E e \in Event :
         /\ ~Exists(e)
         /\ \A d \in Client : posts[d].at = "creating" => posts[d].event # e
         /\ Become(c, [at |-> "creating", key |-> k, event |-> e])
    /\ UNCHANGED <<tableVars, listings>>

\* updated_at = NOW().
Touch(e) ==
    LET older == {f \in Event \ {e} : Exists(f) /\ (Exists(e) => updates[f] < updates[e])}
    IN  updates' = [f \in Event |-> IF f = e THEN 0
                                    ELSE IF f \in older THEN updates[f] + 1 ELSE updates[f]]

\* Mutant: idempotency_key without its UNIQUE constraint.
UniqueDropped(k) == TRUE

UniqueHolds(k) == Keyed(k) = {}

Insert(e, k) ==
    /\ UniqueHolds(k)
    /\ keys' = [keys EXCEPT ![e] = {k}]
    /\ status' = [status EXCEPT ![e] = "pending"]
    /\ Touch(e)

\* Mutant: the error of the insert is not looked at.
InsertIgnoringErrors(c) ==
    LET p == posts[c]
    IN  /\ p.at = "creating"
        /\ Insert(p.event, p.key) \/ (~UniqueHolds(p.key) /\ UNCHANGED tableVars)
        /\ Become(c, [p EXCEPT !.at = "answered"])
        /\ UNCHANGED listings

\* 201, or 500 when another request has taken the key since.
InsertEvent(c) ==
    LET p == posts[c]
    IN  /\ p.at = "creating"
        /\ \/ Insert(p.event, p.key) /\ Become(c, [p EXCEPT !.at = "answered"])
           \/ /\ ~UniqueHolds(p.key)
              /\ Become(c, [at |-> "failed", key |-> p.key])
              /\ UNCHANGED tableVars
        /\ UNCHANGED listings

\* Mutant: the id of the event that may not exist is kept.
PostFailsWithId(c) ==
    /\ posts[c].at = "creating"
    /\ Become(c, [posts[c] EXCEPT !.at = "failed"])
    /\ UNCHANGED <<tableVars, listings>>

\* 500 or no answer at all: a statement reports an error, the connection or the
\* process is lost.  The row may have been inserted all the same.
PostFails(c) ==
    LET p == posts[c]
    IN  /\ p.at = "creating"
        /\ Insert(p.event, p.key) \/ UNCHANGED tableVars
        /\ Become(c, [at |-> "failed", key |-> p.key])
        /\ UNCHANGED listings

\* 500: the look-up of the key reports an error other than that there is none.
FindFails(c, k) ==
    /\ MayPost(c, k)
    /\ Become(c, [at |-> "failed", key |-> k])
    /\ UNCHANGED <<tableVars, listings>>
-----------------------------------------------------------------------------
(***************************************************************************)
(* GET /api/events and GET /api/events/dead, read page by page: the next   *)
(* page is the one before the last id of this page, until one is not full. *)
(***************************************************************************)
NoListing == [at |-> "idle"]
Listing == {NoListing}
           \cup [at : {"reading", "read"}, query : Query, before : Event \cup {0},
                 shown : SUBSET Event, steady : SUBSET Event]

Matches(e, q) == Exists(e) /\ (q = "all" \/ status[e] = IF q = "dead letters" THEN "dead" ELSE q)

\* ORDER BY updated_at DESC for dead letters, ORDER BY id DESC for the rest;
\* mutant: ORDER BY updated_at DESC for all.
PrecedesByUpdate(q, e, f) == updates[e] < updates[f]

Precedes(q, e, f) == IF q = "dead letters" THEN updates[e] < updates[f] ELSE e > f

\* Mutant: the row of the cursor belongs to the next page.
NotAfter(e, before) == before # 0 => e <= before

Before(e, before) == before # 0 => e < before

\* The rows of a page, and the row that ends it.
Page(q, before) ==
    LET found == {e \in Event : Matches(e, q) /\ Before(e, before)}
    IN  {e \in found : Cardinality({f \in found : Precedes(q, f, e)}) < PageSize}
EndOf(q, page) == {e \in page : \A f \in page \ {e} : Precedes(q, f, e)}

\* steady is no state of the code: it is the set of rows that have matched ever
\* since the reader began.
StartListing(r, q) ==
    /\ listings[r].at # "reading"
    /\ listings' = [listings EXCEPT ![r] =
                        [at |-> "reading", query |-> q, before |-> 0, shown |-> {},
                         steady |-> {e \in Event : Matches(e, q)}]]
    /\ UNCHANGED <<tableVars, posts>>

\* A page that cannot be read is a 500, and the reader asks for it again.
ReadPage(r) ==
    LET l == listings[r]
        page == Page(l.query, l.before)
        next == [l EXCEPT !.shown = @ \cup page]
    IN  /\ l.at = "reading"
        /\ \/ /\ Cardinality(page) < PageSize
              /\ listings' = [listings EXCEPT ![r] = [next EXCEPT !.at = "read"]]
           \/ /\ Cardinality(page) = PageSize
              /\ \E e \in EndOf(l.query, page) :
                   listings' = [listings EXCEPT ![r] = [next EXCEPT !.before = e]]
        /\ UNCHANGED <<tableVars, posts>>

\* A worker, a poller or an operator sets the status of a row.
SetStatus(e, s) ==
    /\ Exists(e)
    /\ status[e] # s
    /\ status' = [status EXCEPT ![e] = s]
    /\ Touch(e)
    /\ listings' = [r \in Reader |->
          IF listings[r].at = "reading" /\ listings[r].query # "all"
          THEN [listings[r] EXCEPT !.steady = @ \ {e}]
          ELSE listings[r]]
    /\ UNCHANGED <<keys, posts>>
-----------------------------------------------------------------------------
Init ==
    /\ keys = [e \in Event |-> {}]
    /\ status = [e \in Event |-> "pending"]
    /\ updates = [e \in Event |-> 0]
    /\ posts = [c \in Client |-> NoPost]
    /\ listings = [r \in Reader |-> NoListing]

HandlePost(c) == InsertEvent(c) \/ \E k \in Key : FindEvent(c, k) \/ DrawId(c, k)

Next == \/ \E c \in Client : \/ HandlePost(c) \/ PostFails(c)
                             \/ \E k \in Key : FindFails(c, k)
        \/ \E r \in Reader : ReadPage(r) \/ \E q \in Query : StartListing(r, q)
        \/ \E e \in Event, s \in Status : SetStatus(e, s)

Spec == Init /\ [][Next]_vars

\* Handlers run to their end, clients post again after an error, and readers
\* go on until the last page.
FairSpec ==
    /\ Spec
    /\ \A c \in Client : WF_vars(posts[c].at \in {"creating", "failed"} /\ HandlePost(c))
    /\ \A r \in Reader : WF_vars(ReadPage(r))
-----------------------------------------------------------------------------
TypeOK ==
    /\ keys \in [Event -> {{}} \cup {{k} : k \in Key}]
    /\ status \in [Event -> Status]
    /\ updates \in [Event -> Nat]
    /\ posts \in [Client -> Post]
    /\ listings \in [Reader -> Listing]

\* Requests that race with one key, fail or are repeated leave one event, and
\* every answer that any client gets for the key names that event, although
\* the look-up and the insert are two statements (handleCreateEvent).
AnswersAgree ==
    \A c \in Client : posts[c].at = "answered" => Keyed(posts[c].key) = {posts[c].event}

\* The API implements the intake: keys are bound and answered in no other ways.
AnswerOf(p) == IF p.at = "answered" THEN [key |-> {p.key}, event |-> {p.event}]
                                    ELSE [key |-> {}, event |-> {}]
I == INSTANCE Intake WITH bound <- [k \in Key |-> Keyed(k)],
                          answer <- [c \in Client |-> AnswerOf(posts[c])]
ImplementsIntake == I!Spec

\* A failure that looks like the loss of a race is none.
NoFailure == \A c \in Client : /\ PostFails(c) => InsertEvent(c)
                              /\ \A k \in Key : ~FindFails(c, k)

\* A client that repeats its request after an error, the loss of a race
\* included, is told the id of its event in the end.
RetriesAreAnswered ==
    <>[][NoFailure]_vars =>
        \A c \in Client, k \in Key :
            posts[c].at = "failed" /\ posts[c].key = k
                ~> posts[c].at = "answered" /\ posts[c].key = k

\* Following the cursor of GET /api/events to the end shows every event that
\* matched from the first page to the last, although rows are inserted and
\* change their statuses between two pages.  The dead letters, which are not in
\* the order of their ids, have no such guarantee.
PagesComplete ==
    \A r \in Reader : LET l == listings[r] IN
        l.at = "read" /\ l.query # "dead letters" => l.steady \subseteq l.shown

\* A reader that follows the cursor gets to the last page.
ListingsEnd == \A r \in Reader : listings[r].at = "reading" ~> listings[r].at = "read"
=============================================================================
