------------------------------- MODULE Intake -------------------------------
(***************************************************************************)
(* What POST /api/events promises to clients that send idempotency keys,   *)
(* with handlers, statements and failures hidden: a key is bound to one    *)
(* event, once and for all, and every answer for the key names that event. *)
(***************************************************************************)
CONSTANTS Event, Key, Client

VARIABLES
    bound,   \* the event of each key, as a set that is empty until there is one
    answer   \* the last answer of each client

NoAnswer == [key |-> {}, event |-> {}]
AnswerFor(k, e) == [key |-> {k}, event |-> {e}]

Init == /\ bound = [k \in Key |-> {}]
        /\ answer = [c \in Client |-> NoAnswer]

\* An event takes the key, and its client may get to know or not.
Bind(k, e) ==
    /\ bound[k] = {}
    /\ \A l \in Key : e \notin bound[l]
    /\ bound' = [bound EXCEPT ![k] = {e}]
    /\ \/ UNCHANGED answer
       \/ \E c \in Client : answer' = [answer EXCEPT ![c] = AnswerFor(k, e)]

Repeat(c, k) ==
    /\ \E e \in bound[k] : answer' = [answer EXCEPT ![c] = AnswerFor(k, e)]
    /\ UNCHANGED bound

\* The client posts something else, or hears nothing.
Forget(c) ==
    /\ answer' = [answer EXCEPT ![c] = NoAnswer]
    /\ UNCHANGED bound

Next == \/ \E k \in Key, e \in Event : Bind(k, e)
        \/ \E c \in Client : Forget(c) \/ \E k \in Key : Repeat(c, k)

Spec == Init /\ [][Next]_<<bound, answer>>
=============================================================================
