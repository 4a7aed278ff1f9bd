---------------------------- MODULE TokenBucket ----------------------------
(***************************************************************************)
(* What the rate limiter promises each client: a token bucket of its own,  *)
(* that nothing but time fills and nothing but its requests empties.       *)
(***************************************************************************)
EXTENDS Integers

CONSTANTS
    Client,
    Burst,    \* tokens that a bucket holds, RATE_LIMIT_BURST
    Refill,   \* tokens that it gains in a unit of time, RATE_LIMIT_RPS
    MaxTime   \* bound of the clock

VARIABLES now, tokens, admitted, answer

Least(m, n) == IF m <= n THEN m ELSE n

Init == /\ now = 0
        /\ tokens = [c \in Client |-> Burst]
        /\ admitted = [c \in Client |-> 0]
        /\ answer = [c \in Client |-> "none"]

Tick == /\ now < MaxTime
        /\ now' = now + 1
        /\ tokens' = [c \in Client |-> Least(Burst, tokens[c] + Refill)]
        /\ UNCHANGED <<admitted, answer>>

Admit(c) == /\ tokens[c] > 0
            /\ tokens' = [tokens EXCEPT ![c] = @ - 1]
            /\ admitted' = [admitted EXCEPT ![c] = @ + 1]
            /\ answer' = [answer EXCEPT ![c] = "admitted"]
            /\ UNCHANGED now

Reject(c) == /\ tokens[c] = 0
             /\ answer' = [answer EXCEPT ![c] = "rejected"]
             /\ UNCHANGED <<now, tokens, admitted>>

Next == Tick \/ \E c \in Client : Admit(c) \/ Reject(c)

Spec == Init /\ [][Next]_<<now, tokens, admitted, answer>>
=============================================================================
