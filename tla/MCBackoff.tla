----------------------------- MODULE MCBackoff -----------------------------
(* A delivery whose attempts outnumber the delays.                           *)
EXTENDS Backoff

OneTopic == [e \in Event |-> "orders"]
TwoDelays == <<1, 2>>
=============================================================================
