---------------------------- MODULE MCManagement ----------------------------
(* A request of several statements next to the pipeline and other clients.   *)
EXTENDS Management

OneTopic == [e \in Event |-> "orders"]
=============================================================================
