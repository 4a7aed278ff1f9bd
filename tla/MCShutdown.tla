----------------------------- MODULE MCShutdown -----------------------------
(* One process that is shut down, killed and started again.                  *)
EXTENDS Shutdown

OneTopic == [e \in Event |-> "orders"]
=============================================================================
