----------------------------- MODULE MCPipeline -----------------------------
(* The delivery pipeline on small instances with one topic.                  *)
EXTENDS PipelineProperties

OneTopic == [e \in Event |-> "orders"]
=============================================================================
