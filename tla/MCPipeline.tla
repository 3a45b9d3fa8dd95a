----------------------------- MODULE MCPipeline -----------------------------
(* Small runs of the Pipeline for TLC: no limit, one record, three records. *)
EXTENDS Pipeline

MCCounts == {0, 1, 3}
=============================================================================
