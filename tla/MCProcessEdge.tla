--------------------------- MODULE MCProcessEdge ---------------------------
(* Small invocations for TLC: no limit, and one or two records.            *)
EXTENDS ProcessEdge

MCCounts == {0, 1, 2}
=============================================================================
