------------------------------ MODULE MCQueueApi ------------------------------
(* QueueApi on small sets. *)
EXTENDS QueueApi

(* Below zero, and an odd number of half minutes. *)
MCPredictions == {-3, 1}
=============================================================================
