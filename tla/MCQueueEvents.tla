---------------------------- MODULE MCQueueEvents ----------------------------
(* QueueEvents on the small sets of MCQueueService. *)
EXTENDS MCQueueService, QueueEvents

CONSTANTS e1, e2

(* Ticket ids are interchangeable: to check liveness without symmetry it is *)
(* enough to start with one assignment of ids to the parties that wait.     *)
MCInit == LiveInit /\ rows[e1].joinedAt = 1 /\ rows[e2].joinedAt = 2

MCFairSpec == MCInit /\ [][LiveNext]_liveVars /\ LiveFairness
=============================================================================
