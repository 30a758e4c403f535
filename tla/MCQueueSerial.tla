---------------------------- MODULE MCQueueSerial ----------------------------
(* QueueSerial on the small sets of MCQueueService. *)
EXTENDS MCQueueService, QueueSerial
=============================================================================
