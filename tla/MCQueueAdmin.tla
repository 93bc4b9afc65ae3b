---------------------------- MODULE MCQueueAdmin ----------------------------
(* Queue administration with two I/O queue identifiers: queues may share a *)
(* completion queue, and a completion queue may lose one of two.           *)
EXTENDS QueueAdmin
=============================================================================
