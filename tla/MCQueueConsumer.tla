-------------------------- MODULE MCQueueConsumer ---------------------------
(* QueueConsumer for TLC: its constants are given in the .cfg files. *)
EXTENDS QueueConsumer
=============================================================================
