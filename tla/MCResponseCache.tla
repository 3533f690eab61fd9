-------------------------- MODULE MCResponseCache ---------------------------
(* ResponseCache for TLC: its constants are given in the .cfg files. *)
EXTENDS ResponseCache
=============================================================================
