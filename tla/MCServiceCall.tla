--------------------------- MODULE MCServiceCall ----------------------------
(* ServiceCall for TLC: its constants are given in the .cfg files. *)
EXTENDS ServiceCall
=============================================================================
