----------------------------- MODULE MCPipeline -----------------------------
(* Pipeline for TLC: its constants are given in the .cfg file. *)
EXTENDS Pipeline
=============================================================================
