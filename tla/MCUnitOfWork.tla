---------------------------- MODULE MCUnitOfWork ----------------------------
(* Values of UnitOfWork's constants for TLC. *)
EXTENDS UnitOfWork

CONSTANTS w1, w2

(* The outer function of w1 writes 1 and 2 and its nested one 3; the outer  *)
(* one of w2 writes 2, its nested one only needs a connection; 3 is also   *)
(* written outside of units.                                               *)
Rows == [at \in Worker \X (0 .. MaxDepth) |->
           CASE at = <<w1, 1>> -> {1, 2}
             [] at = <<w2, 1>> -> {2}
             [] at \in {<<w1, 2>>, <<w2, 0>>} -> {3}
             [] OTHER          -> {}]
=============================================================================
