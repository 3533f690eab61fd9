--------------------------- MODULE MCOutboxRelay ----------------------------
(* Values of OutboxRelay's constants for TLC. *)
EXTENDS OutboxRelay

(* Two bodies that fill a batch together and one that fills it alone. *)
ThreeSizes == <<1, 3, 4>>

(* A body that the queue takes and one that it does not. *)
TwoSizes == <<1, 5>>
=============================================================================
