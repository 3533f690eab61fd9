--------------------------- MODULE OutboxDelivery ---------------------------
(***************************************************************************)
(* What the transactional outbox promises (package comment of              *)
(* pkg/messaging/outbox/relay.go): once an event is recorded it reaches    *)
(* the queue, however long the queue is away, unless the queue can never   *)
(* take it, in which case it is set aside.  How often an event is          *)
(* delivered is not part of the promise.                                   *)
(***************************************************************************)
CONSTANTS Event,          \* events of one outbox
          Undeliverable   \* events whose body the queue never takes

VARIABLE fate             \* what became of each event

Fates == {"absent", "waiting", "delivered", "refused"}

DeliveryTypeOK == fate \in [Event -> Fates]

Waiting == {e \in Event : fate[e] = "waiting"}

Init == fate = [e \in Event |-> "absent"]

Settle(S, f) == fate' = [e \in Event |-> IF e \in S THEN f ELSE fate[e]]

(* A service records an event together with its data. *)
Record(e) == /\ fate[e] = "absent"
             /\ Settle({e}, "waiting")

(* The queue takes some of the waiting events. *)
Deliver(S) == /\ S \subseteq Waiting
              /\ Settle(S, "delivered")

(* Events that the queue never takes are set aside. *)
Refuse(S) == /\ S \subseteq Waiting \cap Undeliverable
             /\ Settle(S, "refused")

Next == \/ \E e \in Event : Record(e)
        \/ \E S \in SUBSET Event : Deliver(S) \/ Refuse(S)

(* An event does not wait forever. *)
Progress == \A e \in Event :
    WF_fate(\E S \in SUBSET Event : e \in S /\ (Deliver(S) \/ Refuse(S)))

SafetySpec == Init /\ [][Next]_fate

Spec == SafetySpec /\ Progress
=============================================================================
