--------------------------- MODULE QueueHandling ----------------------------
(***************************************************************************)
(* What the consumers of a queue promise (package comment of               *)
(* pkg/messaging/consumer/consumer.go): a message is deleted only once it  *)
(* was handled, one that was not stays in the queue for the next delivery, *)
(* and every message ends deleted or in the dead-letter queue.  How often  *)
(* a message is handled is not part of the promise.                        *)
(***************************************************************************)
CONSTANTS Message,
          Bad             \* messages the handler refuses for good

VARIABLES fate,           \* where each message is
          handled         \* messages whose handling succeeded at least once

vars == <<fate, handled>>

Fates == {"absent", "visible", "inFlight", "deleted", "dlq"}

Waiting == {m \in Message : fate[m] \in {"visible", "inFlight"}}

Init == /\ fate \in [Message -> {"absent", "visible"}]
        /\ handled = {}

Move(S, f) == fate' = [m \in Message |-> IF m \in S THEN f ELSE fate[m]]

Arrive(S) == /\ \A m \in S : fate[m] = "absent"
             /\ Move(S, "visible")
             /\ UNCHANGED handled

(* Messages are given out, and show up again. *)
Receive(S) == /\ \A m \in S : fate[m] = "visible"
              /\ Move(S, "inFlight")
              /\ UNCHANGED handled

Reappear(S) == /\ \A m \in S : fate[m] = "inFlight"
               /\ Move(S, "visible")
               /\ UNCHANGED handled

(* Handling may end after the message left the queue. *)
Handle(S) == /\ \A m \in S : m \notin Bad /\ fate[m] # "absent"
             /\ handled' = handled \cup S
             /\ UNCHANGED fate

Confirm(S) == /\ S \subseteq Waiting \cap handled
              /\ Move(S, "deleted")
              /\ UNCHANGED handled

GiveUp(S) == /\ S \subseteq Waiting
             /\ Move(S, "dlq")
             /\ UNCHANGED handled

Change(S) == \/ Arrive(S) \/ Receive(S) \/ Reappear(S)
             \/ Handle(S) \/ Confirm(S) \/ GiveUp(S)

Next == \E S \in SUBSET Message : Change(S)

(* No message waits forever. *)
Progress == \A m \in Message :
    WF_vars(\E S \in SUBSET Message : m \in S /\ (Confirm(S) \/ GiveUp(S)))

SafetySpec == Init /\ [][Next]_vars

Spec == SafetySpec /\ Progress
=============================================================================
