------------------------------ MODULE Pipeline ------------------------------
(***************************************************************************)
(* An event on its way through pkg/messaging: the outbox of one service,   *)
(* as OutboxDelivery promises it, the consumers of another, as             *)
(* QueueHandling promises them, and between them the queue that the poller *)
(* of QueueDepth measures.  Neither promise says how often, so an event    *)
(* may arrive in several copies.                                           *)
(***************************************************************************)
EXTENDS Naturals, FiniteSets

CONSTANTS Event,
          Undeliverable,  \* events whose body the queue never takes
          Refused,        \* events the handler refuses for good
          Repeated,       \* bound: events that may arrive a second time
          MaxFaults       \* bound on what fails in the measuring

(* The queue never holds an event whose body it does not take. *)
Message == ((Event \ Undeliverable) \X {1}) \cup (Repeated \X {2})

ASSUME PipelineAssumption ==
    /\ IsFiniteSet(Event)
    /\ Undeliverable \subseteq Event
    /\ Refused \subseteq Event \ Undeliverable
    /\ Repeated \subseteq Event \ Undeliverable
    /\ MaxFaults \in Nat

VARIABLES
    outbox,                       \* what became of each event
    fate, handled,                \* what became of each message
    policy,                       \* the queue has its RedrivePolicy
    pc, dlqKnown, gauge, faults,  \* the poller
    present                       \* history: messages there at the poll in hand

queue == <<fate, handled>>
poller == <<pc, dlqKnown, gauge, faults>>
vars == <<outbox, queue, policy, poller, present>>

Having(f) == {m \in Message : fate[m] = f}

Outbox == INSTANCE OutboxDelivery WITH fate <- outbox

Queue == INSTANCE QueueHandling WITH Bad <- {m \in Message : m[1] \in Refused}

Poller == INSTANCE QueueDepth WITH visible <- Cardinality(Having("visible")),
                                   inFlight <- Cardinality(Having("inFlight")),
                                   dead <- Cardinality(Having("dlq"))

Init == /\ Outbox!Init /\ Poller!Init
        /\ fate = [m \in Message |-> "absent"] /\ handled = {}
        /\ policy = FALSE
        /\ present = {}

-----------------------------------------------------------------------------
Record(e) == /\ Outbox!Record(e)
             /\ UNCHANGED <<queue, policy, poller, present>>

(* What the outbox delivers, the queue holds. *)
Deliver(S) == /\ S # {} /\ S \cap Undeliverable = {}
              /\ Outbox!Deliver(S)
              /\ Queue!Arrive({<<e, 1>> : e \in S})
              /\ UNCHANGED <<policy, poller, present>>

Repeat(m) == /\ outbox[m[1]] = "delivered"
             /\ Queue!Arrive({m})
             /\ UNCHANGED <<outbox, policy, poller, present>>

SetAside(S) == /\ S # {}
               /\ Outbox!Refuse(S)
               /\ UNCHANGED <<queue, policy, poller, present>>

(* Without a RedrivePolicy no message is given up. *)
Consume(S) == /\ S # {}
              /\ \/ Queue!Receive(S) \/ Queue!Reappear(S)
                 \/ Queue!Handle(S) \/ Queue!Confirm(S)
                 \/ policy /\ Queue!GiveUp(S)
              /\ UNCHANGED <<outbox, policy, poller, present>>

(* The policy may come after the queue is in use. *)
SetPolicy == /\ ~policy
             /\ policy' = TRUE
             /\ UNCHANGED <<outbox, queue, poller, present>>

Measure == /\ Poller!Next
           /\ present' = IF pc' # "pollDLQ" THEN {}
                         ELSE Having("visible") \cup Having("inFlight") \cup Having("dlq")
           /\ UNCHANGED <<outbox, queue, policy>>

Next == \/ \E e \in Event : Record(e)
        \/ \E S \in SUBSET Event : Deliver(S) \/ SetAside(S)
        \/ \E m \in Message : Repeat(m)
        \/ \E S \in SUBSET Message : Consume(S)
        \/ SetPolicy \/ Measure

(* Each part makes its own progress, and someone sets the policy. *)
Spec == /\ Init /\ [][Next]_vars
        /\ Outbox!Progress /\ Queue!Progress /\ Poller!Fairness
        /\ WF_vars(SetPolicy)

-----------------------------------------------------------------------------
(* Properties.                                                             *)

(* Every recorded event is handled, or set aside in the outbox, or someone *)
(* can see a message of the dead-letter queue in the gauge, even if the    *)
(* RedrivePolicy came late or reads failed (discoverDLQ, pollDLQ).         *)
EveryEventIsHandledOrSeen ==
    \A e \in Event : outbox[e] = "waiting" ~>
        \/ \E m \in handled : m[1] = e
        \/ outbox[e] = "refused"
        \/ gauge.dlq > 0

(* Once the messages settled, the gauges show what is there for good,      *)
(* whatever failed before (poll, pollDLQ).                                 *)
GaugesSettle ==
    <>[](gauge = [visible   |-> Cardinality(Having("visible")),
                  in_flight |-> Cardinality(Having("inFlight")),
                  dlq       |-> Cardinality(Having("dlq"))])

(* A poll that reads both queues counts every message that was there from  *)
(* its start, even one that moved to the dead-letter queue meanwhile: the  *)
(* order of the reads is that of the messages (poll).                      *)
PollMissesNoMessage ==
    [][pc = "pollDLQ" /\ pc' = "poll" /\ faults' = faults =>
          gauge'.visible + gauge'.in_flight + gauge'.dlq >=
             Cardinality({m \in present : fate[m] # "deleted"})]_vars
=============================================================================
