----------------------------- MODULE QueueDepth -----------------------------
(***************************************************************************)
(* pkg/messaging/queuedepth/queuedepth.go: a process that measures, every  *)
(* now and then, how many messages are in an SQS queue and in its dead-    *)
(* letter queue, and shows them in gauges.  The queue and its RedrivePolicy*)
(* are modelled from the way the code reads them, and change on their own. *)
(***************************************************************************)
EXTENDS Integers

CONSTANT MaxFaults        \* bound on the failing reads and stops

VARIABLES
    visible, inFlight, dead,  \* the queue: its messages, and those given up
    policy,                   \* the queue has a readable RedrivePolicy
    pc,                       \* where Start is
    dlqKnown,                 \* the name of the dead-letter queue was found
    gauge,
    faults                    \* failures that may still happen

vars == <<pc, dlqKnown, gauge, faults>>

Unset == -1               \* a gauge that was never set

NoGauges == [visible |-> Unset, in_flight |-> Unset, dlq |-> Unset]

Init == /\ pc = "stopped"
        /\ dlqKnown = FALSE
        /\ gauge = NoGauges
        /\ faults = MaxFaults

Fault == faults > 0 /\ faults' = faults - 1

(* A process starts with no gauges and no dead-letter queue. *)
Start == /\ pc = "stopped"
         /\ pc' = "poll"
         /\ dlqKnown' = FALSE
         /\ gauge' = NoGauges
         /\ UNCHANGED faults

(* Both counts of the queue come with one answer.  Variant: both gauges    *)
(* are set from the same attribute.                                        *)
Measured_OneAttribute == [gauge EXCEPT !.visible = visible, !.in_flight = visible]

Measured == [gauge EXCEPT !.visible = visible, !.in_flight = inFlight]

(* Variant: only the first answer of the queue is searched.                *)
DiscoverDLQ_FirstAnswer == dlqKnown \/ (policy /\ gauge.visible = Unset)

DiscoverDLQ == dlqKnown \/ policy

Poll == /\ pc = "poll"
        /\ gauge' = Measured
        /\ dlqKnown' = DiscoverDLQ
        /\ pc' = IF dlqKnown' THEN "pollDLQ" ELSE "poll"
        /\ UNCHANGED faults

(* The gauges keep what they showed. *)
PollFails == /\ pc = "poll"
             /\ Fault
             /\ UNCHANGED <<pc, dlqKnown, gauge>>

(* Variant: a dead-letter queue that was measured is not read again.       *)
PollDLQ_Once == /\ pc = "pollDLQ"
                /\ gauge' = IF gauge.dlq = Unset THEN [gauge EXCEPT !.dlq = dead] ELSE gauge
                /\ pc' = "poll"
                /\ UNCHANGED <<dlqKnown, faults>>

PollDLQ == /\ pc = "pollDLQ"
           /\ gauge' = [gauge EXCEPT !.dlq = dead]
           /\ pc' = "poll"
           /\ UNCHANGED <<dlqKnown, faults>>

PollDLQFails == /\ pc = "pollDLQ"
                /\ Fault
                /\ pc' = "poll"
                /\ UNCHANGED <<dlqKnown, gauge>>

(* The context ends, or the process dies. *)
Stop == /\ pc # "stopped"
        /\ Fault
        /\ pc' = "stopped"
        /\ UNCHANGED <<dlqKnown, gauge>>

Next == Start \/ Poll \/ PollFails \/ PollDLQ \/ PollDLQFails \/ Stop

(* The ticker ticks, the reads are answered, and a process is restarted.   *)
Fairness == WF_vars(Next)

Spec == Init /\ [][Next]_vars /\ Fairness
=============================================================================
