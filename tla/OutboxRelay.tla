---------------------------- MODULE OutboxRelay -----------------------------
(***************************************************************************)
(* pkg/messaging/outbox/relay.go: goroutines that read the events a        *)
(* service recorded in its outbox table and publish them on one SQS queue. *)
(* The table (Store) and the queue (Client) are interfaces of the code;    *)
(* they are modelled from the way it uses them.                            *)
(***************************************************************************)
EXTENDS Integers, FiniteSets, FiniteSetsExt

CONSTANTS Relay,          \* processes that run a relay on the same outbox
          Enabled,        \* those configured with a queue (Options.Enabled)
          NEvents,        \* events, numbered from the oldest to the newest
          Size,           \* bytes of each event's body
          Poison,         \* events whose body the queue rejects (SenderFault)
          BatchSize, MaxMessage, MaxBatch,
          MinBackoff, MaxBackoff,
          MaxFaults,      \* bound on crashes, cancellations and failing calls
          AttemptCap      \* bound on the attempts counter

Event == 1 .. NEvents

ASSUME OutboxAssumption ==
    /\ IsFiniteSet(Relay) /\ Enabled \subseteq Relay
    /\ {NEvents, MaxFaults, AttemptCap, MaxMessage, MaxBatch} \subseteq Nat
    /\ {BatchSize, MinBackoff, MaxBackoff} \subseteq Nat \ {0}
    /\ Size \in [Event -> Nat]
    /\ Poison \subseteq Event
    /\ MaxMessage <= MaxBatch
    /\ MinBackoff <= MaxBackoff

VARIABLES
    status, attempts,     \* the outbox table
    copies,               \* how many times the queue accepted each event
    queueUp,
    pc, job, backoff,     \* where Start is, the pass in hand, its next wait
    cancelled,            \* the relay's context has ended
    pendingGauge, failedGauge,
    faults                \* failures that may still happen

table == <<status, attempts>>
queue == <<copies, queueUp>>
gauges == <<pendingGauge, failedGauge>>
vars == <<table, queue, pc, job, backoff, cancelled, gauges, faults>>

Unset == -1               \* a gauge that was never set

NoPass == [batch |-> {}, published |-> {}, refused |-> {}, retry |-> {},
           sendFailed |-> FALSE, more |-> FALSE]

Init == /\ status = [e \in Event |-> "absent"]
        /\ attempts = [e \in Event |-> 0]
        /\ copies = [e \in Event |-> 0]
        /\ queueUp = TRUE
        /\ pc = [r \in Relay |-> "stopped"]
        /\ job = [r \in Relay |-> NoPass]
        /\ backoff = [r \in Relay |-> MinBackoff]
        /\ cancelled = [r \in Relay |-> FALSE]
        /\ pendingGauge = [r \in Relay |-> Unset]
        /\ failedGauge = [r \in Relay |-> Unset]
        /\ faults = MaxFaults

-----------------------------------------------------------------------------
(* The batch of a pass.                                                    *)

Having(s) == {e \in Event : status[e] = s}

(* FetchPending: the oldest pending events, up to BatchSize. *)
Oldest(S) == {e \in S : Cardinality({d \in S : d < e}) < BatchSize}

Oversized(F) == {e \in F : Size[e] > MaxMessage}

(* Variants: without the byte limit of a batch, and with it off by one.    *)
Fits_AnyBytes(e, load) == Size[e] <= MaxMessage /\ load.entries < BatchSize

Fits_StrictBytes(e, load) == /\ Size[e] <= MaxMessage
                             /\ load.entries < BatchSize
                             /\ load.bytes + Size[e] < MaxBatch

Fits(e, load) == /\ Size[e] <= MaxMessage
                 /\ load.entries < BatchSize
                 /\ load.bytes + Size[e] <= MaxBatch

(* What the batch holds once the fetched events up to i were considered. *)
Load(F) ==
    LET load[i \in 0 .. NEvents] ==
            IF i = 0 THEN [entries |-> 0, bytes |-> 0]
            ELSE IF i \in F /\ Fits(i, load[i - 1])
                 THEN [entries |-> load[i - 1].entries + 1,
                       bytes |-> load[i - 1].bytes + Size[i]]
                 ELSE load[i - 1]
    IN  load

Batch(F) == {e \in F : Fits(e, Load(F)[e - 1])}

Left(F) == F \ (Batch(F) \cup Oversized(F))

-----------------------------------------------------------------------------
(* Control of Start.                                                       *)

Goto(r, label) == pc' = [pc EXCEPT ![r] = label]

Fault == faults > 0 /\ faults' = faults - 1

(* A failing call is a fault, unless its context was cancelled. *)
CallFails(r) == IF cancelled[r] THEN UNCHANGED faults ELSE Fault

(* A pass that ends in an error waits, or returns if the context ended. *)
PassFails(r) == Goto(r, IF cancelled[r] THEN "stopped" ELSE "backoff")

AfterFailed(j) == IF j.retry # {} THEN "incrementAttempts" ELSE "passEnd"
AfterPublished(j) == IF j.refused # {} THEN "markFailed" ELSE AfterFailed(j)

(* Variant: a refusal takes the place of the mark of the published ones.   *)
AfterSend_OneOutcome(j) ==
    IF j.refused # {} THEN "markFailed"
    ELSE IF j.published # {} THEN "markPublished" ELSE AfterFailed(j)

AfterSend(j) == IF j.published # {} THEN "markPublished" ELSE AfterPublished(j)

(* The error of the send comes out of drain after the writes of mark. *)
Proceed(r, j, label) == IF label # "passEnd" THEN Goto(r, label)
                        ELSE IF j.sendFailed THEN PassFails(r)
                        ELSE Goto(r, "observe")

Start(r) == /\ r \in Enabled
            /\ pc[r] = "stopped"
            /\ Goto(r, "top")
            /\ job' = [job EXCEPT ![r] = NoPass]
            /\ backoff' = [backoff EXCEPT ![r] = MinBackoff]
            /\ cancelled' = [cancelled EXCEPT ![r] = FALSE]
            /\ pendingGauge' = [pendingGauge EXCEPT ![r] = Unset]
            /\ failedGauge' = [failedGauge EXCEPT ![r] = Unset]
            /\ UNCHANGED <<table, queue, faults>>

(* Variant: a cancelled pass is retried like any other failure. *)
Return_Retries(r) == /\ cancelled[r]
                     /\ pc[r] = "top"
                     /\ Goto(r, "backoff")
                     /\ UNCHANGED <<table, queue, job, backoff, cancelled, gauges, faults>>

(* The loop and its waits return when the context has ended. *)
Return(r) == /\ cancelled[r]
             /\ pc[r] \in {"top", "backoff", "poll"}
             /\ Goto(r, "stopped")
             /\ UNCHANGED <<table, queue, job, backoff, cancelled, gauges, faults>>

BackoffElapses(r) ==
    /\ pc[r] = "backoff"
    /\ backoff' = [backoff EXCEPT ![r] = Min({2 * @, MaxBackoff})]
    /\ Goto(r, "top")
    /\ UNCHANGED <<table, queue, job, cancelled, gauges, faults>>

PollElapses(r) ==
    /\ pc[r] = "poll"
    /\ Goto(r, "top")
    /\ UNCHANGED <<table, queue, job, backoff, cancelled, gauges, faults>>

-----------------------------------------------------------------------------
(* One pass: drain, then observe.                                          *)

FetchFails(r) ==
    /\ pc[r] = "top" /\ ~cancelled[r]
    /\ CallFails(r)
    /\ PassFails(r)
    /\ UNCHANGED <<table, queue, job, backoff, cancelled, gauges>>

FetchPending(r) ==
    LET F == Oldest(Having("pending"))
        j == [NoPass EXCEPT !.batch = Batch(F),
                            !.refused = Oversized(F),
                            !.more = Cardinality(F) = BatchSize \/ Left(F) # {}]
    IN  /\ pc[r] = "top" /\ ~cancelled[r]
        /\ job' = [job EXCEPT ![r] = j]
        /\ IF j.batch # {} THEN Goto(r, "send")
                           ELSE Proceed(r, j, AfterSend(j))
        /\ UNCHANGED <<table, queue, backoff, cancelled, gauges, faults>>

Accept(S) == copies' = [e \in Event |-> IF e \in S THEN copies[e] + 1 ELSE copies[e]]

(* The queue answers for every entry: accepted, rejected for its body, or  *)
(* not taken this time.                                                    *)
Answer(r, accepted, refused, notTaken) ==
    LET j == [job[r] EXCEPT !.published = accepted,
                            !.refused = @ \cup refused,
                            !.retry = notTaken]
    IN  /\ pc[r] = "send" /\ queueUp
        /\ Accept(accepted)
        /\ job' = [job EXCEPT ![r] = j]
        /\ Proceed(r, j, AfterSend(j))
        /\ UNCHANGED <<table, queueUp, backoff, cancelled, gauges>>

(* Variant: every entry of Failed is refused, whoever's fault it was. *)
SendAnswered_AnyFault(r) ==
    \E accepted \in SUBSET (job[r].batch \ Poison) :
        /\ Answer(r, accepted, job[r].batch \ accepted, {})
        /\ IF job[r].batch \ Poison = accepted THEN UNCHANGED faults ELSE Fault

SendAnswered(r) ==
    \E accepted \in SUBSET (job[r].batch \ Poison) :
        LET notTaken == job[r].batch \ (accepted \cup Poison)
        IN  /\ Answer(r, accepted, job[r].batch \cap Poison, notTaken)
            /\ IF notTaken = {} THEN UNCHANGED faults ELSE Fault

(* No answer: the relay does not know what the queue accepted, and j is    *)
(* what it makes of that.                                                  *)
NoAnswer(r, j) ==
    \E accepted \in SUBSET (job[r].batch \ Poison) :
        /\ pc[r] = "send"
        /\ queueUp \/ accepted = {}
        /\ Accept(accepted)
        /\ job' = [job EXCEPT ![r] = j]
        /\ Proceed(r, j, AfterSend(j))
        /\ IF queueUp THEN CallFails(r) ELSE UNCHANGED faults
        /\ UNCHANGED <<table, queueUp, backoff, cancelled, gauges>>

(* Variants: the whole batch counts as published, or as refused. *)
SendFails_Publishes(r) ==
    NoAnswer(r, [job[r] EXCEPT !.published = job[r].batch, !.sendFailed = TRUE])

SendFails_Refuses(r) ==
    NoAnswer(r, [job[r] EXCEPT !.refused = @ \cup job[r].batch, !.sendFailed = TRUE])

SendFails(r) ==
    NoAnswer(r, [job[r] EXCEPT !.retry = job[r].batch, !.sendFailed = TRUE])

(* A write of mark: a failed one ends the pass, applied or not. *)
Write(r, written, next) ==
    /\ \/ written /\ Proceed(r, job[r], next) /\ UNCHANGED faults
       \/ (written \/ UNCHANGED table) /\ PassFails(r) /\ CallFails(r)
    /\ UNCHANGED <<queue, job, backoff, cancelled, gauges>>

SetStatus(S, s) ==
    /\ status' = [e \in Event |-> IF e \in S THEN s ELSE status[e]]
    /\ UNCHANGED attempts

MarkPublished(r) ==
    /\ pc[r] = "markPublished"
    /\ Write(r, SetStatus(job[r].published, "published"), AfterPublished(job[r]))

(* Variant: the whole batch is marked. *)
MarkFailed_Batch(r) ==
    /\ pc[r] = "markFailed"
    /\ Write(r, SetStatus(job[r].refused \cup job[r].batch, "failed"), AfterFailed(job[r]))

MarkFailed(r) ==
    /\ pc[r] = "markFailed"
    /\ Write(r, SetStatus(job[r].refused, "failed"), AfterFailed(job[r]))

CountAttempt(S) ==
    /\ attempts' = [e \in Event |-> IF e \in S /\ attempts[e] < AttemptCap
                                    THEN attempts[e] + 1 ELSE attempts[e]]
    /\ UNCHANGED status

(* Variant: every event of the batch made an attempt. *)
IncrementAttempts_Batch(r) ==
    /\ pc[r] = "incrementAttempts"
    /\ Write(r, CountAttempt(job[r].batch), "passEnd")

IncrementAttempts(r) ==
    /\ pc[r] = "incrementAttempts"
    /\ Write(r, CountAttempt(job[r].retry), "passEnd")

(* The gauges read the table, each if its count succeeds. *)
Refresh(r, pending, failed) ==
    \E pendingRead, failedRead \in BOOLEAN :
        /\ IF pendingRead /\ failedRead THEN UNCHANGED faults ELSE CallFails(r)
        /\ pendingGauge' = IF pendingRead
                           THEN [pendingGauge EXCEPT ![r] = Cardinality(pending)]
                           ELSE pendingGauge
        /\ failedGauge' = IF failedRead
                          THEN [failedGauge EXCEPT ![r] = Cardinality(failed)]
                          ELSE failedGauge

(* A successful pass resets the wait and refreshes the gauges. *)
PassEnds(r) ==
    /\ pc[r] = "observe"
    /\ backoff' = [backoff EXCEPT ![r] = MinBackoff]
    /\ Goto(r, IF job[r].more THEN "top" ELSE "poll")
    /\ UNCHANGED <<table, queue, job, cancelled>>

(* Variant: both gauges show the same count. *)
Observe_Pending(r) ==
    PassEnds(r) /\ Refresh(r, Having("pending"), Having("pending"))

Observe(r) == PassEnds(r) /\ Refresh(r, Having("pending"), Having("failed"))

-----------------------------------------------------------------------------
(* The relay's surroundings.                                               *)

Record(e) == /\ status[e] = "absent"
             /\ status' = [status EXCEPT ![e] = "pending"]
             /\ UNCHANGED <<attempts, queue, pc, job, backoff, cancelled, gauges, faults>>

Cancel(r) == /\ pc[r] # "stopped" /\ ~cancelled[r]
             /\ Fault
             /\ cancelled' = [cancelled EXCEPT ![r] = TRUE]
             /\ UNCHANGED <<table, queue, pc, job, backoff, gauges>>

Crash(r) == /\ pc[r] # "stopped"
            /\ Fault
            /\ Goto(r, "stopped")
            /\ UNCHANGED <<table, queue, job, backoff, cancelled, gauges>>

QueueGoesDown == /\ queueUp
                 /\ Fault
                 /\ queueUp' = FALSE
                 /\ UNCHANGED <<table, copies, pc, job, backoff, cancelled, gauges>>

QueueComesUp == /\ ~queueUp
                /\ queueUp' = TRUE
                /\ UNCHANGED <<table, copies, pc, job, backoff, cancelled, gauges, faults>>

-----------------------------------------------------------------------------
Step(r) == \/ Start(r) \/ Return(r) \/ BackoffElapses(r) \/ PollElapses(r)
           \/ FetchFails(r) \/ FetchPending(r)
           \/ SendAnswered(r) \/ SendFails(r)
           \/ MarkPublished(r) \/ MarkFailed(r) \/ IncrementAttempts(r)
           \/ Observe(r)

Next == \/ \E r \in Relay : Step(r) \/ Cancel(r) \/ Crash(r)
        \/ \E e \in Event : Record(e)
        \/ QueueGoesDown \/ QueueComesUp

Spec == Init /\ [][Next]_vars

(* A goroutine that can run does, and a stopped process is started again. *)
RelaysRun == \A r \in Enabled : WF_vars(Step(r))

(* Every outage of the queue ends. *)
QueueRecovers == WF_vars(QueueComesUp)

FairSpec == Spec /\ RelaysRun /\ QueueRecovers

(* An outage of the queue may last. *)
OutageSpec == Spec /\ RelaysRun
-----------------------------------------------------------------------------
(* Properties.                                                             *)

Labels == {"stopped", "top", "send", "markPublished", "markFailed",
           "incrementAttempts", "observe", "backoff", "poll"}

Passes == [batch : SUBSET Event, published : SUBSET Event, refused : SUBSET Event,
           retry : SUBSET Event, sendFailed : BOOLEAN, more : BOOLEAN]

(* The values the variables range over. *)
TypeOK ==
    /\ status \in [Event -> {"absent", "pending", "published", "failed"}]
    /\ attempts \in [Event -> 0 .. AttemptCap]
    /\ copies \in [Event -> Nat]
    /\ queueUp \in BOOLEAN
    /\ pc \in [Relay -> Labels]
    /\ job \in [Relay -> Passes]
    /\ backoff \in [Relay -> MinBackoff .. MaxBackoff]
    /\ cancelled \in [Relay -> BOOLEAN]
    /\ pendingGauge \in [Relay -> Int]
    /\ failedGauge \in [Relay -> Int]
    /\ faults \in 0 .. MaxFaults

Undeliverable == Poison \cup {e \in Event : Size[e] > MaxMessage}

(* An event leaves the pending ones as published only if the queue holds   *)
(* it, whatever failed between the send and the writes (drain, mark).      *)
PublishedWasAccepted == \A e \in Event : status[e] = "published" => copies[e] > 0

(* An event is set aside as failed only if the queue could never take it:  *)
(* an outage or a queue fault never costs an event (send, mark).           *)
FailedIsUndeliverable ==
    \A e \in Event : status[e] = "failed" => e \in Undeliverable /\ copies[e] = 0

(* Every batch respects the limits of the queue: entries, bytes of each    *)
(* body, bytes of all the bodies (split).                                  *)
SendIsWithinLimits ==
    \A r \in Relay : pc[r] = "send" =>
        /\ Cardinality(job[r].batch) <= BatchSize
        /\ \A e \in job[r].batch : Size[e] <= MaxMessage
        /\ MapThenSumSet(LAMBDA e : Size[e], job[r].batch) <= MaxBatch

(* An event is published again only when something failed: each relay      *)
(* delivers it once, plus once per failure (drain, mark).                  *)
DuplicatesArePaidFor ==
    \A e \in Event : copies[e] <= Cardinality(Enabled) + (MaxFaults - faults)

(* With one relay, attempts are only counted on events that still wait     *)
(* (send's retry, IncrementAttempts).                                      *)
AttemptsCountWaiting ==
    [][\A e \in Event : attempts'[e] # attempts[e] => status[e] = "pending"]_vars

(* An event that left the pending ones never comes back, and never changes *)
(* sides (mark), even when two relays hold it at once.                     *)
OutcomeIsFinal ==
    [][\A e \in Event : status[e] \in {"published", "failed"}
                            => status'[e] = status[e]]_vars

(* Every recorded event is published or set aside, through outages,        *)
(* crashes and restarts (Start).                                           *)
EveryEventSettles ==
    \A e \in Event : status[e] = "pending" ~> status[e] \in {"published", "failed"}

(* A relay whose context ends returns (Start, sleep). *)
ShutdownEnds == \A r \in Relay : cancelled[r] ~> pc[r] = "stopped"

(* An event set aside reaches the gauge that someone watches (observe). *)
FailedIsReported ==
    \A r \in Enabled : Having("failed") # {} ~> failedGauge[r] > 0

(* What the gauge is documented to show: the events waiting for the queue. *)
BacklogIsReported ==
    \A r \in Enabled : []<>(pendingGauge[r] = Cardinality(Having("pending")))

(* What became of an event, seen from the consumers of the queue.          *)
Fate == [e \in Event |-> IF copies[e] > 0 THEN "delivered"
                         ELSE IF status[e] = "failed" THEN "refused"
                         ELSE IF status[e] = "pending" THEN "waiting"
                         ELSE "absent"]

Delivery == INSTANCE OutboxDelivery WITH fate <- Fate

(* The relay implements what the outbox promises. *)
KeepsThePromise == Delivery!Spec
=============================================================================
