--------------------------- MODULE QueueConsumer ----------------------------
(***************************************************************************)
(* pkg/messaging/consumer/consumer.go: processes that receive messages of  *)
(* one SQS queue, hand them to a service's handler and confirm them.  The  *)
(* queue and the handler are interfaces of the code, modelled from the way *)
(* it uses them.  Time is counted in ticks of the queue's timers; the      *)
(* length of the consumer's own waits is left out.                         *)
(***************************************************************************)
EXTENDS Integers, FiniteSets, FiniteSetsExt, Functions

CONSTANTS Consumer,           \* processes that read the queue
          Message,
          Bad,                \* messages the handler refuses for good (Permanent)
          MaxMessages,        \* size of a received batch
          VisibilityTimeout,  \* ticks a received message stays hidden (0 is not
                              \* sent, and the queue's own applies)
          RetryBase, RetryMax,
          MaxReceives,        \* receives before the queue gives a message up
          MaxFaults,          \* bound on crashes, cancellations, failing calls, slow handling
          MaxOutages,         \* bound on the outages of what the handler needs
          MaxDown             \* bound on the ticks counted in outages

ASSUME ConsumerAssumption ==
    /\ IsFiniteSet(Consumer)
    /\ Bad \subseteq Message
    /\ {MaxMessages, VisibilityTimeout, MaxReceives, RetryBase, RetryMax} \subseteq Nat \ {0}
    /\ {MaxFaults, MaxOutages, MaxDown} \subseteq Nat

VARIABLES
    where, hidden, receives,  \* the queue: place, ticks hidden, receive count
    pc, job, cancelled,       \* the consumers
    dependencyUp, outages,    \* what the handler needs, outages still to come
    faults,                   \* failures that may still happen
    applied, downTime         \* history: times handled, ticks of outage

queue == <<where, hidden, receives>>
consumers == <<pc, job, cancelled>>
dependency == <<dependencyUp, outages>>
history == <<applied, downTime>>
vars == <<queue, consumers, dependency, faults, history>>

NoBatch == [batch |-> {}, receipt |-> [m \in Message |-> 0],
            done |-> {}, later |-> {}, unanswered |-> {}]

Init == /\ where = [m \in Message |-> "queue"]
        /\ hidden = [m \in Message |-> 0]
        /\ receives = [m \in Message |-> 0]
        /\ pc = [c \in Consumer |-> "stopped"]
        /\ job = [c \in Consumer |-> NoBatch]
        /\ cancelled = [c \in Consumer |-> FALSE]
        /\ dependencyUp = TRUE
        /\ outages = MaxOutages
        /\ faults = MaxFaults
        /\ applied = [m \in Message |-> 0]
        /\ downTime = 0

-----------------------------------------------------------------------------
(* The wait before the next delivery doubles with each receive.            *)

(* Variants: the wait is not capped, and it does not grow. *)
RetryDelay_Uncapped(count) ==
    LET delay[i \in 1 .. MaxReceives] ==
            IF i = 1 THEN RetryBase ELSE 2 * delay[i - 1]
    IN  delay[count]

RetryDelay_Flat(count) == RetryBase

RetryDelay(count) ==
    LET delay[i \in 1 .. MaxReceives] ==
            IF i = 1 THEN RetryBase
            ELSE IF delay[i - 1] < RetryMax THEN 2 * delay[i - 1]
            ELSE delay[i - 1]
    IN  IF delay[count] \in RetryBase .. RetryMax THEN delay[count] ELSE RetryMax

-----------------------------------------------------------------------------
(* Control of Start.                                                       *)

Goto(c, label) == pc' = [pc EXCEPT ![c] = label]

Fault == faults > 0 /\ faults' = faults - 1

(* A failing call is a fault, unless its context was cancelled. *)
CallFails(c) == IF cancelled[c] THEN UNCHANGED faults ELSE Fault

Start(c) == /\ pc[c] = "stopped"
            /\ Goto(c, "receive")
            /\ job' = [job EXCEPT ![c] = NoBatch]
            /\ cancelled' = [cancelled EXCEPT ![c] = FALSE]
            /\ UNCHANGED <<queue, dependency, faults, history>>

(* Variant: a cancelled receive is retried like any other failure. *)
Return_Retries(c) == /\ pc[c] = "receive"
                     /\ cancelled[c]
                     /\ Goto(c, "backoff")
                     /\ UNCHANGED <<queue, job, cancelled, dependency, faults, history>>

Return(c) == /\ pc[c] \in {"receive", "backoff"}
             /\ cancelled[c]
             /\ Goto(c, "stopped")
             /\ UNCHANGED <<queue, job, cancelled, dependency, faults, history>>

(* Variant: the wait is repeated until the context ends. *)
BackoffElapses_Repeats(c) ==
    /\ pc[c] = "backoff"
    /\ Goto(c, IF cancelled[c] THEN "receive" ELSE "backoff")
    /\ UNCHANGED <<queue, job, cancelled, dependency, faults, history>>

BackoffElapses(c) == /\ pc[c] = "backoff"
                     /\ Goto(c, "receive")
                     /\ UNCHANGED <<queue, job, cancelled, dependency, faults, history>>

-----------------------------------------------------------------------------
(* One batch: receive, handle, delete, postpone.                           *)

Visible == {m \in Message : /\ where[m] = "queue"
                            /\ hidden[m] = 0
                            /\ receives[m] < MaxReceives}

(* The queue gives out some visible messages and hides them. *)
GiveOut(S) ==
    /\ S \subseteq Visible /\ S # {} /\ Cardinality(S) <= MaxMessages
    /\ receives' = [m \in Message |-> IF m \in S THEN receives[m] + 1 ELSE receives[m]]
    /\ hidden' = [m \in Message |-> IF m \in S THEN VisibilityTimeout ELSE hidden[m]]
    /\ UNCHANGED where

ReceiveMessage(c, S) ==
    /\ pc[c] = "receive" /\ ~cancelled[c]
    /\ GiveOut(S)
    /\ job' = [job EXCEPT ![c] = [NoBatch EXCEPT !.batch = S, !.receipt = receives']]
    /\ Goto(c, "handle")
    /\ UNCHANGED <<cancelled, dependency, faults, history>>

(* The long poll ends with no message. *)
ReceiveNothing(c) == /\ pc[c] = "receive" /\ ~cancelled[c]
                     /\ UNCHANGED vars

(* The call fails, and the queue may have given messages out to no one. *)
ReceiveFails(c) ==
    /\ pc[c] = "receive" /\ ~cancelled[c]
    /\ UNCHANGED queue \/ \E S \in SUBSET Message : GiveOut(S)
    /\ Fault
    /\ Goto(c, "backoff")
    /\ UNCHANGED <<job, cancelled, dependency, history>>

AfterDelete(j) == IF j.later # {} THEN "postpone" ELSE "receive"

(* Variant: a batch with a failure in it is not confirmed. *)
AfterHandle_WholeBatch(j) == IF j.done = j.batch THEN "delete" ELSE AfterDelete(j)

AfterHandle(j) == IF j.done # {} THEN "delete" ELSE AfterDelete(j)

(* Messages the handler fails in passing: all when what it needs is down,  *)
(* any when its context ended.                                             *)
FailingInPassing(c, S) == IF ~dependencyUp THEN {S}
                          ELSE IF cancelled[c] THEN SUBSET S ELSE {{}}

(* What becomes of the batch: done is deleted and later postponed, without  *)
(* the messages of bare, which came without a receipt.  History: unanswered *)
(* keeps those the handler gave no result for.                             *)
Confirm(c, done, later, unanswered, bare) ==
    LET j == [job[c] EXCEPT !.done = done \ bare, !.later = later \ bare,
                            !.unanswered = unanswered]
    IN  /\ job' = [job EXCEPT ![c] = j]
        /\ Goto(c, AfterHandle(j))

(* The messages whose result is one of kinds: results are matched to them  *)
(* by position, and the last ones may be missing.                          *)
WithResult(messages, results, kinds) ==
    {messages[i] : i \in {k \in DOMAIN messages :
        (IF k \in DOMAIN results THEN results[k] ELSE "missing") \in kinds}}

(* Variants: the results are matched to the messages with a receipt only,  *)
(* and a permanent refusal is a failure in passing.                        *)
Sort_SkipsBare(c, messages, results, bare) ==
    LET Kept(k) == Cardinality({i \in 1 .. k : messages[i] \notin bare})
        shifted == [k \in {i \in DOMAIN messages : Kept(i) \in DOMAIN results} |->
                       results[Kept(k)]]
    IN  Confirm(c, WithResult(messages, shifted, {"nil"}),
                   WithResult(messages, shifted, {"error", "missing"}),
                   WithResult(messages, shifted, {"missing"}), bare)

Sort_NoPermanent(c, messages, results, bare) ==
    Confirm(c, WithResult(messages, results, {"nil"}),
               WithResult(messages, results, {"permanent", "error", "missing"}),
               WithResult(messages, results, {"missing"}), bare)

Sort(c, messages, results, bare) ==
    Confirm(c, WithResult(messages, results, {"nil"}),
               WithResult(messages, results, {"error", "missing"}),
               WithResult(messages, results, {"missing"}), bare)

(* What the handler returns for the first messages, in their order.        *)
Results(messages, treated, failing) ==
    [i \in 1 .. treated |-> IF messages[i] \in Bad THEN "permanent"
                            ELSE IF messages[i] \in failing THEN "error"
                            ELSE "nil"]

(* The handler treats the first messages of the batch.  History: applied   *)
(* counts what took effect.                                                *)
Treat(c, messages, treated, bare) ==
    LET good == {messages[i] : i \in 1 .. treated} \ Bad
    IN  \E failing \in FailingInPassing(c, good) :
            /\ applied' = [m \in Message |-> IF m \in good \ failing
                                            THEN applied[m] + 1 ELSE applied[m]]
            /\ Sort(c, messages, Results(messages, treated, failing), bare)

(* The batch came in some order, and the handler should treat all of it.   *)
Handle(c) ==
    /\ pc[c] = "handle"
    /\ \E size \in 1 .. MaxMessages : \E messages \in Bijection(1 .. size, job[c].batch) :
        \E treated \in 0 .. size, bare \in SUBSET job[c].batch :
            /\ Treat(c, messages, treated, bare)
            /\ IF treated = size /\ bare = {} THEN UNCHANGED faults ELSE Fault
    /\ UNCHANGED <<queue, cancelled, dependency, downTime>>

(* The consumer still holds the latest receipt of a message. *)
Current(c) == {m \in job[c].batch : receives[m] = job[c].receipt[m]}

(* Handled messages leave the queue; a receipt that is no longer the       *)
(* latest may or may not do.  The queue may refuse some, or not answer.    *)
Delete(c) ==
    \E deleted \in SUBSET job[c].done :
        /\ pc[c] = "delete"
        /\ IF job[c].done \cap Current(c) \subseteq deleted THEN UNCHANGED faults
                                                            ELSE CallFails(c)
        /\ where' = [m \in Message |-> IF m \in deleted /\ where[m] = "queue"
                                       THEN "deleted" ELSE where[m]]
        /\ Goto(c, AfterDelete(job[c]))
        /\ UNCHANGED <<hidden, receives, job, cancelled, dependency, history>>

(* Messages that failed in passing are hidden for longer, if they are      *)
(* still out and the queue takes it; nothing is sent once the context      *)
(* ended.  A receipt that is no longer the latest may or may not do.       *)
Postpone(c) ==
    LET out == {m \in job[c].later : where[m] = "queue" /\ hidden[m] > 0}
    IN  \E moved \in SUBSET out :
            /\ pc[c] = "postpone" /\ ~cancelled[c]
            /\ IF out \cap Current(c) \subseteq moved THEN UNCHANGED faults ELSE Fault
            /\ hidden' = [m \in Message |->
                            IF m \in moved THEN RetryDelay(job[c].receipt[m]) ELSE hidden[m]]
            /\ Goto(c, "receive")
            /\ UNCHANGED <<where, receives, job, cancelled, dependency, history>>

SkipPostpone(c) == /\ pc[c] = "postpone" /\ cancelled[c]
                   /\ Goto(c, "receive")
                   /\ UNCHANGED <<queue, job, cancelled, dependency, faults, history>>

-----------------------------------------------------------------------------
(* The consumers' surroundings.                                            *)

Held == UNION {Current(c) : c \in {d \in Consumer :
                                   pc[d] \in {"handle", "delete", "postpone"}}}

(* Time passes.  A batch that is not confirmed before its messages show up *)
(* again is a fault, since VisibilityTimeout's comment requires it.        *)
Tick == /\ IF \E m \in Held : hidden[m] = 1 THEN Fault ELSE UNCHANGED faults
        /\ \/ \E m \in Message : where[m] = "queue" /\ hidden[m] > 0
           \/ ~dependencyUp /\ downTime < MaxDown
        /\ hidden' = [m \in Message |-> IF where[m] = "queue" /\ hidden[m] > 0
                                        THEN hidden[m] - 1 ELSE hidden[m]]
        /\ downTime' = IF ~dependencyUp /\ downTime < MaxDown
                       THEN downTime + 1 ELSE downTime
        /\ UNCHANGED <<where, receives, consumers, dependency, applied>>

(* A message received too often goes to the dead-letter queue. *)
Redrive(m) == /\ where[m] = "queue" /\ hidden[m] = 0 /\ receives[m] = MaxReceives
              /\ where' = [where EXCEPT ![m] = "dlq"]
              /\ UNCHANGED <<hidden, receives, consumers, dependency, faults, history>>

DependencyGoesDown == /\ dependencyUp /\ outages > 0
                      /\ dependencyUp' = FALSE
                      /\ outages' = outages - 1
                      /\ UNCHANGED <<queue, consumers, faults, history>>

DependencyComesUp == /\ ~dependencyUp
                     /\ dependencyUp' = TRUE
                     /\ UNCHANGED <<queue, consumers, outages, faults, history>>

Cancel(c) == /\ pc[c] # "stopped" /\ ~cancelled[c]
             /\ Fault
             /\ cancelled' = [cancelled EXCEPT ![c] = TRUE]
             /\ UNCHANGED <<queue, pc, job, dependency, history>>

Crash(c) == /\ pc[c] # "stopped"
            /\ Fault
            /\ Goto(c, "stopped")
            /\ UNCHANGED <<queue, job, cancelled, dependency, history>>

-----------------------------------------------------------------------------
Step(c) == \/ Start(c) \/ Return(c) \/ BackoffElapses(c)
           \/ \E S \in SUBSET Message : ReceiveMessage(c, S)
           \/ ReceiveNothing(c) \/ ReceiveFails(c)
           \/ Handle(c) \/ Delete(c) \/ Postpone(c) \/ SkipPostpone(c)

Next == \/ \E c \in Consumer : Step(c) \/ Cancel(c) \/ Crash(c)
        \/ \E m \in Message : Redrive(m)
        \/ Tick \/ DependencyGoesDown \/ DependencyComesUp

Spec == Init /\ [][Next]_vars

(* A goroutine that can run does, the queue serves the messages it shows,  *)
(* and time passes.                                                        *)
Fairness == /\ \A c \in Consumer : WF_vars(Step(c))
            /\ \A m \in Message : WF_vars(Redrive(m))
            /\ WF_vars(Tick)

FairSpec == Spec /\ Fairness

-----------------------------------------------------------------------------
(* Properties.                                                             *)

Labels == {"stopped", "receive", "backoff", "handle", "delete", "postpone"}

Batches == [batch : SUBSET Message, receipt : [Message -> 0 .. MaxReceives],
            done : SUBSET Message, later : SUBSET Message, unanswered : SUBSET Message]

(* The values the variables range over. *)
TypeOK ==
    /\ where \in [Message -> {"queue", "deleted", "dlq"}]
    /\ hidden \in [Message -> 0 .. VisibilityTimeout \cup 0 .. RetryMax]
    /\ receives \in [Message -> 0 .. MaxReceives]
    /\ pc \in [Consumer -> Labels]
    /\ job \in [Consumer -> Batches]
    /\ cancelled \in [Consumer -> BOOLEAN]
    /\ dependencyUp \in BOOLEAN
    /\ outages \in 0 .. MaxOutages
    /\ faults \in 0 .. MaxFaults
    /\ applied \in [Message -> Nat]
    /\ downTime \in 0 .. MaxDown

(* A message leaves the queue only after its handling succeeded, whoever   *)
(* else received it and whatever failed meanwhile (process, delete).       *)
DeletedWasHandled == \A m \in Message : where[m] = "deleted" => applied[m] > 0

(* A message refused for good keeps the normal pace of the queue to the    *)
(* dead-letter queue, whatever crashes, fails or is slow: it is never      *)
(* deleted, and only being received hides it anew.  The one exception is   *)
(* a batch in which the handler gave no result for it, so that the         *)
(* refusal was not seen (IsPermanent, process, errMissingResult).          *)
RefusedKeepsPace ==
    [][\A m \in Bad :
         /\ where'[m] # "deleted"
         /\ \/ hidden'[m] \in {hidden[m], hidden[m] - 1}
            \/ receives'[m] > receives[m]
            \/ \E c \in Consumer : pc[c] = "postpone" /\ m \in job[c].unanswered]_vars

(* A message is handled again only when something failed or handling it    *)
(* outlasted the visibility timeout (Options.VisibilityTimeout, delete).   *)
DuplicatesArePaidFor ==
    \A m \in Message : applied[m] <= 1 + (MaxFaults - faults)

(* How long the waits after the first receipts last, as the comment on     *)
(* retryBaseDelay describes them: each doubles the last, up to the cap.    *)
Wait(receipt) == Min({RetryMax, RetryBase * 2 ^ (receipt - 1)})

Patience(receipts) ==
    LET sum[n \in 0 .. MaxReceives] == IF n = 0 THEN 0 ELSE sum[n - 1] + Wait(n)
    IN  sum[receipts]

(* While nothing else fails, a message the handler would accept is given   *)
(* up only after an outage as long as the waits between its deliveries     *)
(* (postpone, retryDelay).                                                 *)
OutageIsOutlasted ==
    \A m \in Message \ Bad :
        where[m] = "dlq" /\ faults = MaxFaults => downTime >= Patience(MaxReceives - 1)

(* The same with every wait counted, as the comment on retryBaseDelay      *)
(* does: five deliveries, 15 minutes.                                      *)
DocumentedPatience ==
    \A m \in Message \ Bad :
        where[m] = "dlq" /\ faults = MaxFaults => downTime >= Patience(MaxReceives)

(* A consumer whose context ends returns (Start, sleep). *)
ShutdownEnds == \A c \in Consumer : cancelled[c] ~> pc[c] = "stopped"

(* What became of a message, seen from those who send it.                  *)
Fate == [m \in Message |-> IF where[m] # "queue" THEN where[m]
                           ELSE IF hidden[m] > 0 THEN "inFlight" ELSE "visible"]

Handled == {m \in Message : applied[m] > 0}

Handling == INSTANCE QueueHandling WITH fate <- Fate, handled <- Handled

(* The consumers implement what they promise: a message is deleted only    *)
(* once it was handled, and none waits forever (Start, process).           *)
KeepsThePromise == Handling!Spec
=============================================================================
