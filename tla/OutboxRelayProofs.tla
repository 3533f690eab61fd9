------------------------- MODULE OutboxRelayProofs --------------------------
(***************************************************************************)
(* What OutboxRelay guarantees for every number of relays and events, any  *)
(* sizes and limits, and any bound on the failures.                        *)
(***************************************************************************)
EXTENDS OutboxRelay, FiniteSetTheorems, WellFoundedInduction, TLAPS

(* What a relay holds about the events of its pass. *)
PassIsSound(r) ==
    /\ \A e \in job[r].batch : status[e] # "absent" /\ Size[e] <= MaxMessage
    /\ \A e \in job[r].published : copies[e] > 0
    /\ \A e \in job[r].refused : status[e] # "absent" /\ e \in Undeliverable

(* The queue holds only bodies it can take, and only recorded events. *)
QueueIsSound ==
    \A e \in Event : copies[e] > 0 => e \notin Undeliverable /\ status[e] # "absent"

(* The strengthening that makes the safety properties inductive: a mark is *)
(* right because of what the pass remembers of the send before it.         *)
IInv == /\ TypeOK
        /\ QueueIsSound
        /\ \A r \in Relay : PassIsSound(r)
        /\ \A e \in Event : status[e] = "published" => copies[e] > 0
        /\ \A e \in Event : status[e] = "failed" => e \in Undeliverable

(* The smaller of two numbers is one of them (Min of two waits). *)
LEMMA MinOfTwo ==
    ASSUME NEW a \in Int, NEW b \in Int
    PROVE  Min({a, b}) = IF a <= b THEN a ELSE b
<1>1. CASE a <= b
  <2>1. \A x \in {a, b} : a <= x
    BY <1>1
  <2>2. \A m \in {a, b} : (\A x \in {a, b} : m <= x) => m = a
    BY <1>1
  <2> QED BY <2>1, <2>2, <1>1 DEF Min
<1>2. CASE ~(a <= b)
  <2>1. \A x \in {a, b} : b <= x
    BY <1>2
  <2>2. \A m \in {a, b} : (\A x \in {a, b} : m <= x) => m = b
    BY <1>2
  <2> QED BY <2>1, <2>2, <1>2 DEF Min
<1> QED BY <1>1, <1>2

(* How many events have a status is a number (CountPending, CountFailed). *)
LEMMA HavingIsCounted == ASSUME NEW s PROVE Cardinality(Having(s)) \in Nat
<1>1. IsFiniteSet(Event)
  BY FS_Interval, OutboxAssumption DEF Event
<1> QED BY <1>1, FS_Subset, FS_CardinalityType DEF Having

(* The invariant holds when no event was recorded. *)
LEMMA InitIsSound == Init => IInv
BY OutboxAssumption
   DEF Init, IInv, TypeOK, QueueIsSound, PassIsSound, NoPass, Passes, Labels, Unset

(* Writing the outcome of a pass keeps the invariant, whether or not the   *)
(* write reports an error.                                                 *)
LEMMA WriteKeepsTheRest ==
    ASSUME NEW r \in Relay, NEW next \in Labels \cup {"passEnd"}, TypeOK,
           NEW ACTION W, Write(r, W, next)
    PROVE  /\ W \/ UNCHANGED table
           /\ UNCHANGED <<queue, job, backoff, cancelled, gauges>>
           /\ pc' \in [Relay -> Labels]
           /\ faults' \in 0 .. MaxFaults
BY OutboxAssumption
   DEF Write, Proceed, PassFails, CallFails, Fault, Goto, TypeOK, Labels

(* Every step of a relay, and of what surrounds it, keeps the invariant. *)
LEMMA StepKeepsIInv == IInv /\ [Next]_vars => IInv'
<1> SUFFICES ASSUME IInv, [Next]_vars PROVE IInv'
  OBVIOUS
<1> USE OutboxAssumption
<1>1. ASSUME NEW r \in Relay, Start(r) PROVE IInv'
  BY <1>1 DEF IInv, TypeOK, QueueIsSound, PassIsSound, Undeliverable, Start, Goto,
     NoPass, Passes, Labels, Unset, table, queue
<1>2. ASSUME NEW r \in Relay, Return(r) \/ PollElapses(r) PROVE IInv'
  BY <1>2 DEF IInv, TypeOK, QueueIsSound, PassIsSound, Undeliverable, Return,
     PollElapses, Goto, Labels, table, queue, gauges
<1>3. ASSUME NEW r \in Relay, BackoffElapses(r) PROVE IInv'
  <2>1. Min({2 * backoff[r], MaxBackoff}) \in MinBackoff .. MaxBackoff
    <3>1. backoff[r] \in Int /\ 2 * backoff[r] \in Int /\ MaxBackoff \in Int
          /\ MinBackoff <= backoff[r] /\ 0 < MinBackoff /\ MinBackoff <= MaxBackoff
      BY DEF IInv, TypeOK
    <3> QED BY <3>1, MinOfTwo
  <2> QED BY <1>3, <2>1 DEF IInv, TypeOK, QueueIsSound, PassIsSound, Undeliverable,
             BackoffElapses, Goto, Labels, table, queue, gauges
<1>4. ASSUME NEW r \in Relay, FetchFails(r) PROVE IInv'
  BY <1>4 DEF IInv, TypeOK, QueueIsSound, PassIsSound, Undeliverable, FetchFails,
     CallFails, Fault, PassFails, Goto, Labels, table, queue, gauges
<1>5. ASSUME NEW r \in Relay, FetchPending(r) PROVE IInv'
  <2> DEFINE F == Oldest(Having("pending"))
             j == [NoPass EXCEPT !.batch = Batch(F),
                                 !.refused = Oversized(F),
                                 !.more = Cardinality(F) = BatchSize \/ Left(F) # {}]
  <2>1. F \subseteq {e \in Event : status[e] = "pending"}
    BY DEF Oldest, Having
  <2>2. \A e \in Batch(F) : e \in F /\ Size[e] <= MaxMessage
    BY DEF Batch, Fits
  <2>3. \A e \in Oversized(F) : e \in F /\ e \in Undeliverable
    BY <2>1 DEF Oversized, Undeliverable
  <2> HIDE DEF F
  <2>4. j \in Passes /\ j.batch = Batch(F) /\ j.refused = Oversized(F)
        /\ j.published = {} /\ ~j.sendFailed
    BY <2>1, <2>2, <2>3 DEF NoPass, Passes
  <2>5. /\ job' = [job EXCEPT ![r] = j]
        /\ pc' \in [Relay -> Labels]
        /\ UNCHANGED <<table, queue, backoff, cancelled, gauges, faults>>
    BY <1>5, <2>4 DEF FetchPending, F, IInv, TypeOK, Proceed, AfterSend,
       AfterPublished, AfterFailed, PassFails, Goto, Labels
  <2> HIDE DEF j
  <2> QED BY <2>1, <2>2, <2>3, <2>4, <2>5
          DEF IInv, TypeOK, QueueIsSound, PassIsSound, table, queue, gauges
<1>6. ASSUME NEW r \in Relay, SendAnswered(r) \/ SendFails(r) PROVE IInv'
  <2>1. PICK accepted \in SUBSET (job[r].batch \ Poison), j \in Passes :
          /\ Accept(accepted)
          /\ job' = [job EXCEPT ![r] = j]
          /\ j.batch = job[r].batch
          /\ j.published \in {job[r].published, accepted}
          /\ j.refused \in {job[r].refused, job[r].refused \cup (job[r].batch \cap Poison)}
          /\ Proceed(r, j, AfterSend(j))
          /\ faults' \in 0 .. MaxFaults
          /\ UNCHANGED <<table, queueUp, backoff, cancelled, gauges>>
    <3>1. CASE SendAnswered(r)
      <4>1. PICK accepted \in SUBSET (job[r].batch \ Poison), notTaken \in SUBSET job[r].batch :
              /\ Answer(r, accepted, job[r].batch \cap Poison, notTaken)
              /\ faults' = faults \/ Fault
        BY <3>1 DEF SendAnswered
      <4> DEFINE j == [job[r] EXCEPT !.published = accepted,
                                     !.refused = @ \cup (job[r].batch \cap Poison),
                                     !.retry = notTaken]
      <4>2. /\ j \in Passes /\ j.batch = job[r].batch /\ j.published = accepted
            /\ j.refused = job[r].refused \cup (job[r].batch \cap Poison)
        <5> job[r] \in Passes
          BY DEF IInv, TypeOK
        <5> accepted \in SUBSET job[r].batch /\ job[r].batch \in SUBSET Event
          BY DEF Passes
        <5> QED BY DEF Passes
      <4>3. faults' \in 0 .. MaxFaults
        BY <4>1 DEF Fault, IInv, TypeOK
      <4> QED BY <4>1, <4>2, <4>3 DEF Answer
    <3>2. CASE SendFails(r)
      <4> DEFINE j == [job[r] EXCEPT !.retry = job[r].batch, !.sendFailed = TRUE]
      <4>1. PICK accepted \in SUBSET (job[r].batch \ Poison) :
              /\ Accept(accepted)
              /\ job' = [job EXCEPT ![r] = j]
              /\ Proceed(r, j, AfterSend(j))
              /\ IF queueUp THEN CallFails(r) ELSE UNCHANGED faults
              /\ UNCHANGED <<table, queueUp, backoff, cancelled, gauges>>
        BY <3>2 DEF SendFails, NoAnswer
      <4> job[r] \in Passes
        BY DEF IInv, TypeOK
      <4>2. /\ j \in Passes /\ j.batch = job[r].batch
            /\ j.published = job[r].published /\ j.refused = job[r].refused
        BY DEF Passes
      <4>3. faults' \in 0 .. MaxFaults
        BY <4>1 DEF CallFails, Fault, IInv, TypeOK
      <4> QED BY <4>1, <4>2, <4>3
    <3> QED BY <1>6, <3>1, <3>2
  <2>11. pc' \in [Relay -> Labels]
    BY <2>1 DEF IInv, TypeOK, Proceed, AfterSend, AfterPublished, AfterFailed,
       PassFails, Goto, Labels
  <2>2. /\ copies' \in [Event -> Nat]
        /\ \A e \in Event : copies[e] > 0 => copies'[e] > 0
        /\ \A e \in accepted : copies'[e] > 0
        /\ \A e \in Event : copies'[e] > 0 => copies[e] > 0 \/ e \in accepted
    BY <2>1 DEF Accept, IInv, TypeOK, Passes
  <2>3. \A e \in accepted : e \notin Undeliverable /\ status[e] # "absent"
    BY DEF IInv, PassIsSound, TypeOK, Passes, Undeliverable
  <2>4. TypeOK'
    BY <2>1, <2>2, <2>11 DEF IInv, TypeOK, table, gauges
  <2>5. \A s \in Relay : PassIsSound(s)'
    <3> SUFFICES ASSUME NEW s \in Relay PROVE PassIsSound(s)'
      OBVIOUS
    <3>1. status' = status /\ job'[s] = IF s = r THEN j ELSE job[s]
      BY <2>1 DEF table, IInv, TypeOK
    <3>2. \A e \in job[s].published : copies'[e] > 0
      BY <2>2 DEF IInv, PassIsSound, TypeOK, Passes
    <3>3. \A e \in job[r].batch \cap Poison : e \in Undeliverable
      BY DEF Undeliverable
    <3> QED BY <2>1, <2>2, <3>1, <3>2, <3>3 DEF IInv, PassIsSound, Undeliverable
  <2> QED BY <2>1, <2>2, <2>3, <2>4, <2>5 DEF IInv, QueueIsSound, Undeliverable, table
<1>7. ASSUME NEW r \in Relay, MarkPublished(r) PROVE IInv'
  <2>1. /\ SetStatus(job[r].published, "published") \/ UNCHANGED table
        /\ UNCHANGED <<queue, job, backoff, cancelled, gauges>>
        /\ pc' \in [Relay -> Labels]
        /\ faults' \in 0 .. MaxFaults
    BY <1>7, WriteKeepsTheRest
       DEF IInv, MarkPublished, AfterPublished, AfterFailed, Labels
  <2>2. CASE SetStatus(job[r].published, "published")
    <3>1. \A e \in Event : status'[e] = IF e \in job[r].published THEN "published" ELSE status[e]
      BY <2>2 DEF SetStatus
    <3>2. TypeOK'
      BY <2>1, <2>2 DEF IInv, TypeOK, SetStatus, queue, gauges
    <3>3. \A e \in job[r].published : copies[e] > 0
      BY DEF IInv, PassIsSound
    <3>4. \A e \in Event : status[e] # "absent" => status'[e] # "absent"
      BY <3>1
    <3>5. \A s \in Relay : job[s] \in Passes
      BY DEF IInv, TypeOK
    <3> QED BY <2>1, <3>1, <3>2, <3>3, <3>4, <3>5
            DEF IInv, QueueIsSound, PassIsSound, Undeliverable, queue, Passes
  <2>3. CASE UNCHANGED table
    BY <2>1, <2>3 DEF IInv, TypeOK, QueueIsSound, PassIsSound, Undeliverable, table,
       queue, gauges
  <2> QED BY <2>1, <2>2, <2>3
<1>8. ASSUME NEW r \in Relay, MarkFailed(r) PROVE IInv'
  <2>1. /\ SetStatus(job[r].refused, "failed") \/ UNCHANGED table
        /\ UNCHANGED <<queue, job, backoff, cancelled, gauges>>
        /\ pc' \in [Relay -> Labels]
        /\ faults' \in 0 .. MaxFaults
    BY <1>8, WriteKeepsTheRest DEF IInv, MarkFailed, AfterFailed, Labels
  <2>2. CASE SetStatus(job[r].refused, "failed")
    <3>1. \A e \in Event : status'[e] = IF e \in job[r].refused THEN "failed" ELSE status[e]
      BY <2>2 DEF SetStatus
    <3>2. TypeOK'
      BY <2>1, <2>2 DEF IInv, TypeOK, SetStatus, queue, gauges
    <3>3. \A e \in job[r].refused : e \in Undeliverable
      BY DEF IInv, PassIsSound
    <3>4. \A e \in Event : status[e] # "absent" => status'[e] # "absent"
      BY <3>1
    <3>5. \A s \in Relay : job[s] \in Passes
      BY DEF IInv, TypeOK
    <3> QED BY <2>1, <3>1, <3>2, <3>3, <3>4, <3>5
            DEF IInv, QueueIsSound, PassIsSound, Undeliverable, queue, Passes
  <2>3. CASE UNCHANGED table
    BY <2>1, <2>3 DEF IInv, TypeOK, QueueIsSound, PassIsSound, Undeliverable, table,
       queue, gauges
  <2> QED BY <2>1, <2>2, <2>3
<1>9. ASSUME NEW r \in Relay, IncrementAttempts(r) PROVE IInv'
  <2>1. /\ CountAttempt(job[r].retry) \/ UNCHANGED table
        /\ UNCHANGED <<queue, job, backoff, cancelled, gauges>>
        /\ pc' \in [Relay -> Labels]
        /\ faults' \in 0 .. MaxFaults
    BY <1>9, WriteKeepsTheRest DEF IInv, IncrementAttempts
  <2> QED BY <2>1 DEF IInv, TypeOK, QueueIsSound, PassIsSound, Undeliverable,
             CountAttempt, table, queue, gauges
<1>10. ASSUME NEW r \in Relay, Observe(r) PROVE IInv'
  BY <1>10, HavingIsCounted DEF IInv, TypeOK, QueueIsSound, PassIsSound, Undeliverable,
     Observe, PassEnds, Refresh, CallFails, Fault, Goto, Labels, table, queue
<1>11. ASSUME NEW r \in Relay, Cancel(r) \/ Crash(r) PROVE IInv'
  <2>1. /\ cancelled' \in [Relay -> BOOLEAN] /\ pc' \in [Relay -> Labels]
        /\ faults' \in 0 .. MaxFaults
        /\ UNCHANGED <<table, queue, job, backoff, gauges>>
    <3>1. CASE Cancel(r)
      BY <3>1 DEF IInv, TypeOK, Cancel, Fault
    <3>2. CASE Crash(r)
      BY <3>2 DEF IInv, TypeOK, Crash, Fault, Goto, Labels
    <3> QED BY <1>11, <3>1, <3>2
  <2> QED BY <2>1 DEF IInv, TypeOK, QueueIsSound, PassIsSound, Undeliverable, table,
             queue, gauges
<1>12. ASSUME NEW e \in Event, Record(e) PROVE IInv'
  BY <1>12 DEF IInv, TypeOK, QueueIsSound, PassIsSound, Undeliverable, Record,
     queue, gauges, Passes
<1>13. ASSUME QueueGoesDown \/ QueueComesUp PROVE IInv'
  <2>1. /\ queueUp' \in BOOLEAN /\ faults' \in 0 .. MaxFaults
        /\ UNCHANGED <<table, copies, pc, job, backoff, cancelled, gauges>>
    <3>1. CASE QueueGoesDown
      <4>1. faults' \in 0 .. MaxFaults
        BY <3>1 DEF IInv, TypeOK, QueueGoesDown, Fault
      <4> QED BY <3>1, <4>1, Zenon DEF QueueGoesDown
    <3>2. CASE QueueComesUp
      BY <3>2 DEF IInv, TypeOK, QueueComesUp
    <3> QED BY <1>13, <3>1, <3>2
  <2> QED BY <2>1 DEF IInv, TypeOK, QueueIsSound, PassIsSound, Undeliverable, table,
             gauges
<1>14. CASE UNCHANGED vars
  BY <1>14 DEF IInv, TypeOK, QueueIsSound, PassIsSound, Undeliverable, vars, table,
     queue, gauges
<1> QED BY <1>1, <1>2, <1>3, <1>4, <1>5, <1>6, <1>7, <1>8, <1>9, <1>10, <1>11, <1>12,
           <1>13, <1>14 DEF Next, Step

(* The safety properties that the invariant yields.                        *)
LEMMA IInvIsStrongEnough == IInv => TypeOK /\ PublishedWasAccepted /\ FailedIsUndeliverable
BY DEF IInv, TypeOK, QueueIsSound, PublishedWasAccepted, FailedIsUndeliverable

LEMMA IInvHolds == Spec => []IInv
BY InitIsSound, StepKeepsIInv, PTL DEF Spec

(* Every variable keeps its type in every execution of every relay. *)
THEOREM TypeCorrect == Spec => []TypeOK
BY IInvHolds, IInvIsStrongEnough, PTL

(* No event is ever marked published that the queue does not hold (drain   *)
(* and mark under any interleaving of relays, crashes and failed calls).   *)
THEOREM PublishedIsSafe == Spec => []PublishedWasAccepted
BY IInvHolds, IInvIsStrongEnough, PTL

(* No event the queue could take is ever set aside (split, send, mark).    *)
THEOREM FailedIsSafe == Spec => []FailedIsUndeliverable
BY IInvHolds, IInvIsStrongEnough, PTL

(* An event that was published or set aside keeps that outcome for good,   *)
(* even when two relays hold it at once (mark).                            *)
THEOREM OutcomesAreFinal == Spec => OutcomeIsFinal
<1> DEFINE Final == \A e \in Event : status[e] \in {"published", "failed"}
                                        => status'[e] = status[e]
<1>1. IInv /\ [Next]_vars => [Final]_vars
  <2> SUFFICES ASSUME IInv, Next PROVE Final
    BY DEF vars
  <2> USE DEF IInv, TypeOK
  <2>1. ASSUME NEW r \in Relay, Step(r) PROVE Final
    <3>1. ASSUME NEW ACTION W, NEW next, Write(r, W, next) PROVE W \/ UNCHANGED table
      BY <3>1 DEF Write
    <3>2. CASE MarkPublished(r)
      <4>1. \A e \in job[r].published : e \in Event => status[e] # "failed"
        BY DEF PassIsSound, QueueIsSound
      <4>2. SetStatus(job[r].published, "published") \/ UNCHANGED table
        BY <3>1, <3>2 DEF MarkPublished
      <4> QED BY <4>1, <4>2 DEF SetStatus, table
    <3>3. CASE MarkFailed(r)
      <4>1. \A e \in job[r].refused : e \in Event => status[e] # "published"
        BY DEF PassIsSound, QueueIsSound
      <4>2. SetStatus(job[r].refused, "failed") \/ UNCHANGED table
        BY <3>1, <3>3 DEF MarkFailed
      <4> QED BY <4>1, <4>2 DEF SetStatus, table
    <3>4. CASE IncrementAttempts(r)
      <4>1. CountAttempt(job[r].retry) \/ UNCHANGED table
        BY <3>1, <3>4 DEF IncrementAttempts
      <4> QED BY <4>1 DEF CountAttempt, table
    <3>5. ASSUME ~MarkPublished(r), ~MarkFailed(r), ~IncrementAttempts(r)
          PROVE  UNCHANGED status
      BY <2>1, <3>5 DEF Step, Start, Return, BackoffElapses, PollElapses, FetchFails,
         FetchPending, SendAnswered, Answer, SendFails, NoAnswer, Observe, PassEnds, table
    <3> QED BY <3>2, <3>3, <3>4, <3>5
  <2>2. ASSUME NEW r \in Relay, Cancel(r) \/ Crash(r) PROVE Final
    BY <2>2 DEF Cancel, Crash, table
  <2>3. ASSUME NEW e \in Event, Record(e) PROVE Final
    BY <2>3 DEF Record
  <2>4. ASSUME QueueGoesDown \/ QueueComesUp PROVE Final
    BY <2>4 DEF QueueGoesDown, QueueComesUp, table
  <2> QED BY <2>1, <2>2, <2>3, <2>4 DEF Next
<1> QED BY IInvHolds, <1>1, PTL DEF Spec, OutcomeIsFinal

-----------------------------------------------------------------------------
(* Refinement: what a step does to the fate of the events.                 *)

(* Nothing recorded, nothing promised. *)
LEMMA InitImplements == Init => Delivery!Init
BY DEF Init, Delivery!Init, Fate

(* A send moves to delivered those of the accepted events that waited.     *)
LEMMA SendImplements ==
    ASSUME IInv, NEW r \in Relay, SendAnswered(r) \/ SendFails(r)
    PROVE  \E S \in SUBSET Event : Delivery!Deliver(S)
<1>1. PICK accepted \in SUBSET (job[r].batch \ Poison) :
        Accept(accepted) /\ UNCHANGED table
  BY DEF SendAnswered, SendFails, Answer, NoAnswer
<1>2. \A e \in accepted : e \in Event /\ status[e] \in {"pending", "published"}
  <2> SUFFICES ASSUME NEW e \in accepted
               PROVE  e \in Event /\ status[e] \in {"pending", "published"}
    OBVIOUS
  <2>1. e \in job[r].batch /\ e \in Event /\ e \notin Poison
    BY DEF IInv, TypeOK, Passes
  <2>2. status[e] # "absent" /\ Size[e] <= MaxMessage
    BY <2>1 DEF IInv, PassIsSound
  <2>3. e \notin Undeliverable
    BY <2>1, <2>2, OutboxAssumption DEF Undeliverable
  <2> QED BY <2>1, <2>2, <2>3 DEF IInv, TypeOK
<1> DEFINE S == {e \in accepted : copies[e] = 0}
<1>3. S \in SUBSET Event
  BY <1>2
<1>4. \A e \in S : status[e] = "pending"
  BY <1>2 DEF IInv, TypeOK
<1>5. S \subseteq Delivery!Waiting
  BY <1>3, <1>4 DEF Delivery!Waiting, Fate
<1>6. \A e \in Event : copies'[e] = IF e \in accepted THEN copies[e] + 1 ELSE copies[e]
  BY <1>1 DEF Accept
<1>7. \A e \in Event : copies[e] \in Nat /\ status'[e] = status[e]
  BY <1>1 DEF IInv, TypeOK, table
<1>8. Fate' = [e \in Event |-> IF e \in S THEN "delivered" ELSE Fate[e]]
  BY <1>6, <1>7 DEF Fate
<1> QED BY <1>3, <1>5, <1>8 DEF Delivery!Deliver, Delivery!Settle, Fate

(* A relay's mark of failed events sets aside those that still waited.     *)
LEMMA MarkFailedImplements ==
    ASSUME IInv, NEW r \in Relay, MarkFailed(r)
    PROVE  (\E S \in SUBSET Event : Delivery!Refuse(S)) \/ UNCHANGED Fate
<1>1. UNCHANGED copies /\ (SetStatus(job[r].refused, "failed") \/ UNCHANGED table)
  BY DEF MarkFailed, Write, queue
<1>2. CASE SetStatus(job[r].refused, "failed")
  <2> DEFINE S == {e \in job[r].refused : status[e] = "pending"}
  <2>1. job[r].refused \subseteq Event
    BY DEF IInv, TypeOK, Passes
  <2>2. \A e \in job[r].refused : /\ status[e] \in {"pending", "failed"}
                                  /\ ~(copies[e] > 0)
                                  /\ e \in Undeliverable
    BY <2>1 DEF IInv, TypeOK, PassIsSound, QueueIsSound
  <2>3. \A e \in Event : status'[e] = IF e \in job[r].refused THEN "failed" ELSE status[e]
    BY <1>2 DEF SetStatus
  <2>4. Fate' = [e \in Event |-> IF e \in S THEN "refused" ELSE Fate[e]]
    BY <1>1, <2>2, <2>3 DEF Fate
  <2>5. S \subseteq Delivery!Waiting \cap Undeliverable
    BY <2>1, <2>2 DEF Delivery!Waiting, Fate
  <2> QED BY <2>1, <2>4, <2>5 DEF Delivery!Refuse, Delivery!Settle, Fate
<1>3. CASE UNCHANGED table
  BY <1>1, <1>3 DEF Fate, table
<1> QED BY <1>1, <1>2, <1>3

(* A mark of published events changes no fate: the queue has them already. *)
LEMMA MarkPublishedImplements ==
    ASSUME IInv, NEW r \in Relay, MarkPublished(r)
    PROVE  UNCHANGED Fate
<1>1. UNCHANGED copies /\ (SetStatus(job[r].published, "published") \/ UNCHANGED table)
  BY DEF MarkPublished, Write, queue
<1>2. \A e \in job[r].published : copies[e] > 0
  BY DEF IInv, PassIsSound
<1> QED BY <1>1, <1>2 DEF SetStatus, Fate, table

(* Recording an event makes it wait. *)
LEMMA RecordImplements ==
    ASSUME IInv, NEW e \in Event, Record(e)
    PROVE  Delivery!Record(e)
<1>1. ~(copies[e] > 0)
  BY DEF IInv, QueueIsSound, Record
<1>2. UNCHANGED copies /\ status' = [status EXCEPT ![e] = "pending"] /\ status[e] = "absent"
  BY DEF Record, queue
<1> QED BY <1>1, <1>2 DEF Delivery!Record, Delivery!Settle, IInv, TypeOK, Fate

(* Every step of the relays is a step of the promise, or none.             *)
LEMMA StepImplements == IInv /\ [Next]_vars => [Delivery!Next]_Fate
<1> SUFFICES ASSUME IInv, [Next]_vars PROVE Delivery!Next \/ UNCHANGED Fate
  OBVIOUS
<1>1. ASSUME NEW r \in Relay, Step(r) PROVE Delivery!Next \/ UNCHANGED Fate
  <2>1. CASE SendAnswered(r) \/ SendFails(r)
    BY <2>1, SendImplements DEF Delivery!Next
  <2>2. CASE MarkFailed(r)
    BY <2>2, MarkFailedImplements DEF Delivery!Next
  <2>3. CASE MarkPublished(r)
    BY <2>3, MarkPublishedImplements
  <2>4. CASE IncrementAttempts(r)
    <3>1. UNCHANGED <<status, copies>>
      BY <2>4 DEF IncrementAttempts, Write, CountAttempt, table, queue
    <3> QED BY <3>1 DEF Fate
  <2>5. ASSUME ~SendAnswered(r), ~SendFails(r), ~MarkFailed(r), ~MarkPublished(r),
               ~IncrementAttempts(r)
        PROVE  UNCHANGED Fate
    <3>1. UNCHANGED <<status, copies>>
      BY <1>1, <2>5 DEF Step, Start, Return, BackoffElapses, PollElapses, FetchFails,
         FetchPending, Observe, PassEnds, table, queue
    <3> QED BY <3>1 DEF Fate
  <2> QED BY <2>1, <2>2, <2>3, <2>4, <2>5
<1>2. ASSUME NEW e \in Event, Record(e) PROVE Delivery!Next
  BY <1>2, RecordImplements DEF Delivery!Next
<1>3. ASSUME NEW r \in Relay, Cancel(r) \/ Crash(r) PROVE UNCHANGED Fate
  BY <1>3 DEF Cancel, Crash, table, queue, Fate
<1>4. ASSUME QueueGoesDown \/ QueueComesUp PROVE UNCHANGED Fate
  BY <1>4 DEF QueueGoesDown, QueueComesUp, table, Fate
<1>5. CASE UNCHANGED vars
  BY <1>5 DEF vars, table, queue, Fate
<1> QED BY <1>1, <1>2, <1>3, <1>4, <1>5 DEF Next

(* The relays keep the safety part of the promise: an event only moves     *)
(* from waiting to delivered, or to refused if the queue never takes it.   *)
THEOREM RelayImplementsDelivery == Spec => Delivery!SafetySpec
BY InitImplements, IInvHolds, StepImplements, PTL DEF Spec, Delivery!SafetySpec

-----------------------------------------------------------------------------
(* Duplicates.  Every copy of an event to come is that of a relay that     *)
(* has not delivered it yet, or of a failure.                              *)

Unsettled(e) == status[e] \in {"absent", "pending"}

Sends(r, e) == pc[r] = "send" /\ e \in job[r].batch

(* The relay will settle the event, unless something fails. *)
Marks(r, e) == pc[r] = "markPublished" /\ e \in job[r].published /\ ~cancelled[r]

MayDeliver(e) == {r \in Enabled : Sends(r, e) \/ (Unsettled(e) /\ ~Marks(r, e))}

(* A relay that was cancelled sends, fails to mark, and may send again. *)
MayRepeat(e) == {r \in Enabled : cancelled[r] /\ Sends(r, e)}

(* The copies of an event that a relay may still add. *)
Claims(r, e) == (IF r \in MayDeliver(e) THEN 1 ELSE 0) + (IF r \in MayRepeat(e) THEN 1 ELSE 0)

Paid(e) == copies[e] + Cardinality(MayDeliver(e)) + Cardinality(MayRepeat(e))
              <= Cardinality(Enabled) + (MaxFaults - faults)

StoppedIfDisabled == \A r \in Relay : pc[r] # "stopped" => r \in Enabled

(* How a set of relays shrinks and grows with one of them. *)
LEMMA OneMoreOrLess ==
    ASSUME NEW S \in SUBSET Enabled, NEW T \in SUBSET Enabled, NEW r \in Enabled,
           T \ {r} \subseteq S
    PROVE  /\ Cardinality(S) \in Nat /\ Cardinality(T) \in Nat
           /\ Cardinality(T) - (IF r \in T THEN 1 ELSE 0)
                 <= Cardinality(S) - (IF r \in S THEN 1 ELSE 0)
<1> DEFINE Sr == S \ {r}
           Tr == T \ {r}
<1>1. IsFiniteSet(S) /\ IsFiniteSet(T)
  BY FS_Subset, OutboxAssumption
<1>2. IsFiniteSet(Sr) /\ Tr \subseteq Sr
  BY <1>1, FS_Subset
<1>3. Cardinality(Tr) <= Cardinality(Sr)
  BY <1>2, FS_Subset
<1>4. Cardinality(Sr) = IF r \in S THEN Cardinality(S) - 1 ELSE Cardinality(S)
  BY <1>1, FS_RemoveElement
<1>5. Cardinality(Tr) = IF r \in T THEN Cardinality(T) - 1 ELSE Cardinality(T)
  BY <1>1, FS_RemoveElement
<1>6. Cardinality(S) \in Nat /\ Cardinality(T) \in Nat
  BY <1>1, FS_CardinalityType
<1> HIDE DEF Sr, Tr
<1> QED BY <1>3, <1>4, <1>5, <1>6

(* The sums of an account before and after a step. *)
LEMMA AccountKeepsBalance ==
    ASSUME NEW c \in Int, NEW d \in Int, NEW k \in Int, NEW D \in Int, NEW R \in Int,
           NEW f \in Int, NEW c1 \in Int, NEW d1 \in Int, NEW k1 \in Int,
           NEW D1 \in Int, NEW R1 \in Int, NEW f1 \in Int, NEW E \in Int, NEW M \in Int,
           c1 + (d1 + k1) + f1 <= c + (d + k) + f,
           D1 - d1 <= D - d, R1 - k1 <= R - k,
           c + D + R <= E + (M - f)
    PROVE  c1 + D1 + R1 <= E + (M - f1)
BY SMT

(* A step of one relay that gives up as much as it takes keeps the account. *)
LEMMA StepOfOneIsPaid ==
    ASSUME TypeOK, NEW e \in Event, Paid(e), NEW r \in Enabled,
           \A s \in Relay : s # r => /\ pc'[s] = pc[s] /\ job'[s] = job[s]
                                    /\ cancelled'[s] = cancelled[s],
           Unsettled(e)' => Unsettled(e),
           copies'[e] \in Nat, faults' \in Nat,
           copies'[e] + Claims(r, e)' + faults' <= copies[e] + Claims(r, e) + faults
    PROVE  Paid(e)'
<1>1. \A s \in Enabled : s # r => (s \in MayDeliver(e)' => s \in MayDeliver(e))
  BY OutboxAssumption DEF MayDeliver, Sends, Marks
<1>2. \A s \in Enabled : s # r => (s \in MayRepeat(e)' => s \in MayRepeat(e))
  BY OutboxAssumption DEF MayRepeat, Sends
<1> DEFINE D == Cardinality(MayDeliver(e))
           R == Cardinality(MayRepeat(e))
<1>3. /\ D \in Nat /\ D' \in Nat
      /\ D' - (IF r \in MayDeliver(e)' THEN 1 ELSE 0)
            <= D - (IF r \in MayDeliver(e) THEN 1 ELSE 0)
  <2>1. MayDeliver(e) \in SUBSET Enabled /\ MayDeliver(e)' \in SUBSET Enabled
    BY DEF MayDeliver
  <2> QED BY <1>1, <2>1, OneMoreOrLess
<1>4. /\ R \in Nat /\ R' \in Nat
      /\ R' - (IF r \in MayRepeat(e)' THEN 1 ELSE 0)
            <= R - (IF r \in MayRepeat(e) THEN 1 ELSE 0)
  <2>1. MayRepeat(e) \in SUBSET Enabled /\ MayRepeat(e)' \in SUBSET Enabled
    BY DEF MayRepeat
  <2> QED BY <1>2, <2>1, OneMoreOrLess
<1>5. IsFiniteSet(Enabled)
  BY FS_Subset, OutboxAssumption
<1>6. Cardinality(Enabled) \in Nat
  BY <1>5, FS_CardinalityType
<1>7. copies[e] \in Nat /\ faults \in Nat /\ MaxFaults \in Nat
  BY OutboxAssumption DEF TypeOK
<1>8. copies[e] + D + R <= Cardinality(Enabled) + (MaxFaults - faults)
  BY DEF Paid
<1> DEFINE d == IF r \in MayDeliver(e) THEN 1 ELSE 0
           k == IF r \in MayRepeat(e) THEN 1 ELSE 0
<1>9. copies'[e] + (d' + k') + faults' <= copies[e] + (d + k) + faults
  BY DEF Claims
<1>10. d \in {0, 1} /\ d' \in {0, 1} /\ k \in {0, 1} /\ k' \in {0, 1}
  OBVIOUS
<1>11. D' - d' <= D - d /\ R' - k' <= R - k
  BY <1>3, <1>4
<1> HIDE DEF D, R, d, k
<1>12. /\ {D, D', R, R', d, d', k, k'} \subseteq Int
       /\ {copies[e], copies'[e], faults, faults', Cardinality(Enabled), MaxFaults} \subseteq Int
  BY <1>3, <1>4, <1>6, <1>7, <1>10
<1>13. copies'[e] + D' + R' <= Cardinality(Enabled) + (MaxFaults - faults')
  BY <1>8, <1>9, <1>11, <1>12, AccountKeepsBalance
<1> QED BY <1>13 DEF Paid, D, R

(* At first each relay may deliver each event once. *)
LEMMA InitIsPaid == Init => StoppedIfDisabled /\ \A e \in Event : Paid(e)
<1> SUFFICES ASSUME Init, NEW e \in Event PROVE Paid(e)
  BY DEF Init, StoppedIfDisabled
<1>1. MayRepeat(e) = {} /\ MayDeliver(e) = Enabled
  BY OutboxAssumption DEF Init, MayRepeat, MayDeliver, Sends, Marks, Unsettled
<1>2. IsFiniteSet(Enabled)
  BY FS_Subset, OutboxAssumption
<1>3. Cardinality(MayRepeat(e)) = 0 /\ Cardinality(Enabled) \in Nat
  BY <1>1, <1>2, FS_EmptySet, FS_CardinalityType
<1> QED BY <1>1, <1>3, OutboxAssumption DEF Init, Paid

(* Every step keeps the account of an event: a send gives up a claim for   *)
(* each copy it adds, and a failure pays for one.                          *)
LEMMA StepKeepsPaid ==
    ASSUME IInv, IInv', StoppedIfDisabled, [Next]_vars, NEW e \in Event, Paid(e)
    PROVE  Paid(e)'
<1>1. /\ copies[e] \in Nat /\ copies'[e] \in Nat
      /\ faults \in Nat /\ faults' \in Nat
      /\ TypeOK
  BY OutboxAssumption DEF IInv, TypeOK
<1> DEFINE Others(r) == \A s \in Relay : s # r => /\ pc'[s] = pc[s] /\ job'[s] = job[s]
                                                 /\ cancelled'[s] = cancelled[s]
<1>2. ASSUME NEW r \in Relay, pc[r] \notin {"send", "markPublished"}, pc'[r] # "send",
             Others(r), UNCHANGED copies, Unsettled(e)' => Unsettled(e),
             faults' = faults \/ Fault, r \in Enabled
      PROVE  Paid(e)'
  <2>1. Claims(r, e) = IF Unsettled(e) THEN 1 ELSE 0
    BY <1>2 DEF Claims, MayDeliver, MayRepeat, Sends, Marks
  <2>2. Claims(r, e)' \in {0, IF Unsettled(e)' THEN 1 ELSE 0}
    BY <1>2 DEF Claims, MayDeliver, MayRepeat, Sends, Marks
  <2>3. faults' <= faults
    BY <1>1, <1>2 DEF Fault
  <2>4. copies'[e] + Claims(r, e)' + faults' <= copies[e] + Claims(r, e) + faults
    BY <1>1, <1>2, <2>1, <2>2, <2>3
  <2> QED BY <1>1, <1>2, <2>4, StepOfOneIsPaid
<1>3. ASSUME NEW r \in Relay, Step(r) PROVE r \in Enabled
  BY <1>3 DEF Step, Start, Return, BackoffElapses, PollElapses, FetchFails, FetchPending,
     SendAnswered, Answer, SendFails, NoAnswer, MarkPublished, MarkFailed,
     IncrementAttempts, Observe, PassEnds, StoppedIfDisabled
<1>4. ASSUME NEW r \in Relay,
             \/ Start(r) \/ Return(r) \/ BackoffElapses(r) \/ PollElapses(r)
             \/ FetchFails(r) \/ Observe(r)
      PROVE  Paid(e)'
  <2>1. pc[r] \notin {"send", "markPublished"} /\ pc'[r] # "send" /\ Others(r)
    BY <1>4 DEF Start, Return, BackoffElapses, PollElapses, FetchFails, Observe, PassEnds,
       PassFails, Goto, IInv, TypeOK
  <2>2. UNCHANGED <<status, copies>>
    BY <1>4 DEF Start, Return, BackoffElapses, PollElapses, FetchFails, Observe, PassEnds,
       table, queue
  <2>3. faults' = faults \/ Fault
    BY <1>4 DEF Start, Return, BackoffElapses, PollElapses, FetchFails, Observe, Refresh,
       CallFails
  <2> QED BY <1>2, <1>3, <1>4, <2>1, <2>2, <2>3 DEF Step, Unsettled
<1>5. ASSUME NEW r \in Relay, MarkFailed(r) \/ IncrementAttempts(r) PROVE Paid(e)'
  <2>1. /\ pc[r] \notin {"send", "markPublished"} /\ pc'[r] # "send" /\ Others(r)
        /\ UNCHANGED copies /\ (faults' = faults \/ Fault)
    BY <1>5 DEF MarkFailed, IncrementAttempts, Write, Proceed, AfterFailed, PassFails,
       CallFails, Goto, IInv, TypeOK, queue
  <2>2. Unsettled(e)' => Unsettled(e)
    BY <1>5 DEF MarkFailed, IncrementAttempts, Write, SetStatus, CountAttempt, table,
       Unsettled
  <2> QED BY <1>2, <1>3, <1>5, <2>1, <2>2 DEF Step
<1>6. ASSUME NEW r \in Relay, FetchPending(r) PROVE Paid(e)'
  <2> DEFINE F == Oldest(Having("pending"))
             j == [NoPass EXCEPT !.batch = Batch(F),
                                 !.refused = Oversized(F),
                                 !.more = Cardinality(F) = BatchSize \/ Left(F) # {}]
  <2>1. /\ pc[r] = "top" /\ ~cancelled[r]
        /\ job' = [job EXCEPT ![r] = j]
        /\ UNCHANGED <<table, queue, cancelled, faults>>
        /\ Others(r)
    BY <1>6 DEF FetchPending, Proceed, PassFails, Goto, IInv, TypeOK
  <2>2. \A d \in Batch(F) : status[d] = "pending"
    BY DEF Batch, Oldest, Having
  <2>3. j.batch = Batch(F) /\ j.published = {}
    BY DEF NoPass
  <2>4. job'[r].batch = Batch(F) /\ job'[r].published = {}
    BY <2>1, <2>3 DEF IInv, TypeOK
  <2> HIDE DEF F, j
  <2>5. Claims(r, e)' \in {0, IF Unsettled(e) THEN 1 ELSE 0}
    BY <2>1, <2>2, <2>4
       DEF Claims, MayDeliver, MayRepeat, Sends, Marks, Unsettled, table
  <2>6. r \in Enabled
    BY <1>3, <1>6 DEF Step
  <2>7. Claims(r, e) = IF Unsettled(e) THEN 1 ELSE 0
    BY <2>1, <2>6 DEF Claims, MayDeliver, MayRepeat, Sends, Marks
  <2>8. UNCHANGED <<status, copies, faults>>
    BY <2>1 DEF table, queue
  <2>9. copies'[e] + Claims(r, e)' + faults' <= copies[e] + Claims(r, e) + faults
    BY <1>1, <2>5, <2>7, <2>8
  <2> QED BY <1>1, <2>1, <2>6, <2>8, <2>9, StepOfOneIsPaid DEF Unsettled
<1>7. ASSUME NEW r \in Relay, SendAnswered(r) \/ SendFails(r) PROVE Paid(e)'
  <2>1. PICK accepted \in SUBSET job[r].batch, j \in Passes :
          /\ pc[r] = "send" /\ Accept(accepted)
          /\ job' = [job EXCEPT ![r] = j]
          /\ Proceed(r, j, AfterSend(j))
          /\ UNCHANGED <<table, cancelled>>
          /\ \/ j.published = accepted /\ (faults' = faults \/ Fault)
             \/ accepted = {} /\ (faults' = faults \/ Fault)
             \/ CallFails(r)
    <3>1. CASE SendAnswered(r)
      <4>1. PICK accepted \in SUBSET (job[r].batch \ Poison) :
              LET notTaken == job[r].batch \ (accepted \cup Poison)
              IN  /\ Answer(r, accepted, job[r].batch \cap Poison, notTaken)
                  /\ IF notTaken = {} THEN UNCHANGED faults ELSE Fault
        BY <3>1 DEF SendAnswered
      <4> DEFINE j == [job[r] EXCEPT !.published = accepted,
                                     !.refused = @ \cup (job[r].batch \cap Poison),
                                     !.retry = job[r].batch \ (accepted \cup Poison)]
      <4>2. job[r] \in Passes
        BY DEF IInv, TypeOK
      <4>3. accepted \in SUBSET job[r].batch /\ job[r].batch \subseteq Event
        BY <4>2 DEF Passes
      <4>4. j \in Passes /\ j.published = accepted
        BY <4>2, <4>3 DEF Passes
      <4> QED BY <4>1, <4>3, <4>4 DEF Answer
    <3>2. CASE SendFails(r)
      <4> DEFINE j == [job[r] EXCEPT !.retry = job[r].batch, !.sendFailed = TRUE]
      <4>1. PICK accepted \in SUBSET (job[r].batch \ Poison) :
              /\ pc[r] = "send"
              /\ queueUp \/ accepted = {}
              /\ Accept(accepted)
              /\ job' = [job EXCEPT ![r] = j]
              /\ Proceed(r, j, AfterSend(j))
              /\ IF queueUp THEN CallFails(r) ELSE UNCHANGED faults
              /\ UNCHANGED <<table, queueUp, backoff, cancelled, gauges>>
        BY <3>2 DEF SendFails, NoAnswer
      <4> job[r] \in Passes
        BY DEF IInv, TypeOK
      <4>2. j \in Passes /\ j.batch = job[r].batch
        BY DEF Passes
      <4>3. (accepted = {} /\ faults' = faults) \/ CallFails(r)
        BY <4>1
      <4>4. UNCHANGED <<table, cancelled>> /\ accepted \in SUBSET job[r].batch
        BY <4>1
      <4> HIDE DEF j
      <4> QED BY <4>1, <4>2, <4>3, <4>4
    <3> QED BY <1>7, <3>1, <3>2
  <2>2. r \in Enabled
    BY <1>3, <1>7 DEF Step
  <2>3. Others(r) /\ UNCHANGED <<status, cancelled>> /\ job'[r] = j
    BY <2>1 DEF Proceed, PassFails, Goto, IInv, TypeOK, table
  <2>4. pc'[r] # "send" /\ (j.published # {} => pc'[r] = "markPublished")
    BY <2>1 DEF Proceed, AfterSend, AfterPublished, AfterFailed, PassFails, Goto, IInv, TypeOK
  <2>5. copies'[e] = IF e \in accepted THEN copies[e] + 1 ELSE copies[e]
    BY <2>1 DEF Accept
  <2>6. r \notin MayRepeat(e)' /\ Claims(r, e)' \in {0, 1}
    BY <2>4 DEF Claims, MayRepeat, Sends
  <2>7. faults' = faults \/ Fault
    BY <2>1 DEF CallFails
  <2>8. CASE e \notin job[r].batch
    <3>1. Claims(r, e)' <= Claims(r, e)
      BY <2>1, <2>2, <2>3, <2>4, <2>8
         DEF Claims, MayDeliver, MayRepeat, Sends, Marks, Unsettled
    <3>2. Claims(r, e) \in {0, 1, 2}
      BY DEF Claims
    <3>3. copies'[e] = copies[e] /\ faults' <= faults
      BY <1>1, <2>5, <2>7, <2>8 DEF Fault
    <3>4. copies'[e] + Claims(r, e)' + faults' <= copies[e] + Claims(r, e) + faults
      BY <1>1, <2>6, <3>1, <3>2, <3>3
    <3> QED BY <1>1, <2>2, <2>3, <3>4, StepOfOneIsPaid DEF Unsettled
  <2>9. CASE e \in job[r].batch
    <3>1. Claims(r, e) = IF cancelled[r] THEN 2 ELSE 1
      BY <2>1, <2>2, <2>9 DEF Claims, MayDeliver, MayRepeat, Sends
    <3>2. e \in accepted /\ ~cancelled[r] => Claims(r, e)' = 0 \/ Fault
      <4>1. CASE j.published = accepted
        BY <2>2, <2>3, <2>4, <4>1 DEF Claims, MayDeliver, MayRepeat, Sends, Marks
      <4>2. CASE CallFails(r)
        BY <4>2 DEF CallFails
      <4> QED BY <2>1, <4>1, <4>2
    <3>3. copies'[e] + Claims(r, e)' + faults' <= copies[e] + Claims(r, e) + faults
      BY <1>1, <2>5, <2>6, <2>7, <3>1, <3>2 DEF Fault
    <3> QED BY <1>1, <2>2, <2>3, <3>3, StepOfOneIsPaid DEF Unsettled
  <2> QED BY <2>8, <2>9
<1>8. ASSUME NEW r \in Relay, MarkPublished(r) PROVE Paid(e)'
  <2>1. /\ pc[r] = "markPublished" /\ pc'[r] \notin {"send", "markPublished"} /\ Others(r)
        /\ UNCHANGED <<copies, cancelled>>
    BY <1>8 DEF MarkPublished, Write, Proceed, AfterPublished, AfterFailed, PassFails,
       Goto, IInv, TypeOK, queue
  <2>2. \/ SetStatus(job[r].published, "published") /\ faults' = faults
        \/ /\ SetStatus(job[r].published, "published") \/ UNCHANGED table
           /\ CallFails(r)
    BY <1>8 DEF MarkPublished, Write
  <2>3. r \in Enabled
    BY <1>3, <1>8 DEF Step
  <2>4. Unsettled(e)' => Unsettled(e)
    BY <2>2 DEF SetStatus, Unsettled, table
  <2>5. /\ Claims(r, e) = IF Unsettled(e) /\ ~Marks(r, e) THEN 1 ELSE 0
        /\ Claims(r, e)' = IF Unsettled(e)' THEN 1 ELSE 0
    BY <2>1, <2>3 DEF Claims, MayDeliver, MayRepeat, Sends, Marks
  <2>6. Unsettled(e)' /\ Marks(r, e) => Fault
    BY <2>2 DEF SetStatus, Unsettled, Marks, CallFails
  <2>7. faults' = faults \/ Fault
    BY <2>2 DEF CallFails
  <2>8. copies'[e] + Claims(r, e)' + faults' <= copies[e] + Claims(r, e) + faults
    BY <1>1, <2>1, <2>4, <2>5, <2>6, <2>7 DEF Fault
  <2> QED BY <1>1, <2>1, <2>3, <2>4, <2>8, StepOfOneIsPaid
<1>9. ASSUME NEW r \in Relay, Cancel(r) \/ Crash(r) PROVE Paid(e)'
  <2>1. /\ Others(r) /\ UNCHANGED <<status, copies, job>> /\ Fault /\ pc[r] # "stopped"
    BY <1>9 DEF Cancel, Crash, Goto, IInv, TypeOK, table, queue
  <2>2. r \in Enabled
    BY <2>1 DEF StoppedIfDisabled
  <2>3. Claims(r, e)' <= Claims(r, e) + 1 /\ {Claims(r, e), Claims(r, e)'} \subseteq {0, 1, 2}
    <3>1. CASE Cancel(r)
      <4>1. UNCHANGED <<pc, job, status>> /\ ~cancelled[r]
        BY <2>1, <3>1 DEF Cancel
      <4> QED BY <4>1 DEF Claims, MayDeliver, MayRepeat, Sends, Marks, Unsettled
    <3>2. CASE Crash(r)
      <4>1. pc'[r] = "stopped"
        BY <3>2 DEF Crash, Goto, IInv, TypeOK
      <4> QED BY <4>1 DEF Claims, MayDeliver, MayRepeat, Sends
    <3> QED BY <1>9, <3>1, <3>2
  <2>4. copies'[e] + Claims(r, e)' + faults' <= copies[e] + Claims(r, e) + faults
    BY <1>1, <2>1, <2>3 DEF Fault
  <2> QED BY <1>1, <2>1, <2>2, <2>4, StepOfOneIsPaid DEF Unsettled
<1>10. ASSUME UNCHANGED <<copies, pc, job, cancelled>>, Unsettled(e)' <=> Unsettled(e),
              faults' = faults \/ Fault
       PROVE  Paid(e)'
  <2>1. MayDeliver(e)' = MayDeliver(e) /\ MayRepeat(e)' = MayRepeat(e)
    BY <1>10 DEF MayDeliver, MayRepeat, Sends, Marks
  <2>2. /\ IsFiniteSet(MayDeliver(e)) /\ IsFiniteSet(MayRepeat(e)) /\ IsFiniteSet(Enabled)
    BY FS_Subset, OutboxAssumption DEF MayDeliver, MayRepeat
  <2>3. /\ Cardinality(MayDeliver(e)) \in Nat /\ Cardinality(MayRepeat(e)) \in Nat
        /\ Cardinality(Enabled) \in Nat
    BY <2>2, FS_CardinalityType
  <2> QED BY <1>1, <1>10, <2>1, <2>3, OutboxAssumption DEF Paid, Fault
<1>11. ASSUME NEW d \in Event, Record(d) PROVE Paid(e)'
  BY <1>10, <1>11 DEF Record, Unsettled, IInv, TypeOK, queue
<1>12. CASE UNCHANGED vars \/ QueueGoesDown \/ QueueComesUp
  BY <1>10, <1>12 DEF vars, QueueGoesDown, QueueComesUp, Unsettled, table, queue
<1> QED BY <1>4, <1>5, <1>6, <1>7, <1>8, <1>9, <1>11, <1>12 DEF Next, Step

(* Only a relay with a queue leaves the stopped state. *)
LEMMA DisabledStayStopped == TypeOK /\ StoppedIfDisabled /\ [Next]_vars => StoppedIfDisabled'
<1> SUFFICES ASSUME TypeOK, StoppedIfDisabled, [Next]_vars, NEW s \in Relay, s \notin Enabled
             PROVE  pc'[s] = "stopped"
  BY DEF StoppedIfDisabled
<1>1. pc[s] = "stopped"
  BY DEF StoppedIfDisabled
<1>2. ASSUME NEW r \in Relay, Step(r) \/ Cancel(r) \/ Crash(r) PROVE pc'[s] = pc[s]
  <2>1. r # s
    BY <1>1, <1>2 DEF Step, Start, Return, BackoffElapses, PollElapses, FetchFails,
       FetchPending, SendAnswered, Answer, SendFails, NoAnswer, MarkPublished, MarkFailed,
       IncrementAttempts, Observe, PassEnds, Cancel, Crash
  <2>2. pc' = pc \/ \E l : pc' = [pc EXCEPT ![r] = l]
    BY <1>2 DEF Step, Start, Return, BackoffElapses, PollElapses, FetchFails,
       FetchPending, SendAnswered, Answer, SendFails, NoAnswer, MarkPublished, MarkFailed,
       IncrementAttempts, Write, Observe, PassEnds, Cancel, Crash, Proceed, PassFails, Goto
  <2> QED BY <2>1, <2>2 DEF TypeOK
<1>3. ASSUME UNCHANGED vars \/ QueueGoesDown \/ QueueComesUp \/ \E e \in Event : Record(e)
      PROVE  pc' = pc
  BY <1>3 DEF vars, QueueGoesDown, QueueComesUp, Record
<1> QED BY <1>1, <1>2, <1>3 DEF Next

(* An event is published again only when something failed, with any number *)
(* of relays: each delivers it once, plus once per failure (drain, mark).  *)
THEOREM DuplicatesAreBounded == Spec => []DuplicatesArePaidFor
<1> DEFINE AllPaid == StoppedIfDisabled /\ \A e \in Event : Paid(e)
<1>1. IInv /\ IInv' /\ AllPaid /\ [Next]_vars => AllPaid'
  BY StepKeepsPaid, DisabledStayStopped DEF IInv
<1>2. IInv /\ AllPaid => DuplicatesArePaidFor
  <2> SUFFICES ASSUME IInv, AllPaid, NEW e \in Event
               PROVE  copies[e] <= Cardinality(Enabled) + (MaxFaults - faults)
    BY DEF DuplicatesArePaidFor
  <2>1. IsFiniteSet(MayDeliver(e)) /\ IsFiniteSet(MayRepeat(e)) /\ IsFiniteSet(Enabled)
    BY FS_Subset, OutboxAssumption DEF MayDeliver, MayRepeat
  <2>2. /\ Cardinality(MayDeliver(e)) \in Nat /\ Cardinality(MayRepeat(e)) \in Nat
        /\ Cardinality(Enabled) \in Nat
    BY <2>1, FS_CardinalityType
  <2> QED BY <2>2, OutboxAssumption DEF Paid, IInv, TypeOK
<1>3. Init => AllPaid
  BY InitIsPaid
<1> QED BY <1>1, <1>2, <1>3, IInvHolds, PTL DEF Spec

-----------------------------------------------------------------------------
(* Attempts.  While no other relay writes, what is to be tried again is    *)
(* pending from the fetch to the write that counts it.                     *)

Writes == {"markPublished", "markFailed", "incrementAttempts"}

RetryIsPending(r) ==
    /\ pc[r] = "send" => /\ job[r].batch \subseteq Having("pending")
                         /\ job[r].batch \cap job[r].refused = {}
                         /\ job[r].published = {}
    /\ pc[r] \in Writes => /\ job[r].retry \subseteq Having("pending")
                           /\ job[r].retry \cap (job[r].published \cup job[r].refused) = {}

(* Only one relay has a queue. *)
OneRelay == \A r, s \in Enabled : r = s

(* Each step keeps it: those of the one relay, and the others do not touch *)
(* a pending event.                                                        *)
LEMMA StepKeepsRetryPending ==
    ASSUME IInv, StoppedIfDisabled, OneRelay, [Next]_vars,
           NEW s \in Relay, RetryIsPending(s)
    PROVE  RetryIsPending(s)'
<1>1. CASE s \notin Enabled
  <2>1. pc'[s] = "stopped"
    BY <1>1, DisabledStayStopped DEF StoppedIfDisabled, IInv
  <2> QED BY <2>1 DEF RetryIsPending, Writes
<1>2. ASSUME s \in Enabled, NEW r \in Relay, Step(r) \/ Cancel(r) \/ Crash(r) PROVE r = s
  <2>1. r \in Enabled
    BY <1>2 DEF Step, Start, Return, BackoffElapses, PollElapses, FetchFails, FetchPending,
       SendAnswered, Answer, SendFails, NoAnswer, MarkPublished, MarkFailed,
       IncrementAttempts, Observe, PassEnds, Cancel, Crash, StoppedIfDisabled
  <2> QED BY <1>2, <2>1 DEF OneRelay
<1>3. CASE \/ Start(s) \/ Return(s) \/ BackoffElapses(s) \/ PollElapses(s)
           \/ FetchFails(s) \/ Observe(s) \/ Crash(s)
  <2>1. pc'[s] \notin Writes \cup {"send"}
    BY <1>3 DEF Start, Return, BackoffElapses, PollElapses, FetchFails, Observe, PassEnds,
       Crash, PassFails, Goto, IInv, TypeOK, Writes
  <2> QED BY <2>1 DEF RetryIsPending
<1>4. CASE FetchPending(s)
  <2> DEFINE F == Oldest(Having("pending"))
             j == [NoPass EXCEPT !.batch = Batch(F),
                                 !.refused = Oversized(F),
                                 !.more = Cardinality(F) = BatchSize \/ Left(F) # {}]
  <2>1. job' = [job EXCEPT ![s] = j] /\ UNCHANGED table
    BY <1>4 DEF FetchPending
  <2>2. Batch(F) \subseteq Having("pending") /\ Batch(F) \cap Oversized(F) = {}
    <3>1. \A e \in Batch(F) : e \in F /\ Size[e] \in Nat /\ Size[e] <= MaxMessage
      BY OutboxAssumption DEF Batch, Fits, Oldest, Having
    <3>2. \A e \in Oversized(F) : Size[e] > MaxMessage
      BY DEF Oversized
    <3>3. F \subseteq Having("pending") /\ MaxMessage \in Nat
      BY OutboxAssumption DEF Oldest
    <3> HIDE DEF F, j
    <3>4. ASSUME NEW e \in Batch(F), e \in Oversized(F) PROVE FALSE
      <4>1. Size[e] \in Nat /\ Size[e] <= MaxMessage /\ Size[e] > MaxMessage
        BY <3>1, <3>2, <3>4
      <4> QED BY <4>1, <3>3
    <3> QED BY <3>1, <3>3, <3>4
  <2>3. j.batch = Batch(F) /\ j.refused = Oversized(F) /\ j.published = {} /\ j.retry = {}
    BY DEF NoPass
  <2> HIDE DEF F, j
  <2>4. job'[s] = j
    BY <2>1 DEF IInv, TypeOK
  <2> QED BY <2>1, <2>2, <2>3, <2>4 DEF RetryIsPending, Having, table
<1>5. CASE SendAnswered(s)
  <2>1. PICK accepted \in SUBSET (job[s].batch \ Poison) :
          Answer(s, accepted, job[s].batch \cap Poison, job[s].batch \ (accepted \cup Poison))
    BY <1>5 DEF SendAnswered
  <2> DEFINE j == [job[s] EXCEPT !.published = accepted,
                                 !.refused = @ \cup (job[s].batch \cap Poison),
                                 !.retry = job[s].batch \ (accepted \cup Poison)]
  <2>2. /\ j.published = accepted
        /\ j.refused = job[s].refused \cup (job[s].batch \cap Poison)
        /\ j.retry = job[s].batch \ (accepted \cup Poison)
    <3> job[s] \in Passes
      BY DEF IInv, TypeOK
    <3> QED BY DEF Passes
  <2>3. /\ pc[s] = "send" /\ job' = [job EXCEPT ![s] = j]
        /\ Proceed(s, j, AfterSend(j)) /\ UNCHANGED table
    BY <2>1 DEF Answer
  <2> HIDE DEF j
  <2>4. job'[s] = j /\ pc'[s] # "send"
    BY <2>3 DEF Proceed, AfterSend, AfterPublished, AfterFailed, PassFails, Goto, IInv, TypeOK
  <2> QED BY <2>2, <2>3, <2>4 DEF RetryIsPending, Having, table
<1>6. CASE SendFails(s)
  <2> DEFINE j == [job[s] EXCEPT !.retry = job[s].batch, !.sendFailed = TRUE]
  <2>1. /\ pc[s] = "send" /\ job' = [job EXCEPT ![s] = j]
        /\ Proceed(s, j, AfterSend(j)) /\ UNCHANGED table
    BY <1>6 DEF SendFails, NoAnswer
  <2>2. /\ j.published = job[s].published /\ j.refused = job[s].refused
        /\ j.retry = job[s].batch
    <3> job[s] \in Passes
      BY DEF IInv, TypeOK
    <3> QED BY DEF Passes
  <2> HIDE DEF j
  <2>3. job'[s] = j /\ pc'[s] # "send"
    BY <2>1 DEF Proceed, AfterSend, AfterPublished, AfterFailed, PassFails, Goto, IInv, TypeOK
  <2> QED BY <2>1, <2>2, <2>3 DEF RetryIsPending, Having, table
<1>7. CASE MarkPublished(s) \/ MarkFailed(s) \/ IncrementAttempts(s)
  <2>1. /\ pc[s] \in Writes /\ pc'[s] # "send" /\ UNCHANGED job
        /\ \A e \in Event : status'[e] # status[e] => e \in job[s].published \cup job[s].refused
    BY <1>7 DEF MarkPublished, MarkFailed, IncrementAttempts, Write, SetStatus, CountAttempt,
       Proceed, AfterPublished, AfterFailed, PassFails, Goto, IInv, TypeOK, Writes, table
  <2> QED BY <2>1 DEF RetryIsPending, Having
<1>8. ASSUME UNCHANGED <<pc, job>>, \A e \in Having("pending") : status'[e] = status[e]
      PROVE  RetryIsPending(s)'
  BY <1>8 DEF RetryIsPending, Having
<1>9. CASE \/ Cancel(s) \/ QueueGoesDown \/ QueueComesUp \/ UNCHANGED vars
           \/ \E e \in Event : Record(e)
  BY <1>8, <1>9 DEF Cancel, QueueGoesDown, QueueComesUp, vars, table, Record, Having, IInv,
     TypeOK
<1> QED BY <1>1, <1>2, <1>3, <1>4, <1>5, <1>6, <1>7, <1>9 DEF Next, Step

(* With one relay, whatever fails and however often it starts again, only  *)
(* events that still wait are charged an attempt (IncrementAttempts).      *)
THEOREM AttemptsAreOfWaiting == ASSUME OneRelay PROVE Spec => AttemptsCountWaiting
<1> DEFINE AllPending == StoppedIfDisabled /\ \A r \in Relay : RetryIsPending(r)
<1>1. Init => AllPending
  BY DEF Init, StoppedIfDisabled, RetryIsPending, Writes
<1>2. IInv /\ AllPending /\ [Next]_vars => AllPending'
  BY OneRelay, StepKeepsRetryPending, DisabledStayStopped DEF IInv
<1>3. IInv /\ AllPending /\ [Next]_vars
        => [\A e \in Event : attempts'[e] # attempts[e] => status[e] = "pending"]_vars
  <2> SUFFICES ASSUME IInv, AllPending, [Next]_vars, NEW e \in Event, attempts'[e] # attempts[e]
               PROVE  status[e] = "pending"
    OBVIOUS
  <2>1. PICK r \in Relay : IncrementAttempts(r)
    <3>1. ASSUME NEW r \in Relay, Step(r) \/ Cancel(r) \/ Crash(r)
          PROVE  IncrementAttempts(r)
      BY <3>1 DEF Step, Start, Return, BackoffElapses, PollElapses, FetchFails, FetchPending,
         SendAnswered, Answer, SendFails, NoAnswer, MarkPublished, MarkFailed, Write, SetStatus,
         Observe, PassEnds, Cancel, Crash, table
    <3>2. ~(UNCHANGED vars \/ (\E f \in Event : Record(f)) \/ QueueGoesDown \/ QueueComesUp)
      BY DEF Record, QueueGoesDown, QueueComesUp, vars, table
    <3> QED BY <3>1, <3>2 DEF Next
  <2>2. pc[r] = "incrementAttempts" /\ e \in job[r].retry
    BY <2>1 DEF IncrementAttempts, Write, CountAttempt, table
  <2> QED BY <2>2 DEF RetryIsPending, Writes, Having
<1> QED BY <1>1, <1>2, <1>3, IInvHolds, PTL DEF Spec, AttemptsCountWaiting

-----------------------------------------------------------------------------
(* Limits.  The batch is filled one event at a time (split), and the sums  *)
(* kept along the way are those of the whole batch.                        *)

(* A set that holds zero, and with a number the next one, holds all of     *)
(* them: induction, from the order of the numbers being well-founded.      *)
LEMMA Ascend ==
    ASSUME NEW S, 0 \in S, \A n \in Nat : n \in S => n + 1 \in S
    PROVE  Nat \subseteq S
<1> SUFFICES ASSUME Nat \ S # {} PROVE FALSE
  OBVIOUS
<1>1. PICK m \in Nat \ S : \A n \in Nat \ S : ~(<<n, m>> \in OpToRel(<, Nat))
  <2>1. IsWellFoundedOn(OpToRel(<, Nat), Nat) /\ Nat \ S \subseteq Nat
    BY NatLessThanWellFounded
  <2> QED BY <2>1, WFMin
<1>2. \A n \in Nat \ S : ~(n < m)
  BY <1>1 DEF OpToRel
<1>3. m # 0 /\ m - 1 \in Nat
  OBVIOUS
<1> QED BY <1>2, <1>3

First(s) == CHOOSE x \in s : TRUE

(* How MapThenSumSet adds up g over the subsets of S. *)
SumsUp(f, g, S) ==
    f = [s \in SUBSET S |-> IF s = {} THEN 0 ELSE g[First(s)] + f[s \ {First(s)}]]

(* A set without one of its elements has one element less. *)
LEMMA OneLess ==
    ASSUME NEW s, IsFiniteSet(s), NEW x \in s
    PROVE  /\ IsFiniteSet(s \ {x})
           /\ Cardinality(s) \in Nat \ {0}
           /\ Cardinality(s \ {x}) = Cardinality(s) - 1
<1>1. IsFiniteSet(s \ {x}) /\ Cardinality(s \ {x}) = Cardinality(s) - 1
  BY FS_RemoveElement
<1> QED BY <1>1, FS_CardinalityType, FS_EmptySet

(* The recursion by which MapThenSumSet adds up the values of g has a      *)
(* solution on a finite set.                                               *)
LEMMA SumsExist ==
    ASSUME NEW S, IsFiniteSet(S), NEW g
    PROVE  \E f : SumsUp(f, g, S)
<1> DEFINE Upto(n) == {s \in SUBSET S : Cardinality(s) <= n}
           Sums(f, n) == f = [s \in Upto(n) |->
                                IF s = {} THEN 0 ELSE g[First(s)] + f[s \ {First(s)}]]
           Good == {n \in Nat : \E f : Sums(f, n)}
<1>0. \A s \in SUBSET S : s # {} =>
        /\ First(s) \in s
        /\ Cardinality(s) \in Nat \ {0}
        /\ Cardinality(s \ {First(s)}) = Cardinality(s) - 1
        /\ s \ {First(s)} \in SUBSET S
  <2> SUFFICES ASSUME NEW s \in SUBSET S, s # {}
               PROVE  /\ First(s) \in s
                      /\ Cardinality(s) \in Nat \ {0}
                      /\ Cardinality(s \ {First(s)}) = Cardinality(s) - 1
                      /\ s \ {First(s)} \in SUBSET S
    OBVIOUS
  <2>1. First(s) \in s
    BY DEF First
  <2> QED BY <2>1, OneLess, FS_Subset
<1>1. 0 \in Good
  <2>1. Upto(0) = {{}}
    <3>1. ASSUME NEW s \in Upto(0), s # {} PROVE FALSE
      <4>1. Cardinality(s) \in Nat \ {0} /\ Cardinality(s) <= 0
        BY <1>0, <3>1
      <4> QED BY <4>1
    <3>2. {} \in Upto(0)
      BY FS_EmptySet
    <3> QED BY <3>1, <3>2
  <2>2. Sums([s \in {{}} |-> 0], 0)
    BY <2>1
  <2> QED BY <2>2
<1>2. ASSUME NEW n \in Nat, n \in Good PROVE n + 1 \in Good
  <2>1. PICK f : Sums(f, n)
    BY <1>2
  <2> DEFINE h == [s \in Upto(n + 1) |->
                     IF s \in Upto(n) THEN f[s] ELSE g[First(s)] + f[s \ {First(s)}]]
  <2>2. \A s \in Upto(n + 1) : s # {} =>
          s \ {First(s)} \in Upto(n) /\ s \ {First(s)} \in Upto(n + 1)
    BY <1>0
  <2>3. {} \in Upto(n)
    BY FS_EmptySet
  <2>4. \A s \in Upto(n) : f[s] = IF s = {} THEN 0 ELSE g[First(s)] + f[s \ {First(s)}]
    BY <2>1
  <2>5. \A s \in Upto(n + 1) :
          h[s] = IF s = {} THEN 0 ELSE g[First(s)] + h[s \ {First(s)}]
    <3> SUFFICES ASSUME NEW s \in Upto(n + 1)
                 PROVE  h[s] = IF s = {} THEN 0 ELSE g[First(s)] + h[s \ {First(s)}]
      OBVIOUS
    <3> HIDE DEF Upto
    <3>1. h[s] = IF s \in Upto(n) THEN f[s] ELSE g[First(s)] + f[s \ {First(s)}]
      OBVIOUS
    <3>2. s # {} => h[s \ {First(s)}] = f[s \ {First(s)}]
      BY <2>2
    <3> HIDE DEF h
    <3> QED BY <3>1, <3>2, <2>3, <2>4
  <2> HIDE DEF Upto
  <2>6. h = [s \in Upto(n + 1) |-> h[s]]
    OBVIOUS
  <2>7. Sums(h, n + 1)
    <3> HIDE DEF h
    <3> QED BY <2>5, <2>6
  <2> HIDE DEF h, Sums
  <2> QED BY <2>7
<1>3. Cardinality(S) \in Good
  <2> HIDE DEF Good
  <2> QED BY <1>1, <1>2, Ascend, FS_CardinalityType
<1>4. Upto(Cardinality(S)) = SUBSET S
  BY FS_Subset
<1> QED BY <1>3, <1>4 DEF SumsUp

(* All solutions agree. *)
LEMMA SumsAreUnique ==
    ASSUME NEW S, IsFiniteSet(S), NEW g, NEW f, SumsUp(f, g, S),
           NEW T \in SUBSET S, NEW h, SumsUp(h, g, T)
    PROVE  h[T] = f[T]
<1> DEFINE Good == {n \in Nat : \A s \in SUBSET T : Cardinality(s) = n => h[s] = f[s]}
<1>1. /\ \A s \in SUBSET S : f[s] = IF s = {} THEN 0 ELSE g[First(s)] + f[s \ {First(s)}]
      /\ \A s \in SUBSET T : h[s] = IF s = {} THEN 0 ELSE g[First(s)] + h[s \ {First(s)}]
  BY DEF SumsUp
<1>2. \A s \in SUBSET T : IsFiniteSet(s) /\ s \in SUBSET S
  BY FS_Subset
<1>3. 0 \in Good
  BY <1>1, <1>2, FS_EmptySet
<1>4. ASSUME NEW n \in Nat, n \in Good PROVE n + 1 \in Good
  <2> SUFFICES ASSUME NEW s \in SUBSET T, Cardinality(s) = n + 1 PROVE h[s] = f[s]
    OBVIOUS
  <2>1. s # {}
    BY FS_EmptySet
  <2>2. First(s) \in s
    BY <2>1 DEF First
  <2>3. s \ {First(s)} \in SUBSET T /\ Cardinality(s \ {First(s)}) = n
    <3>1. IsFiniteSet(s)
      BY <1>2
    <3>2. Cardinality(s \ {First(s)}) = Cardinality(s) - 1
      BY <2>2, <3>1, OneLess
    <3> QED BY <3>2
  <2>4. h[s \ {First(s)}] = f[s \ {First(s)}]
    BY <1>4, <2>3
  <2> QED BY <1>1, <1>2, <2>1, <2>4
<1>5. Cardinality(T) \in Good
  <2> HIDE DEF Good
  <2> QED BY <1>2, <1>3, <1>4, Ascend, FS_CardinalityType
<1> QED BY <1>5

(* Sums of numbers are numbers. *)
LEMMA SumsAreCounts ==
    ASSUME NEW S, IsFiniteSet(S), NEW g \in [S -> Nat], NEW f, SumsUp(f, g, S)
    PROVE  f \in [SUBSET S -> Nat]
<1> DEFINE Good == {n \in Nat : \A s \in SUBSET S : Cardinality(s) = n => f[s] \in Nat}
<1>1. \A s \in SUBSET S : f[s] = IF s = {} THEN 0 ELSE g[First(s)] + f[s \ {First(s)}]
  BY DEF SumsUp
<1>2. \A s \in SUBSET S : IsFiniteSet(s) /\ Cardinality(s) \in Nat
  BY FS_Subset, FS_CardinalityType
<1>3. 0 \in Good
  BY <1>1, <1>2, FS_EmptySet
<1>4. ASSUME NEW n \in Nat, n \in Good PROVE n + 1 \in Good
  <2> SUFFICES ASSUME NEW s \in SUBSET S, Cardinality(s) = n + 1 PROVE f[s] \in Nat
    OBVIOUS
  <2>1. First(s) \in s
    BY FS_EmptySet DEF First
  <2>2. Cardinality(s \ {First(s)}) = n
    <3>1. Cardinality(s \ {First(s)}) = Cardinality(s) - 1
      BY <1>2, <2>1, OneLess
    <3> QED BY <3>1
  <2>3. f[s \ {First(s)}] \in Nat /\ g[First(s)] \in Nat
    BY <1>4, <2>1, <2>2
  <2> QED BY <1>1, <2>1, <2>3
<1>5. \A s \in SUBSET S : Cardinality(s) \in Good
  <2> HIDE DEF Good
  <2> QED BY <1>2, <1>3, <1>4, Ascend
<1> QED BY <1>5 DEF SumsUp

(* It does not matter which element is added first. *)
LEMMA SumOfOneMore ==
    ASSUME NEW S, IsFiniteSet(S), NEW g \in [S -> Nat], NEW f, SumsUp(f, g, S)
    PROVE  \A s \in SUBSET S : \A x \in s : f[s] = g[x] + f[s \ {x}]
<1> DEFINE Good == {n \in Nat : \A s \in SUBSET S : Cardinality(s) = n =>
                        \A x \in s : f[s] = g[x] + f[s \ {x}]}
<1>1. \A s \in SUBSET S : f[s] = IF s = {} THEN 0 ELSE g[First(s)] + f[s \ {First(s)}]
  BY DEF SumsUp
<1>2. \A s \in SUBSET S : IsFiniteSet(s) /\ Cardinality(s) \in Nat /\ f[s] \in Nat
  <2>1. f \in [SUBSET S -> Nat]
    BY SumsAreCounts
  <2> QED BY <2>1, FS_Subset, FS_CardinalityType
<1>3. 0 \in Good
  BY <1>2, FS_EmptySet
<1>4. ASSUME NEW n \in Nat, n \in Good PROVE n + 1 \in Good
  <2> SUFFICES ASSUME NEW s \in SUBSET S, Cardinality(s) = n + 1, NEW x \in s
               PROVE  f[s] = g[x] + f[s \ {x}]
    OBVIOUS
  <2>1. First(s) \in s
    BY DEF First
  <2>2. \A y \in s : s \ {y} \in SUBSET S /\ Cardinality(s \ {y}) = n
    <3>1. \A y \in s : Cardinality(s \ {y}) = Cardinality(s) - 1
      BY <1>2, OneLess
    <3> QED BY <3>1
  <2>3. CASE x = First(s)
    BY <1>1, <2>3
  <2>4. CASE x # First(s)
    <3> DEFINE c == First(s)
               rest == s \ {c, x}
    <3>1. (s \ {c}) \ {x} = rest /\ (s \ {x}) \ {c} = rest
      OBVIOUS
    <3>2. c \in s \ {x} /\ x \in s \ {c}
      BY <2>1, <2>4
    <3>3. f[s] = g[c] + f[s \ {c}]
      BY <1>1
    <3>4. f[s \ {c}] = g[x] + f[rest] /\ f[s \ {x}] = g[c] + f[rest]
      <4> HIDE DEF c, rest
      <4> QED BY <1>4, <2>1, <2>2, <3>1, <3>2 DEF c
    <3>5. f[rest] \in Nat /\ g[c] \in Nat /\ g[x] \in Nat
      BY <1>2, <2>1
    <3> HIDE DEF c, rest
    <3> QED BY <3>3, <3>4, <3>5
  <2> QED BY <2>3, <2>4
<1>5. \A s \in SUBSET S : Cardinality(s) \in Good
  <2> HIDE DEF Good
  <2> QED BY <1>2, <1>3, <1>4, Ascend
<1> QED BY <1>5

Bytes(S) == MapThenSumSet(LAMBDA e : Size[e], S)

(* The bytes of a set of events add up, in any order. *)
LEMMA BytesAddUp ==
    /\ Bytes({}) = 0
    /\ \A S \in SUBSET Event, e \in Event :
         /\ Bytes(S) \in Nat
         /\ e \notin S => Bytes(S \cup {e}) = Size[e] + Bytes(S)
<1>1. IsFiniteSet(Event) /\ Size \in [Event -> Nat]
  BY FS_Interval, OutboxAssumption DEF Event
<1>2. PICK f : SumsUp(f, Size, Event)
  BY <1>1, SumsExist
<1>3. ASSUME NEW S \in SUBSET Event PROVE Bytes(S) = f[S]
  <2>1. IsFiniteSet(S)
    BY <1>1, FS_Subset
  <2> DEFINE h == CHOOSE h : SumsUp(h, Size, S)
  <2>2. SumsUp(h, Size, S)
    BY <2>1, SumsExist
  <2>3. Bytes(S) = h[S]
    BY DEF Bytes, MapThenSumSet, MapThenFoldSet, SumsUp, First
  <2> HIDE DEF h
  <2> QED BY <1>1, <1>2, <2>2, <2>3, SumsAreUnique
<1>4. f \in [SUBSET Event -> Nat] /\ \A S \in SUBSET Event : \A e \in S : f[S] = Size[e] + f[S \ {e}]
  BY <1>1, <1>2, SumsAreCounts, SumOfOneMore
<1>5. f[{}] = 0
  BY <1>2 DEF SumsUp
<1>6. ASSUME NEW S \in SUBSET Event, NEW e \in Event \ S
      PROVE  Bytes(S \cup {e}) = Size[e] + Bytes(S)
  <2>1. S \cup {e} \in SUBSET Event /\ (S \cup {e}) \ {e} = S
    OBVIOUS
  <2> QED BY <1>3, <1>4, <2>1
<1> QED BY <1>3, <1>4, <1>5, <1>6

(* The sums that split keeps satisfy their recursion. *)
LEMMA LoadIsKept ==
    ASSUME NEW F
    PROVE  \A i \in 0 .. NEvents :
             Load(F)[i] = IF i = 0 THEN [entries |-> 0, bytes |-> 0]
                          ELSE IF i \in F /\ Fits(i, Load(F)[i - 1])
                               THEN [entries |-> Load(F)[i - 1].entries + 1,
                                     bytes |-> Load(F)[i - 1].bytes + Size[i]]
                               ELSE Load(F)[i - 1]
<1> DEFINE None == [entries |-> 0, bytes |-> 0]
           Add(i, l) == IF i \in F /\ Fits(i, l)
                        THEN [entries |-> l.entries + 1, bytes |-> l.bytes + Size[i]]
                        ELSE l
           Kept(l, n) == l = [i \in 0 .. n |-> IF i = 0 THEN None ELSE Add(i, l[i - 1])]
           Good == {n \in Nat : \E l : Kept(l, n)}
<1>1. 0 \in Good
  <2> HIDE DEF None, Add
  <2>1. Kept([i \in 0 .. 0 |-> None], 0)
    OBVIOUS
  <2> QED BY <2>1
<1>2. ASSUME NEW n \in Nat, n \in Good PROVE n + 1 \in Good
  <2> HIDE DEF None, Add
  <2>1. PICK l : Kept(l, n)
    BY <1>2
  <2> DEFINE m == [i \in 0 .. n + 1 |-> IF i <= n THEN l[i] ELSE Add(n + 1, l[n])]
  <2>2. \A i \in 0 .. n : l[i] = IF i = 0 THEN None ELSE Add(i, l[i - 1])
    BY <2>1
  <2>3. \A i \in 0 .. n + 1 : m[i] = IF i = 0 THEN None ELSE Add(i, m[i - 1])
    <3>1. ASSUME NEW i \in 0 .. n PROVE m[i] = IF i = 0 THEN None ELSE Add(i, m[i - 1])
      <4>1. m[i] = l[i] /\ (i # 0 => m[i - 1] = l[i - 1])
        OBVIOUS
      <4> HIDE DEF m
      <4> QED BY <2>2, <4>1
    <3>2. m[n + 1] = Add(n + 1, m[n])
      <4>1. m[n + 1] = Add(n + 1, l[n]) /\ m[n] = l[n]
        OBVIOUS
      <4> HIDE DEF m
      <4> QED BY <4>1
    <3> HIDE DEF m
    <3> QED BY <3>1, <3>2
  <2>4. m = [i \in 0 .. n + 1 |-> m[i]]
    OBVIOUS
  <2> HIDE DEF m
  <2>5. Kept(m, n + 1)
    BY <2>3, <2>4
  <2> HIDE DEF Kept
  <2> QED BY <2>5
<1>3. \E l : Kept(l, NEvents)
  <2>1. NEvents \in Good
    <3> HIDE DEF Good
    <3> QED BY <1>1, <1>2, Ascend, OutboxAssumption
  <2> HIDE DEF Kept
  <2> QED BY <2>1
<1>4. Load(F) = CHOOSE l : Kept(l, NEvents)
  BY DEF Load
<1>5. Kept(Load(F), NEvents)
  <2> HIDE DEF Kept
  <2> QED BY <1>3, <1>4
<1> HIDE DEF Add, None
<1>6. \A i \in 0 .. NEvents : Load(F)[i] = IF i = 0 THEN None ELSE Add(i, Load(F)[i - 1])
  BY <1>5
<1> QED BY <1>6 DEF Add, None

(* Every batch that split makes is within the limits of the queue. *)
LEMMA BatchIsWithinLimits ==
    ASSUME NEW F \in SUBSET Event
    PROVE  /\ Cardinality(Batch(F)) <= BatchSize
           /\ \A e \in Batch(F) : Size[e] <= MaxMessage
           /\ Bytes(Batch(F)) <= MaxBatch
<1> DEFINE Taken(i) == {e \in Batch(F) : e <= i}
           l == Load(F)
           Holds(i) == /\ l[i] = [entries |-> Cardinality(Taken(i)), bytes |-> Bytes(Taken(i))]
                       /\ Cardinality(Taken(i)) \in 0 .. BatchSize
                       /\ Bytes(Taken(i)) \in 0 .. MaxBatch
           Good == {n \in Nat : n <= NEvents => Holds(n)}
<1>1. \A i \in 1 .. NEvents : i \in Batch(F) <=> i \in F /\ Fits(i, l[i - 1])
  BY DEF Batch
<1>2. Batch(F) \subseteq Event /\ \A e \in Batch(F) : e \in Int /\ 1 <= e /\ e <= NEvents
  <2>1. Batch(F) \subseteq F /\ F \subseteq Event
    BY DEF Batch
  <2>2. \A e \in Event : e \in Int /\ 1 <= e /\ e <= NEvents
    BY DEF Event
  <2> QED BY <2>1, <2>2
<1>0. \A i \in Nat : Taken(i) \in SUBSET Event /\ IsFiniteSet(Taken(i))
  <2>1. IsFiniteSet(Event)
    BY FS_Interval, OutboxAssumption DEF Event
  <2>2. \A i \in Nat : Taken(i) \in SUBSET Event
    BY <1>2
  <2> HIDE DEF Taken
  <2> QED BY <2>1, <2>2, FS_Subset
<1>3. 0 \in Good
  <2>1. Taken(0) = {}
    BY <1>2
  <2>2. l[0] = [entries |-> 0, bytes |-> 0]
    <3>1. 0 \in 0 .. NEvents
      BY OutboxAssumption
    <3> QED BY <3>1, LoadIsKept
  <2>3. BatchSize \in Nat /\ MaxBatch \in Nat
    BY OutboxAssumption
  <2>4. Cardinality(Taken(0)) = 0 /\ Bytes(Taken(0)) = 0
    BY <2>1, BytesAddUp, FS_EmptySet
  <2> HIDE DEF Taken, l
  <2>5. Holds(0)
    BY <2>2, <2>3, <2>4
  <2> HIDE DEF Holds
  <2> QED BY <2>5
<1>4. ASSUME NEW n \in Nat, n \in Good PROVE n + 1 \in Good
  <2> SUFFICES ASSUME n + 1 <= NEvents PROVE Holds(n + 1)
    OBVIOUS
  <2>1. Holds(n)
    <3>1. n <= NEvents
      BY OutboxAssumption
    <3> HIDE DEF Holds
    <3> QED BY <1>4, <3>1
  <2>2. l[n + 1] = IF n + 1 \in Batch(F)
                   THEN [entries |-> l[n].entries + 1, bytes |-> l[n].bytes + Size[n + 1]]
                   ELSE l[n]
    <3>1. n + 1 \in 0 .. NEvents /\ n + 1 \in 1 .. NEvents /\ (n + 1) - 1 = n /\ n + 1 # 0
      BY OutboxAssumption
    <3>2. \A i \in 0 .. NEvents :
            l[i] = IF i = 0 THEN [entries |-> 0, bytes |-> 0]
                   ELSE IF i \in F /\ Fits(i, l[i - 1])
                        THEN [entries |-> l[i - 1].entries + 1,
                              bytes |-> l[i - 1].bytes + Size[i]]
                        ELSE l[i - 1]
      BY LoadIsKept
    <3>3. n + 1 \in Batch(F) <=> n + 1 \in F /\ Fits(n + 1, l[n])
      BY <1>1, <3>1
    <3> HIDE DEF l
    <3> QED BY <3>1, <3>2, <3>3
  <2>3. CASE n + 1 \in Batch(F)
    <3>1. Taken(n + 1) = Taken(n) \cup {n + 1} /\ n + 1 \notin Taken(n)
      BY <1>2, <2>3
    <3>2. n + 1 \in Event /\ Size[n + 1] \in Nat
      BY OutboxAssumption DEF Event
    <3>3. Cardinality(Taken(n + 1)) = Cardinality(Taken(n)) + 1
      <4> HIDE DEF Taken
      <4> QED BY <1>0, <3>1, FS_AddElement
    <3>4. Bytes(Taken(n + 1)) = Size[n + 1] + Bytes(Taken(n)) /\ Bytes(Taken(n)) \in Nat
      <4> HIDE DEF Taken
      <4> QED BY <1>0, <3>1, <3>2, BytesAddUp
    <3>5. l[n].entries < BatchSize /\ l[n].bytes + Size[n + 1] <= MaxBatch
      <4>1. n + 1 \in 1 .. NEvents /\ (n + 1) - 1 = n
        BY OutboxAssumption
      <4> QED BY <1>1, <2>3, <4>1 DEF Fits
    <3> HIDE DEF Taken, l
    <3> QED BY <2>1, <2>2, <2>3, <3>2, <3>3, <3>4, <3>5, OutboxAssumption
  <2>4. CASE n + 1 \notin Batch(F)
    <3>1. Taken(n + 1) = Taken(n)
      BY <1>2, <2>4
    <3> HIDE DEF Taken, l
    <3> QED BY <2>1, <2>2, <2>4, <3>1
  <2> QED BY <2>3, <2>4
<1>5. Holds(NEvents)
  <2>1. NEvents \in Good
    <3> HIDE DEF Good
    <3> QED BY <1>3, <1>4, Ascend, OutboxAssumption
  <2>2. NEvents <= NEvents
    BY OutboxAssumption
  <2> HIDE DEF Holds
  <2> QED BY <2>1, <2>2
<1>6. Taken(NEvents) = Batch(F)
  BY <1>2
<1>7. \A e \in Batch(F) : Size[e] <= MaxMessage
  BY DEF Batch, Fits
<1>8. Cardinality(Taken(NEvents)) <= BatchSize /\ Bytes(Taken(NEvents)) <= MaxBatch
  <2> HIDE DEF Taken, l
  <2> QED BY <1>5, OutboxAssumption
<1> QED BY <1>6, <1>7, <1>8

WithinLimits(r) ==
    pc[r] = "send" => /\ Cardinality(job[r].batch) <= BatchSize
                      /\ \A e \in job[r].batch : Size[e] <= MaxMessage
                      /\ Bytes(job[r].batch) <= MaxBatch

(* A relay that is about to send has just made its batch. *)
LEMMA OnlyFetchesSend ==
    ASSUME IInv, [Next]_vars, NEW s \in Relay, ~FetchPending(s), pc'[s] = "send"
    PROVE  pc[s] = "send" /\ job'[s] = job[s]
<1>1. ASSUME NEW r \in Relay, Step(r) \/ Cancel(r) \/ Crash(r), r # s
      PROVE  pc'[s] = pc[s] /\ job'[s] = job[s]
  <2>1. \/ FetchPending(r) \/ SendAnswered(r) \/ SendFails(r)
        \/ pc'[s] = pc[s] /\ job'[s] = job[s]
    BY <1>1 DEF Step, Start, Return, BackoffElapses, PollElapses, FetchFails, MarkPublished,
       MarkFailed, IncrementAttempts, Write, Observe, PassEnds, Cancel, Crash, Proceed,
       PassFails, Goto, IInv, TypeOK
  <2>2. CASE FetchPending(r)
    BY <1>1, <2>2 DEF FetchPending, Proceed, PassFails, Goto, IInv, TypeOK
  <2>3. CASE SendAnswered(r)
    BY <1>1, <2>3 DEF SendAnswered, Answer, Proceed, PassFails, Goto, IInv, TypeOK
  <2>4. CASE SendFails(r)
    BY <1>1, <2>4 DEF SendFails, NoAnswer, Proceed, PassFails, Goto, IInv, TypeOK
  <2> QED BY <2>1, <2>2, <2>3, <2>4
<1>2. ~(\/ Start(s) \/ Return(s) \/ BackoffElapses(s) \/ PollElapses(s) \/ FetchFails(s)
        \/ Observe(s) \/ Crash(s))
  BY DEF Start, Return, BackoffElapses, PollElapses, FetchFails, Observe, PassEnds, Crash,
     PassFails, Goto, IInv, TypeOK
<1>3. ~(MarkPublished(s) \/ MarkFailed(s) \/ IncrementAttempts(s))
  BY DEF MarkPublished, MarkFailed, IncrementAttempts, Write, Proceed, AfterPublished,
     AfterFailed, PassFails, Goto, IInv, TypeOK
<1>4. ~SendAnswered(s) /\ ~SendFails(s)
  <2>1. ASSUME NEW j, Proceed(s, j, AfterSend(j)) PROVE FALSE
    BY <2>1 DEF Proceed, AfterSend, AfterPublished, AfterFailed, PassFails, Goto, IInv, TypeOK
  <2> QED BY <2>1 DEF SendAnswered, Answer, SendFails, NoAnswer
<1>5. CASE Cancel(s) \/ QueueGoesDown \/ QueueComesUp \/ UNCHANGED vars
           \/ \E e \in Event : Record(e)
  BY <1>5 DEF Cancel, QueueGoesDown, QueueComesUp, vars, Record
<1> QED BY <1>1, <1>2, <1>3, <1>4, <1>5 DEF Next, Step

(* For any sizes, limits and failures, no batch goes over the limits of    *)
(* the queue: not in entries, nor in the bytes of one body or of all       *)
(* (split).                                                                *)
THEOREM SendsAreWithinLimits == Spec => []SendIsWithinLimits
<1> DEFINE All == \A r \in Relay : WithinLimits(r)
<1>1. Init => All
  BY DEF Init, WithinLimits
<1>2. ASSUME IInv, [Next]_vars, NEW s \in Relay, WithinLimits(s) PROVE WithinLimits(s)'
  <2>1. CASE FetchPending(s)
    <3> DEFINE F == Oldest(Having("pending"))
    <3>1. F \in SUBSET Event
      BY DEF Oldest, Having
    <3>2. job'[s].batch = Batch(F)
      BY <1>2, <2>1 DEF FetchPending, IInv, TypeOK, NoPass
    <3> HIDE DEF F
    <3> QED BY <3>1, <3>2, BatchIsWithinLimits DEF WithinLimits
  <2>2. CASE ~FetchPending(s)
    <3>1. CASE pc'[s] # "send"
      BY <3>1 DEF WithinLimits
    <3>2. CASE pc'[s] = "send"
      <4>1. pc[s] = "send" /\ job'[s] = job[s]
        BY <1>2, <2>2, <3>2, OnlyFetchesSend
      <4> QED BY <1>2, <4>1 DEF WithinLimits
    <3> QED BY <3>1, <3>2
  <2> QED BY <2>1, <2>2
<1>3. IInv /\ All /\ [Next]_vars => All'
  BY <1>2
<1>4. All => SendIsWithinLimits
  BY DEF WithinLimits, SendIsWithinLimits, Bytes
<1> QED BY <1>1, <1>3, <1>4, IInvHolds, PTL DEF Spec
=============================================================================
