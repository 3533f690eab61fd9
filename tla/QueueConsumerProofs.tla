------------------------ MODULE QueueConsumerProofs -------------------------
(***************************************************************************)
(* What QueueConsumer guarantees for any consumers and messages, whether   *)
(* or not handling fits the visibility timeout.                            *)
(***************************************************************************)
EXTENDS QueueConsumer, FiniteSetTheorems, WellFoundedInduction, TLAPS

Ticks == 0 .. VisibilityTimeout \cup 0 .. RetryMax

(* What a consumer is about to delete was handled, and was not refused.    *)
DoneIsHandled == \A c \in Consumer : \A m \in job[c].done : applied[m] > 0 /\ m \notin Bad

DeletedIsHandled == \A m \in Message : where[m] = "deleted" => applied[m] > 0 /\ m \notin Bad

(* No refused message will be postponed, but for a missing result.         *)
RefusedIsNotPostponed == \A c \in Consumer : job[c].later \cap Bad \subseteq job[c].unanswered

(* The strengthening: properties of the queue follow from what consumers   *)
(* remember between the handler's answer and the confirmations.            *)
IInv == TypeOK /\ DoneIsHandled /\ DeletedIsHandled /\ RefusedIsNotPostponed

(* A wait is a number of ticks within the cap (retryDelay). *)
LEMMA RetryDelayIsBounded ==
    ASSUME NEW count PROVE RetryDelay(count) \in 0 .. RetryMax
BY ConsumerAssumption DEF RetryDelay

LEMMA RetryDelayIsPositive ==
    ASSUME NEW count PROVE RetryDelay(count) > 0
BY ConsumerAssumption DEF RetryDelay

(* No message is handled or hidden at first. *)
LEMMA InitIsSound == Init => IInv
BY ConsumerAssumption
   DEF Init, IInv, TypeOK, DoneIsHandled, DeletedIsHandled, RefusedIsNotPostponed,
       NoBatch, Batches, Labels, Ticks

(* A message given out is hidden for the normal time (ReceiveMessage). *)
LEMMA GiveOutIsNormal ==
    ASSUME TypeOK, NEW S \in SUBSET Message, GiveOut(S)
    PROVE  /\ hidden' \in [Message -> Ticks]
           /\ receives' \in [Message -> 0 .. MaxReceives]
           /\ \A m \in Message : hidden'[m] <= VisibilityTimeout \/ hidden'[m] = hidden[m]
           /\ UNCHANGED where
BY ConsumerAssumption DEF GiveOut, Visible, TypeOK, Ticks

(* What Handle comes to: some messages of the batch, at the end of it in   *)
(* the order it came, got no result (missing), some came without a receipt *)
(* (bare) and some failed in passing (failing).                            *)
Sorted(c, missing, bare, failing) ==
    LET ok == job[c].batch \ (missing \cup Bad \cup failing)
        j == [job[c] EXCEPT !.done = ok \ bare, !.later = (missing \cup failing) \ bare,
                            !.unanswered = missing]
    IN  /\ applied' = [m \in Message |-> IF m \in ok THEN applied[m] + 1 ELSE applied[m]]
        /\ job' = [job EXCEPT ![c] = j]
        /\ pc' = [pc EXCEPT ![c] = AfterHandle(j)]
        /\ IF missing \cup bare = {} THEN UNCHANGED faults ELSE Fault

LEMMA HandleSorts ==
    ASSUME NEW c, Handle(c)
    PROVE  \E missing \in SUBSET job[c].batch, bare \in SUBSET job[c].batch :
             \E failing \in FailingInPassing(c, job[c].batch \ (missing \cup Bad)) :
               Sorted(c, missing, bare, failing)
<1> DEFINE B == job[c].batch
<1>1. PICK size \in 1 .. MaxMessages : \E messages \in Bijection(1 .. size, B) :
        \E treated \in 0 .. size, bare \in SUBSET B :
            /\ Treat(c, messages, treated, bare)
            /\ IF treated = size /\ bare = {} THEN UNCHANGED faults ELSE Fault
  BY DEF Handle
<1>2. PICK messages \in Bijection(1 .. size, B) :
        \E treated \in 0 .. size, bare \in SUBSET B :
            /\ Treat(c, messages, treated, bare)
            /\ IF treated = size /\ bare = {} THEN UNCHANGED faults ELSE Fault
  BY <1>1
<1>3. PICK treated \in 0 .. size, bare \in SUBSET B :
            /\ Treat(c, messages, treated, bare)
            /\ IF treated = size /\ bare = {} THEN UNCHANGED faults ELSE Fault
  BY <1>2
<1> DEFINE answered == {messages[i] : i \in 1 .. treated}
           missing == B \ answered
<1>4. PICK failing \in FailingInPassing(c, answered \ Bad) :
        /\ applied' = [m \in Message |-> IF m \in (answered \ Bad) \ failing
                                        THEN applied[m] + 1 ELSE applied[m]]
        /\ Sort(c, messages, Results(messages, treated, failing), bare)
  BY <1>3 DEF Treat
<1>5. /\ messages \in [1 .. size -> B]
      /\ \A i, k \in 1 .. size : messages[i] = messages[k] => i = k
      /\ \A m \in B : \E i \in 1 .. size : messages[i] = m
      /\ 1 .. treated \subseteq 1 .. size
      /\ size \in Nat /\ treated \in Nat /\ treated <= size
  <2>1. messages \in Injection(1 .. size, B) /\ messages \in Surjection(1 .. size, B)
    BY <1>2 DEF Bijection
  <2>2. messages \in [1 .. size -> B] /\ \A m \in B : \E i \in 1 .. size : messages[i] = m
    BY <2>1 DEF Surjection
  <2>3. \A i, k \in 1 .. size : messages[i] = messages[k] => i = k
    BY <2>1, <2>2 DEF Injection, IsInjective
  <2>4. size \in Nat /\ treated \in Nat /\ treated <= size
    BY <1>1, <1>3, ConsumerAssumption
  <2> QED BY <2>2, <2>3, <2>4
<1> DEFINE results == Results(messages, treated, failing)
           ok == B \ (missing \cup Bad \cup failing)
<1>6. answered \subseteq B
  BY <1>5
<1>7. answered \ Bad = B \ (missing \cup Bad) /\ (answered \ Bad) \ failing = ok
  BY <1>6
<1>8. failing \subseteq answered \ Bad
  BY <1>4 DEF FailingInPassing
<1>9. WithResult(messages, results, {"nil"}) = ok
  BY <1>5, <1>7 DEF WithResult, Results
<1>10. WithResult(messages, results, {"missing"}) = missing
  BY <1>5 DEF WithResult, Results
<1>11. WithResult(messages, results, {"error", "missing"}) = missing \cup failing
  BY <1>5, <1>8 DEF WithResult, Results
<1>12. missing = {} <=> treated = size
  BY <1>5
<1>13. Sorted(c, missing, bare, failing)
  <2>1. IF missing \cup bare = {} THEN UNCHANGED faults ELSE Fault
    BY <1>3, <1>12
  <2>2. Confirm(c, ok, missing \cup failing, missing, bare)
    BY <1>4, <1>9, <1>10, <1>11 DEF Sort
  <2>3. applied' = [m \in Message |-> IF m \in ok THEN applied[m] + 1 ELSE applied[m]]
    BY <1>4, <1>7
  <2> HIDE DEF missing, answered
  <2> QED BY <2>1, <2>2, <2>3 DEF Confirm, Goto, Sorted
<1> QED BY <1>4, <1>6, <1>7, <1>13

(* Every step of a consumer, and of what surrounds it, keeps the invariant. *)
LEMMA StepKeepsIInv == IInv /\ [Next]_vars => IInv'
<1> SUFFICES ASSUME IInv, [Next]_vars PROVE IInv'
  OBVIOUS
<1> USE ConsumerAssumption DEF Ticks
<1>1. ASSUME NEW c \in Consumer, Start(c) PROVE IInv'
  BY <1>1 DEF IInv, TypeOK, DoneIsHandled, DeletedIsHandled, RefusedIsNotPostponed,
     Start, Goto, NoBatch, Batches, Labels, queue, dependency, history
<1>2. ASSUME NEW c \in Consumer,
             Return(c) \/ BackoffElapses(c) \/ SkipPostpone(c) \/ ReceiveNothing(c)
      PROVE  IInv'
  <2>1. /\ pc' \in [Consumer -> Labels]
        /\ UNCHANGED <<queue, job, cancelled, dependency, faults, history>>
    BY <1>2 DEF Return, BackoffElapses, SkipPostpone, ReceiveNothing, Goto, IInv, TypeOK,
       Labels, vars, consumers
  <2> QED BY <2>1 DEF IInv, TypeOK, DoneIsHandled, DeletedIsHandled,
             RefusedIsNotPostponed, queue, dependency, history
<1>3. ASSUME NEW c \in Consumer, NEW S \in SUBSET Message, ReceiveMessage(c, S)
      PROVE  IInv'
  <2>1. /\ hidden' \in [Message -> Ticks]
        /\ receives' \in [Message -> 0 .. MaxReceives]
        /\ \A m \in Message : hidden'[m] <= VisibilityTimeout \/ hidden'[m] = hidden[m]
        /\ UNCHANGED where
    BY <1>3, GiveOutIsNormal DEF ReceiveMessage, IInv
  <2> DEFINE j == [NoBatch EXCEPT !.batch = S, !.receipt = receives']
  <2>2. j \in Batches /\ j.done = {} /\ j.later = {}
    BY <2>1 DEF NoBatch, Batches
  <2>3. /\ job' = [job EXCEPT ![c] = j]
        /\ pc' \in [Consumer -> Labels]
        /\ UNCHANGED <<cancelled, dependency, faults, history>>
    BY <1>3 DEF ReceiveMessage, Goto, IInv, TypeOK, Labels
  <2> HIDE DEF j
  <2> QED BY <2>1, <2>2, <2>3 DEF IInv, TypeOK, DoneIsHandled, DeletedIsHandled,
             RefusedIsNotPostponed, dependency, history
<1>4. ASSUME NEW c \in Consumer, ReceiveFails(c) PROVE IInv'
  <2>1. /\ hidden' \in [Message -> Ticks]
        /\ receives' \in [Message -> 0 .. MaxReceives]
        /\ UNCHANGED where
    BY <1>4, GiveOutIsNormal DEF ReceiveFails, IInv, TypeOK, queue
  <2>2. /\ faults' \in 0 .. MaxFaults /\ faults' # MaxFaults
        /\ pc' \in [Consumer -> Labels]
        /\ UNCHANGED <<job, cancelled, dependency, history>>
    BY <1>4 DEF ReceiveFails, Fault, Goto, IInv, TypeOK, Labels
  <2> QED BY <2>1, <2>2 DEF IInv, TypeOK, DoneIsHandled, DeletedIsHandled,
             RefusedIsNotPostponed, dependency, history
<1>5. ASSUME NEW c \in Consumer, Handle(c) PROVE IInv'
  <2>1. PICK missing \in SUBSET job[c].batch, bare \in SUBSET job[c].batch,
             failing \in SUBSET job[c].batch :
          /\ failing \cap (missing \cup Bad) = {}
          /\ Sorted(c, missing, bare, failing)
    BY <1>5, HandleSorts DEF FailingInPassing
  <2> DEFINE ok == job[c].batch \ (missing \cup Bad \cup failing)
             j == [job[c] EXCEPT !.done = ok \ bare,
                                 !.later = (missing \cup failing) \ bare,
                                 !.unanswered = missing]
  <2>2. failing \subseteq job[c].batch \ (missing \cup Bad)
    BY <2>1
  <2>3. job[c].batch \subseteq Message
    BY DEF IInv, TypeOK, Batches
  <2>4. /\ j \in Batches
        /\ j.done \subseteq ok
        /\ j.later \cap Bad \subseteq j.unanswered
    <3>1. job[c] \in Batches
      BY DEF IInv, TypeOK
    <3>2. j \in Batches
      BY <2>2, <2>3, <3>1 DEF Batches
    <3>3. j.done = ok \ bare /\ j.later = (missing \cup failing) \ bare
                           /\ j.unanswered = missing
      BY <3>1 DEF Batches
    <3> HIDE DEF j
    <3> QED BY <2>1, <3>2, <3>3
  <2>5. /\ applied' \in [Message -> Nat]
        /\ \A m \in ok : applied'[m] > 0 /\ m \notin Bad
        /\ \A m \in Message : applied[m] > 0 => applied'[m] > 0
    BY <2>1, <2>3 DEF Sorted, IInv, TypeOK
  <2>6. faults' \in 0 .. MaxFaults
    BY <2>1 DEF Sorted, Fault, IInv, TypeOK
  <2>7. pc' \in [Consumer -> Labels]
    BY <2>1 DEF Sorted, AfterHandle, AfterDelete, IInv, TypeOK, Labels
  <2>8. job' = [job EXCEPT ![c] = j] /\ UNCHANGED <<queue, cancelled, dependency, downTime>>
    BY <1>5, <2>1 DEF Sorted, Handle
  <2> HIDE DEF j, ok
  <2>9. TypeOK'
    BY <2>4, <2>5, <2>6, <2>7, <2>8 DEF IInv, TypeOK, queue, dependency
  <2>10. DoneIsHandled'
    <3> SUFFICES ASSUME NEW d \in Consumer, NEW m \in job'[d].done
                 PROVE  applied'[m] > 0 /\ m \notin Bad
      BY DEF DoneIsHandled
    <3>1. job'[d] = IF d = c THEN j ELSE job[d]
      BY <2>8 DEF IInv, TypeOK
    <3>2. job[d].done \subseteq Message
      BY DEF IInv, TypeOK, Batches
    <3> QED BY <2>4, <2>5, <3>1, <3>2 DEF IInv, DoneIsHandled
  <2>11. DeletedIsHandled'
    BY <2>5, <2>8 DEF IInv, DeletedIsHandled, queue
  <2>12. RefusedIsNotPostponed'
    BY <2>4, <2>8 DEF IInv, TypeOK, RefusedIsNotPostponed
  <2> QED BY <2>9, <2>10, <2>11, <2>12 DEF IInv
<1>6. ASSUME NEW c \in Consumer, Delete(c) PROVE IInv'
  <2>1. PICK deleted \in SUBSET job[c].done :
          /\ where' = [m \in Message |-> IF m \in deleted /\ where[m] = "queue"
                                         THEN "deleted" ELSE where[m]]
          /\ faults' = faults \/ CallFails(c)
          /\ Goto(c, AfterDelete(job[c]))
          /\ UNCHANGED <<hidden, receives, job, cancelled, dependency, history>>
    BY <1>6 DEF Delete
  <2>2. faults' \in 0 .. MaxFaults /\ (faults' = MaxFaults => faults = MaxFaults)
    BY <2>1 DEF CallFails, Fault, IInv, TypeOK
  <2>3. pc' \in [Consumer -> Labels]
    BY <2>1 DEF Goto, AfterDelete, IInv, TypeOK, Labels
  <2>4. TypeOK'
    BY <2>1, <2>2, <2>3 DEF IInv, TypeOK, dependency, history
  <2> QED BY <2>1, <2>2, <2>4 DEF IInv, DoneIsHandled, DeletedIsHandled,
             RefusedIsNotPostponed, history
<1>7. ASSUME NEW c \in Consumer, Postpone(c) PROVE IInv'
  <2>1. PICK moved \in SUBSET job[c].later :
          /\ hidden' = [m \in Message |->
                          IF m \in moved THEN RetryDelay(job[c].receipt[m]) ELSE hidden[m]]
          /\ faults' = faults \/ Fault
          /\ Goto(c, "receive")
          /\ UNCHANGED <<where, receives, job, cancelled, dependency, history>>
    BY <1>7 DEF Postpone
  <2>2. faults' \in 0 .. MaxFaults /\ (faults' = MaxFaults => faults = MaxFaults)
    BY <2>1 DEF Fault, IInv, TypeOK
  <2>3. hidden' \in [Message -> Ticks]
    BY <2>1, RetryDelayIsBounded DEF IInv, TypeOK
  <2>4. pc' \in [Consumer -> Labels]
    BY <2>1 DEF Goto, IInv, TypeOK, Labels
  <2>5. TypeOK'
    BY <2>1, <2>2, <2>3, <2>4 DEF IInv, TypeOK, dependency, history
  <2> QED BY <2>1, <2>5 DEF IInv, DoneIsHandled, DeletedIsHandled,
             RefusedIsNotPostponed, history
<1>8. ASSUME NEW c \in Consumer, Cancel(c) \/ Crash(c) PROVE IInv'
  <2>1. cancelled' \in [Consumer -> BOOLEAN] /\ pc' \in [Consumer -> Labels]
    BY <1>8 DEF Cancel, Crash, Goto, IInv, TypeOK, Labels
  <2>2. /\ faults' \in 0 .. MaxFaults /\ faults' # MaxFaults
        /\ UNCHANGED <<queue, job, dependency, history>>
    BY <1>8 DEF Cancel, Crash, Fault, IInv, TypeOK
  <2> QED BY <2>1, <2>2 DEF IInv, TypeOK, DoneIsHandled, DeletedIsHandled,
             RefusedIsNotPostponed, queue, dependency, history
<1>9. ASSUME NEW m \in Message, Redrive(m) PROVE IInv'
  BY <1>9 DEF IInv, TypeOK, DoneIsHandled, DeletedIsHandled, RefusedIsNotPostponed,
     Redrive, consumers, dependency, history
<1>10. CASE Tick
  <2>1. /\ hidden' \in [Message -> Ticks]
        /\ \A m \in Message : hidden'[m] <= hidden[m]
        /\ downTime' \in 0 .. MaxDown
        /\ UNCHANGED <<where, receives, consumers, dependency, applied>>
    BY <1>10 DEF Tick, IInv, TypeOK
  <2>3. faults' \in 0 .. MaxFaults /\ (faults' = MaxFaults => faults = MaxFaults)
    BY <1>10 DEF Tick, Fault, IInv, TypeOK
  <2>2. \A m \in Bad : m \in Message /\ hidden[m] \in Ticks /\ hidden'[m] \in Ticks
    BY <2>1 DEF IInv, TypeOK
  <2> QED BY <2>1, <2>2, <2>3 DEF IInv, TypeOK, DoneIsHandled, DeletedIsHandled,
             RefusedIsNotPostponed, consumers, dependency
<1>11. ASSUME DependencyGoesDown \/ DependencyComesUp PROVE IInv'
  <2>1. /\ outages' \in 0 .. MaxOutages
        /\ UNCHANGED <<queue, consumers, faults, history>>
    BY <1>11 DEF DependencyGoesDown, DependencyComesUp, IInv, TypeOK
  <2>2. dependencyUp' \in BOOLEAN
    BY <1>11, Zenon DEF DependencyGoesDown, DependencyComesUp
  <2> QED BY <2>1, <2>2 DEF IInv, TypeOK, DoneIsHandled, DeletedIsHandled,
             RefusedIsNotPostponed, queue, consumers, history
<1>12. CASE UNCHANGED vars
  BY <1>12 DEF IInv, TypeOK, DoneIsHandled, DeletedIsHandled, RefusedIsNotPostponed,
     vars, queue, consumers, dependency, history
<1> QED BY <1>1, <1>2, <1>3, <1>4, <1>5, <1>6, <1>7, <1>8, <1>9, <1>10, <1>11, <1>12
        DEF Next, Step

LEMMA IInvHolds == Spec => []IInv
BY InitIsSound, StepKeepsIInv, PTL DEF Spec

LEMMA IInvIsStrongEnough == IInv => TypeOK /\ DeletedWasHandled
BY DEF IInv, DeletedIsHandled, DeletedWasHandled

(* Every variable keeps its type in every execution. *)
THEOREM TypeCorrect == Spec => []TypeOK
BY IInvHolds, IInvIsStrongEnough, PTL

(* No message is deleted before its handling succeeded, with any number of *)
(* consumers, stale receipts, crashes and lost answers (process, delete).  *)
THEOREM DeletedIsSafe == Spec => []DeletedWasHandled
BY IInvHolds, IInvIsStrongEnough, PTL

(* Only receiving a refused message hides it anew, and nothing deletes it. *)
Paced(m) == /\ where'[m] # "deleted"
            /\ \/ hidden'[m] \in {hidden[m], hidden[m] - 1}
               \/ receives'[m] > receives[m]
               \/ \E c \in Consumer : pc[c] = "postpone" /\ m \in job[c].unanswered

LEMMA StepKeepsPace == IInv /\ IInv' /\ [Next]_vars => \A m \in Bad : Paced(m)
<1> SUFFICES ASSUME IInv, IInv', [Next]_vars, NEW m \in Bad PROVE Paced(m)
  OBVIOUS
<1>1. m \in Message
  BY ConsumerAssumption
<1>2. where'[m] # "deleted"
  BY <1>1 DEF IInv, DeletedIsHandled
<1> SUFFICES \/ hidden'[m] \in {hidden[m], hidden[m] - 1}
             \/ receives'[m] > receives[m]
             \/ \E c \in Consumer : pc[c] = "postpone" /\ m \in job[c].unanswered
  BY <1>2 DEF Paced
<1>3. ASSUME NEW S \in SUBSET Message, GiveOut(S)
      PROVE  hidden'[m] = hidden[m] \/ receives'[m] > receives[m]
  BY <1>1, <1>3, ConsumerAssumption DEF GiveOut, IInv, TypeOK
<1>4. ASSUME NEW c \in Consumer, Postpone(c)
      PROVE  hidden'[m] = hidden[m] \/ (pc[c] = "postpone" /\ m \in job[c].unanswered)
  BY <1>1, <1>4 DEF Postpone, IInv, RefusedIsNotPostponed
<1>5. ASSUME Tick PROVE hidden'[m] \in {hidden[m], hidden[m] - 1}
  BY <1>1, <1>5 DEF Tick
<1>6. ASSUME NEW c \in Consumer, ReceiveFails(c)
      PROVE  hidden'[m] = hidden[m] \/ receives'[m] > receives[m]
  BY <1>3, <1>6 DEF ReceiveFails, queue
<1>7. ASSUME NEW c \in Consumer, Start(c) \/ Return(c) \/ BackoffElapses(c)
             \/ ReceiveNothing(c) \/ Handle(c) \/ Delete(c) \/ SkipPostpone(c)
             \/ Cancel(c) \/ Crash(c)
      PROVE  UNCHANGED hidden
  BY <1>7 DEF Start, Return, BackoffElapses, ReceiveNothing, Handle, Delete, SkipPostpone,
     Cancel, Crash, queue, vars
<1>8. ASSUME UNCHANGED vars \/ DependencyGoesDown \/ DependencyComesUp
             \/ \E x \in Message : Redrive(x)
      PROVE  UNCHANGED hidden
  BY <1>8 DEF Redrive, DependencyGoesDown, DependencyComesUp, queue, vars
<1> QED BY <1>3, <1>4, <1>5, <1>6, <1>7, <1>8 DEF Next, Step, ReceiveMessage

(* A message refused for good is never deleted, and is hidden anew only by *)
(* being received, with any number of consumers and failures, except after *)
(* a batch in which the handler gave no result for it (process, postpone). *)
THEOREM RefusedIsSafe == Spec => RefusedKeepsPace
<1>1. IInv /\ IInv' /\ [Next]_vars => [\A m \in Bad : Paced(m)]_vars
  BY StepKeepsPace
<1> QED BY <1>1, IInvHolds, PTL DEF Spec, RefusedKeepsPace, Paced

-----------------------------------------------------------------------------
(* Duplicates.  Every delivery of a message is due to be handled by the    *)
(* consumer that holds it, or may still come.                              *)

(* Consumers that are about to handle a message. *)
Busy(m) == {c \in Consumer : pc[c] = "handle" /\ m \in job[c].batch}

(* A consumer that will delete a message, unless something fails. *)
Covers(c, m) == /\ ~cancelled[c] /\ m \in Current(c)
                /\ pc[c] = "handle" \/ (pc[c] = "delete" /\ m \in job[c].done)

(* One more delivery may come while no one keeps the message hidden. *)
Free(m) == IF where[m] = "queue" /\ ~(hidden[m] > 0 /\ \E c \in Consumer : Covers(c, m))
           THEN 1 ELSE 0

Paid(m) == applied[m] + Cardinality(Busy(m)) + Free(m) <= 1 + (MaxFaults - faults)

(* What one consumer does adds itself to the busy ones, or takes itself out. *)
LEMMA BusyChanges ==
    ASSUME NEW m, NEW c \in Consumer,
           \A d \in Consumer : d # c => pc'[d] = pc[d] /\ job'[d] = job[d]
    PROVE  /\ Cardinality(Busy(m)) \in Nat /\ Cardinality(Busy(m)') \in Nat
           /\ c \in Busy(m) /\ c \notin Busy(m)' =>
                 Cardinality(Busy(m)') = Cardinality(Busy(m)) - 1
           /\ c \notin Busy(m) /\ c \in Busy(m)' =>
                 Cardinality(Busy(m)') = Cardinality(Busy(m)) + 1
           /\ (c \in Busy(m) <=> c \in Busy(m)') =>
                 Cardinality(Busy(m)') = Cardinality(Busy(m))
<1>1. \A d \in Consumer : d # c => (d \in Busy(m)' <=> d \in Busy(m))
  BY DEF Busy
<1>2. Busy(m) \subseteq Consumer /\ Busy(m)' \subseteq Consumer
  BY DEF Busy
<1>3. IsFiniteSet(Busy(m)) /\ IsFiniteSet(Busy(m)')
  BY <1>2, FS_Subset, ConsumerAssumption
<1>4. Cardinality(Busy(m)) \in Nat /\ Cardinality(Busy(m)') \in Nat
  BY <1>3, FS_CardinalityType
<1>5. CASE c \in Busy(m) /\ c \notin Busy(m)'
  <2>1. Busy(m)' = Busy(m) \ {c}
    BY <1>1, <1>2, <1>5
  <2> QED BY <1>3, <1>4, <1>5, <2>1, FS_RemoveElement
<1>6. CASE c \notin Busy(m) /\ c \in Busy(m)'
  <2>1. Busy(m)' = Busy(m) \cup {c}
    BY <1>1, <1>2, <1>6
  <2> QED BY <1>3, <1>4, <1>6, <2>1, FS_AddElement
<1>7. CASE c \in Busy(m) <=> c \in Busy(m)'
  <2>1. Busy(m)' = Busy(m)
    BY <1>1, <1>2, <1>7
  <2> QED BY <1>4, <1>7, <2>1
<1> QED BY <1>4, <1>5, <1>6, <1>7

(* A consumer that does not make a message visible, nor stop to cover it,  *)
(* frees no delivery.                                                      *)
LEMMA FreeChanges ==
    ASSUME NEW m, NEW c \in Consumer,
           \A d \in Consumer : d # c => /\ pc'[d] = pc[d] /\ job'[d] = job[d]
                                       /\ cancelled'[d] = cancelled[d],
           receives'[m] = receives[m],
           where'[m] = where[m] \/ where'[m] # "queue",
           hidden[m] > 0 => hidden'[m] > 0
    PROVE  /\ Free(m) \in {0, 1} /\ Free(m)' \in {0, 1}
           /\ Free(m) = 0 /\ Free(m)' = 1 => Covers(c, m) /\ ~Covers(c, m)'
           /\ where'[m] # "queue" => Free(m)' = 0
<1>1. \A d \in Consumer : d # c => (Covers(d, m) <=> Covers(d, m)')
  BY DEF Covers, Current
<1> QED BY <1>1 DEF Free

(* At first every message may be delivered once. *)
LEMMA InitIsPaid == Init => \A m \in Message : Paid(m)
<1> SUFFICES ASSUME Init, NEW m \in Message PROVE Paid(m)
  OBVIOUS
<1>1. Busy(m) = {}
  BY DEF Init, Busy
<1>2. Cardinality(Busy(m)) = 0
  BY <1>1, FS_EmptySet
<1> QED BY <1>2, ConsumerAssumption DEF Init, Paid, Free

(* Every step keeps the account of a message: what frees a delivery, or    *)
(* handles one, takes it from the busy ones or from the failures to come.  *)
LEMMA StepKeepsPaid ==
    ASSUME IInv, [Next]_vars, NEW m \in Message, Paid(m)
    PROVE  Paid(m)'
<1>1. /\ applied[m] \in Nat /\ faults \in Nat /\ hidden[m] \in Nat
      /\ receives[m] \in Nat /\ MaxFaults \in Nat /\ VisibilityTimeout \in Nat \ {0}
  BY ConsumerAssumption DEF IInv, TypeOK
<1>2. ASSUME NEW c \in Consumer,
             \A d \in Consumer : d # c => /\ pc'[d] = pc[d] /\ job'[d] = job[d]
                                         /\ cancelled'[d] = cancelled[d],
             receives'[m] = receives[m], where'[m] = where[m], applied'[m] = applied[m],
             hidden[m] > 0 => hidden'[m] > 0,
             c \in Busy(m)' => c \in Busy(m),
             (faults' = faults /\ (Covers(c, m) => Covers(c, m)')) \/ Fault
      PROVE  Paid(m)'
  <2>1. /\ Cardinality(Busy(m)) \in Nat /\ Cardinality(Busy(m)') \in Nat
        /\ Cardinality(Busy(m)') <= Cardinality(Busy(m))
    BY <1>2, BusyChanges
  <2>2. /\ Free(m) \in {0, 1} /\ Free(m)' \in {0, 1}
        /\ Free(m) = 0 /\ Free(m)' = 1 => Covers(c, m) /\ ~Covers(c, m)'
    BY <1>2, FreeChanges
  <2> QED BY <1>1, <1>2, <2>1, <2>2 DEF Paid, Fault
<1>3. ASSUME NEW c \in Consumer,
             Start(c) \/ Return(c) \/ BackoffElapses(c) \/ SkipPostpone(c)
                \/ Cancel(c) \/ Crash(c)
      PROVE  Paid(m)'
  <2>1. /\ \A d \in Consumer : d # c => /\ pc'[d] = pc[d] /\ job'[d] = job[d]
                                        /\ cancelled'[d] = cancelled[d]
        /\ UNCHANGED <<queue, applied>>
        /\ c \in Busy(m)' => c \in Busy(m)
    BY <1>3 DEF Start, Return, BackoffElapses, SkipPostpone, Cancel, Crash, Goto, IInv,
       TypeOK, history, Busy
  <2>2. (faults' = faults /\ ~Covers(c, m)) \/ Fault
    BY <1>3 DEF Start, Return, BackoffElapses, SkipPostpone, Cancel, Crash, Covers
  <2> QED BY <1>2, <2>1, <2>2 DEF queue
<1>4. ASSUME NEW S \in SUBSET Message, GiveOut(S), m \in S
      PROVE  /\ Free(m) = 1 /\ where[m] = "queue" /\ where'[m] = "queue"
             /\ receives'[m] = receives[m] + 1 /\ hidden'[m] > 0
             /\ Free(m)' \in {0, 1}
  BY <1>1, <1>4 DEF GiveOut, Visible, Free
<1>5. ASSUME NEW S \in SUBSET Message, GiveOut(S), m \notin S
      PROVE  UNCHANGED <<where, receives[m], hidden[m]>>
  BY <1>5 DEF GiveOut
<1>6. ASSUME NEW c \in Consumer, NEW S \in SUBSET Message, ReceiveMessage(c, S)
      PROVE  Paid(m)'
  <2>1. /\ pc[c] = "receive" /\ ~cancelled[c] /\ GiveOut(S)
        /\ job' = [job EXCEPT ![c] = [NoBatch EXCEPT !.batch = S, !.receipt = receives']]
        /\ pc' = [pc EXCEPT ![c] = "handle"]
        /\ UNCHANGED <<cancelled, dependency, faults, history>>
    BY <1>6 DEF ReceiveMessage, Goto
  <2>2. \A d \in Consumer : d # c => /\ pc'[d] = pc[d] /\ job'[d] = job[d]
                                    /\ cancelled'[d] = cancelled[d]
    BY <2>1 DEF IInv, TypeOK
  <2>3. /\ c \notin Busy(m) /\ ~Covers(c, m)
        /\ job'[c].batch = S /\ job'[c].receipt = receives' /\ pc'[c] = "handle"
    BY <2>1 DEF Busy, Covers, NoBatch, IInv, TypeOK
  <2>4. CASE m \in S
    <3>1. c \in Busy(m)' /\ Covers(c, m)'
      BY <2>1, <2>3, <2>4 DEF Busy, Covers, Current
    <3>2. Free(m)' = 0
      BY <1>4, <2>1, <2>4, <3>1 DEF Free
    <3> QED BY <1>1, <1>4, <2>1, <2>2, <2>3, <2>4, <3>1, <3>2, BusyChanges
            DEF Paid, history
  <2>5. CASE m \notin S
    <3>1. c \notin Busy(m)'
      BY <2>3, <2>5 DEF Busy
    <3> QED BY <1>2, <1>5, <2>1, <2>2, <2>3, <2>5, <3>1 DEF history
  <2> QED BY <2>4, <2>5
<1>7. ASSUME NEW c \in Consumer, ReceiveFails(c) PROVE Paid(m)'
  <2>1. /\ pc' = [pc EXCEPT ![c] = "backoff"] /\ pc[c] = "receive" /\ Fault
        /\ UNCHANGED queue \/ \E S \in SUBSET Message : GiveOut(S)
        /\ UNCHANGED <<job, cancelled, dependency, history>>
    BY <1>7 DEF ReceiveFails, Goto
  <2>2. \A d \in Consumer : d # c => /\ pc'[d] = pc[d] /\ job'[d] = job[d]
                                    /\ cancelled'[d] = cancelled[d]
    BY <2>1 DEF IInv, TypeOK
  <2>3. c \notin Busy(m) /\ c \notin Busy(m)'
    BY <2>1 DEF Busy, IInv, TypeOK
  <2>4. ASSUME NEW S \in SUBSET Message, GiveOut(S), m \in S PROVE Paid(m)'
    BY <1>1, <1>4, <2>1, <2>2, <2>3, <2>4, BusyChanges DEF Paid, Fault, history
  <2>5. ASSUME UNCHANGED <<where, receives[m], hidden[m]>> PROVE Paid(m)'
    BY <1>2, <2>1, <2>2, <2>3, <2>5 DEF history
  <2> QED BY <1>5, <2>1, <2>4, <2>5 DEF queue
<1>8. ASSUME NEW c \in Consumer, Handle(c) PROVE Paid(m)'
  <2>0. PICK missing \in SUBSET job[c].batch, bare \in SUBSET job[c].batch :
          \E failing \in FailingInPassing(c, job[c].batch \ (missing \cup Bad)) :
            Sorted(c, missing, bare, failing)
    BY <1>8, HandleSorts
  <2>1. PICK failing \in FailingInPassing(c, job[c].batch \ (missing \cup Bad)) :
          Sorted(c, missing, bare, failing)
    BY <2>0
  <2> DEFINE ok == job[c].batch \ (missing \cup Bad \cup failing)
             j == [job[c] EXCEPT !.done = ok \ bare,
                                 !.later = (missing \cup failing) \ bare,
                                 !.unanswered = missing]
  <2>2. /\ applied' = [x \in Message |-> IF x \in ok THEN applied[x] + 1 ELSE applied[x]]
        /\ job' = [job EXCEPT ![c] = j]
        /\ pc' = [pc EXCEPT ![c] = AfterHandle(j)]
        /\ UNCHANGED <<queue, cancelled>>
    BY <1>8, <2>1 DEF Sorted, Handle
  <2>3. \A d \in Consumer : d # c => /\ pc'[d] = pc[d] /\ job'[d] = job[d]
                                    /\ cancelled'[d] = cancelled[d]
    BY <2>2 DEF IInv, TypeOK
  <2>4. /\ pc[c] = "handle" /\ job'[c] = j /\ pc'[c] = AfterHandle(j)
        /\ j.batch = job[c].batch /\ j.receipt = job[c].receipt /\ j.done = ok \ bare
    BY <1>8, <2>2 DEF Handle, IInv, TypeOK, Batches
  <2>5. AfterHandle(j) # "handle" /\ (ok \ bare # {} => AfterHandle(j) = "delete")
    BY <2>4 DEF AfterHandle, AfterDelete
  <2>6. applied'[m] = IF m \in ok THEN applied[m] + 1 ELSE applied[m]
    BY <2>2
  <2>7. ok \subseteq job[c].batch
    OBVIOUS
  <2> HIDE DEF ok, j
  <2>8. c \notin Busy(m)' /\ (c \in Busy(m) <=> m \in job[c].batch)
    BY <2>4, <2>5 DEF Busy
  <2>9. m \notin job[c].batch => ~Covers(c, m)
    BY DEF Covers, Current
  <2>10. Covers(c, m) /\ m \in ok /\ m \notin bare => Covers(c, m)'
    BY <2>2, <2>4, <2>5 DEF Covers, Current, queue
  <2>11. /\ Free(m) \in {0, 1} /\ Free(m)' \in {0, 1}
         /\ Free(m) = 0 /\ Free(m)' = 1 => Covers(c, m) /\ ~Covers(c, m)'
    BY <2>2, <2>3, FreeChanges DEF queue
  <2>12. faults' = faults \/ Fault
    BY <2>1 DEF Sorted
  <2>13. m \in bare => Fault
    BY <2>1 DEF Sorted
  <2>14. CASE m \notin job[c].batch
    BY <1>1, <2>3, <2>6, <2>7, <2>8, <2>9, <2>11, <2>12, <2>14, BusyChanges DEF Paid, Fault
  <2>15. CASE m \in job[c].batch /\ m \notin ok
    BY <1>1, <2>3, <2>6, <2>8, <2>11, <2>12, <2>15, BusyChanges DEF Paid, Fault
  <2>16. CASE m \in ok
    <3>1. m \notin bare => (Free(m)' = 1 => Free(m) = 1)
      BY <2>10, <2>11, <2>16
    <3> QED BY <1>1, <2>3, <2>6, <2>7, <2>8, <2>11, <2>12, <2>13, <2>16, <3>1, BusyChanges
            DEF Paid, Fault
  <2> QED BY <2>14, <2>15, <2>16
<1>9. ASSUME NEW c \in Consumer, Delete(c) PROVE Paid(m)'
  <2>1. PICK deleted \in SUBSET job[c].done :
          /\ pc[c] = "delete"
          /\ IF job[c].done \cap Current(c) \subseteq deleted THEN UNCHANGED faults
                                                              ELSE CallFails(c)
          /\ where' = [x \in Message |-> IF x \in deleted /\ where[x] = "queue"
                                         THEN "deleted" ELSE where[x]]
          /\ pc' = [pc EXCEPT ![c] = AfterDelete(job[c])]
          /\ UNCHANGED <<hidden, receives, job, cancelled, dependency, history>>
    BY <1>9 DEF Delete, Goto
  <2>2. \A d \in Consumer : d # c => /\ pc'[d] = pc[d] /\ job'[d] = job[d]
                                    /\ cancelled'[d] = cancelled[d]
    BY <2>1 DEF IInv, TypeOK
  <2>3. c \notin Busy(m) /\ c \notin Busy(m)'
    BY <2>1 DEF Busy, AfterDelete, IInv, TypeOK
  <2>4. where'[m] = where[m] \/ where'[m] # "queue"
    BY <2>1
  <2>5. /\ Free(m) \in {0, 1} /\ Free(m)' \in {0, 1}
        /\ Free(m) = 0 /\ Free(m)' = 1 => Covers(c, m)
        /\ where'[m] # "queue" => Free(m)' = 0
    BY <2>1, <2>2, <2>4, FreeChanges
  <2>6. Covers(c, m) /\ where'[m] = "queue" /\ where[m] = "queue" => Fault
    BY <2>1 DEF Covers, CallFails
  <2>7. where[m] # "queue" => where'[m] # "queue"
    BY <2>1
  <2>8. faults' = faults \/ Fault
    BY <2>1 DEF CallFails
  <2> QED BY <1>1, <2>1, <2>2, <2>3, <2>5, <2>6, <2>7, <2>8, BusyChanges
          DEF Paid, Fault, history
<1>10. ASSUME NEW c \in Consumer, Postpone(c) PROVE Paid(m)'
  <2>1. PICK moved \in SUBSET job[c].later :
          /\ pc[c] = "postpone"
          /\ faults' = faults \/ Fault
          /\ hidden' = [x \in Message |->
                          IF x \in moved THEN RetryDelay(job[c].receipt[x]) ELSE hidden[x]]
          /\ pc' = [pc EXCEPT ![c] = "receive"]
          /\ UNCHANGED <<where, receives, job, cancelled, dependency, history>>
    BY <1>10 DEF Postpone, Goto
  <2>2. \A d \in Consumer : d # c => /\ pc'[d] = pc[d] /\ job'[d] = job[d]
                                    /\ cancelled'[d] = cancelled[d]
    BY <2>1 DEF IInv, TypeOK
  <2>3. c \notin Busy(m)' /\ ~Covers(c, m)
    BY <2>1 DEF Busy, Covers, IInv, TypeOK
  <2>4. hidden[m] > 0 => hidden'[m] > 0
    BY <2>1, RetryDelayIsPositive
  <2> QED BY <1>2, <2>1, <2>2, <2>3, <2>4 DEF history
<1>11. ASSUME NEW x \in Message, Redrive(x) PROVE Paid(m)'
  <2>1. /\ UNCHANGED <<hidden, receives, consumers, dependency, faults, history>>
        /\ where'[m] = where[m] \/ where'[m] = "dlq"
    BY <1>11 DEF Redrive, IInv, TypeOK
  <2>2. Busy(m)' = Busy(m) /\ \A c \in Consumer : Covers(c, m)' <=> Covers(c, m)
    BY <2>1 DEF Busy, Covers, Current, consumers
  <2>3. Free(m)' = Free(m) \/ (Free(m)' = 0 /\ Free(m) \in {0, 1})
    BY <2>1, <2>2 DEF Free
  <2>4. Cardinality(Busy(m)) \in Nat
    BY FS_Subset, FS_CardinalityType, ConsumerAssumption DEF Busy
  <2> QED BY <1>1, <2>1, <2>2, <2>3, <2>4 DEF Paid, history
<1>12. CASE Tick
  <2>1. UNCHANGED <<where, receives, consumers, dependency, applied>>
    BY <1>12 DEF Tick
  <2>2. Busy(m)' = Busy(m) /\ \A c \in Consumer : Covers(c, m)' <=> Covers(c, m)
    BY <2>1 DEF Busy, Covers, Current, consumers
  <2>3. Cardinality(Busy(m)) \in Nat
    BY FS_Subset, FS_CardinalityType, ConsumerAssumption DEF Busy
  <2>4. hidden'[m] = hidden[m] \/ hidden'[m] = hidden[m] - 1
    BY <1>12 DEF Tick
  <2>5. CASE hidden[m] = 1 /\ \E c \in Consumer : Covers(c, m)
    <3>1. m \in Held
      BY <2>5 DEF Held, Covers
    <3>2. Fault
      BY <1>12, <2>5, <3>1 DEF Tick
    <3>3. Free(m) = 0 \/ Free(m) = 1
      BY DEF Free
    <3>4. Free(m)' = 0 \/ Free(m)' = 1
      BY DEF Free
    <3> QED BY <1>1, <2>1, <2>2, <2>3, <2>5, <3>2, <3>3, <3>4 DEF Paid, Fault, Free
  <2>6. CASE ~(hidden[m] = 1 /\ \E c \in Consumer : Covers(c, m))
    <3>1. Free(m)' = Free(m) \/ (Free(m)' = 0 /\ Free(m) = 1)
      BY <1>1, <2>1, <2>2, <2>4, <2>6 DEF Free
    <3>2. faults' = faults \/ Fault
      BY <1>12 DEF Tick
    <3>3. Free(m) \in {0, 1}
      BY DEF Free
    <3> QED BY <1>1, <2>1, <2>2, <2>3, <3>1, <3>2, <3>3 DEF Paid, Fault
  <2> QED BY <2>5, <2>6
<1>13. CASE UNCHANGED vars \/ DependencyGoesDown \/ DependencyComesUp
             \/ \E c \in Consumer : ReceiveNothing(c)
  <2>1. UNCHANGED <<queue, consumers, faults, history>>
    BY <1>13 DEF vars, DependencyGoesDown, DependencyComesUp, ReceiveNothing
  <2> QED BY <2>1 DEF Paid, Busy, Free, Covers, Current, queue, consumers, history
<1> QED BY <1>3, <1>6, <1>7, <1>8, <1>9, <1>10, <1>11, <1>12, <1>13 DEF Next, Step

(* A message is handled again only when something failed, with any number  *)
(* of consumers (Options.VisibilityTimeout, delete).                       *)
THEOREM DuplicatesAreBounded == Spec => []DuplicatesArePaidFor
<1> DEFINE AllPaid == \A m \in Message : Paid(m)
<1>1. IInv /\ AllPaid /\ [Next]_vars => AllPaid'
  BY StepKeepsPaid
<1>2. IInv /\ AllPaid => DuplicatesArePaidFor
  <2> SUFFICES ASSUME IInv, AllPaid, NEW m \in Message
               PROVE  applied[m] <= 1 + (MaxFaults - faults)
    BY DEF DuplicatesArePaidFor
  <2>1. Cardinality(Busy(m)) \in Nat
    BY FS_Subset, FS_CardinalityType, ConsumerAssumption DEF Busy
  <2>2. Free(m) \in {0, 1}
    BY DEF Free
  <2> QED BY <2>1, <2>2, ConsumerAssumption DEF Paid, IInv, TypeOK
<1>3. Init => AllPaid
  BY InitIsPaid
<1> QED BY <1>1, <1>2, <1>3, IInvHolds, PTL DEF Spec

-----------------------------------------------------------------------------
(* The refinement.                                                         *)

(* A message that is moved within the queue, or out of it, is moved in the *)
(* abstract queue at the same step.                                        *)
LEMMA StepKeepsThePromise ==
    ASSUME IInv, [Next]_vars
    PROVE  [Handling!Next]_(Handling!vars)
<1> USE DEF Handling!Next, Handling!Change, Handling!Move, Handling!vars
<1>1. ASSUME UNCHANGED <<Fate, Handled>> PROVE [Handling!Next]_(Handling!vars)
  BY <1>1
<1>2. ASSUME UNCHANGED <<where, hidden, applied>> PROVE [Handling!Next]_(Handling!vars)
  BY <1>1, <1>2 DEF Fate, Handled
<1>3. ASSUME NEW S \in SUBSET Message, GiveOut(S), UNCHANGED applied
      PROVE  Handling!Next
  <2>1. \A m \in S : where[m] = "queue" /\ hidden[m] = 0
    BY <1>3 DEF GiveOut, Visible
  <2>2. \A m \in Message : Fate'[m] = IF m \in S THEN "inFlight" ELSE Fate[m]
    BY <1>3, <2>1, ConsumerAssumption DEF GiveOut, Fate
  <2>3. Fate' = [m \in Message |-> IF m \in S THEN "inFlight" ELSE Fate[m]]
    BY <2>2 DEF Fate
  <2>4. \A m \in S : Fate[m] = "visible"
    BY <2>1 DEF Fate
  <2>5. Handled' = Handled
    BY <1>3 DEF Handled
  <2> QED BY <2>3, <2>4, <2>5 DEF Handling!Receive
<1>4. ASSUME NEW c \in Consumer, Handle(c) PROVE Handling!Next
  <2>1. PICK ok \in SUBSET Message :
          /\ ok \cap Bad = {}
          /\ applied' = [m \in Message |-> IF m \in ok THEN applied[m] + 1 ELSE applied[m]]
    <3>1. job[c].batch \subseteq Message
      BY DEF IInv, TypeOK, Batches
    <3>2. PICK missing, failing, bare : Sorted(c, missing, bare, failing)
      BY <1>4, HandleSorts
    <3> DEFINE S == job[c].batch \ (missing \cup Bad \cup failing)
    <3>3. /\ S \in SUBSET Message /\ S \cap Bad = {}
          /\ applied' = [m \in Message |-> IF m \in S THEN applied[m] + 1 ELSE applied[m]]
      BY <3>1, <3>2 DEF Sorted
    <3> HIDE DEF S
    <3> QED BY <3>3
  <2>2. UNCHANGED queue
    BY <1>4 DEF Handle
  <2>3. Fate' = Fate
    BY <2>2 DEF Fate, queue
  <2>4. Handled' = Handled \cup ok
    BY <2>1 DEF Handled, IInv, TypeOK
  <2>5. \A m \in ok : m \notin Bad /\ Fate[m] # "absent"
    BY <2>1 DEF Fate, IInv, TypeOK
  <2> QED BY <2>3, <2>4, <2>5 DEF Handling!Handle
<1>5. ASSUME NEW c \in Consumer, Delete(c) PROVE Handling!Next
  <2>1. PICK deleted \in SUBSET job[c].done :
          /\ where' = [m \in Message |-> IF m \in deleted /\ where[m] = "queue"
                                         THEN "deleted" ELSE where[m]]
          /\ UNCHANGED <<hidden, applied>>
    BY <1>5 DEF Delete, history
  <2> DEFINE S == {m \in deleted : where[m] = "queue"}
  <2>2. job[c].done \subseteq Message /\ \A m \in job[c].done : applied[m] > 0
    BY DEF IInv, TypeOK, Batches, DoneIsHandled
  <2>3. S \in SUBSET Message /\ S \subseteq Handled
    BY <2>1, <2>2 DEF Handled
  <2>4. \A m \in S : Fate[m] \in {"visible", "inFlight"}
    BY <2>3 DEF Fate
  <2>5. \A m \in Message : Fate'[m] = IF m \in S THEN "deleted" ELSE Fate[m]
    BY <2>1 DEF Fate
  <2>6. Fate' = [m \in Message |-> IF m \in S THEN "deleted" ELSE Fate[m]]
    BY <2>5 DEF Fate
  <2>7. Handled' = Handled
    BY <2>1 DEF Handled
  <2> HIDE DEF S
  <2> QED BY <2>3, <2>4, <2>6, <2>7 DEF Handling!Confirm, Handling!Waiting
<1>6. ASSUME NEW c \in Consumer, Postpone(c) PROVE [Handling!Next]_(Handling!vars)
  <2>1. PICK moved \in SUBSET {m \in job[c].later : where[m] = "queue" /\ hidden[m] > 0} :
          /\ hidden' = [m \in Message |->
                          IF m \in moved THEN RetryDelay(job[c].receipt[m]) ELSE hidden[m]]
          /\ UNCHANGED <<where, applied>>
    BY <1>6 DEF Postpone, history
  <2>2. \A m \in Message : hidden'[m] > 0 <=> hidden[m] > 0
    BY <2>1, RetryDelayIsPositive
  <2>3. Fate' = Fate /\ Handled' = Handled
    BY <2>1, <2>2 DEF Fate, Handled
  <2> QED BY <1>1, <2>3
<1>7. ASSUME NEW m \in Message, Redrive(m) PROVE Handling!Next
  <2>1. Fate[m] = "visible" /\ Handled' = Handled
    BY <1>7 DEF Redrive, Fate, Handled, history
  <2>2. \A x \in Message : Fate'[x] = IF x \in {m} THEN "dlq" ELSE Fate[x]
    BY <1>7 DEF Redrive, Fate, IInv, TypeOK
  <2>3. Fate' = [x \in Message |-> IF x \in {m} THEN "dlq" ELSE Fate[x]]
    BY <2>2 DEF Fate
  <2> QED BY <2>1, <2>3 DEF Handling!GiveUp, Handling!Waiting
<1>8. CASE Tick
  <2>1. /\ hidden' = [m \in Message |-> IF where[m] = "queue" /\ hidden[m] > 0
                                        THEN hidden[m] - 1 ELSE hidden[m]]
        /\ UNCHANGED <<where, applied>>
    BY <1>8 DEF Tick
  <2> DEFINE S == {m \in Message : where[m] = "queue" /\ hidden[m] = 1}
  <2>2. S \in SUBSET Message /\ \A m \in S : Fate[m] = "inFlight"
    BY DEF Fate
  <2>3. \A m \in Message : hidden[m] \in Nat
    BY ConsumerAssumption DEF IInv, TypeOK
  <2>4. \A m \in Message : Fate'[m] = IF m \in S THEN "visible" ELSE Fate[m]
    BY <2>1, <2>3 DEF Fate
  <2>5. Fate' = [m \in Message |-> IF m \in S THEN "visible" ELSE Fate[m]]
    BY <2>4 DEF Fate
  <2>6. Handled' = Handled
    BY <2>1 DEF Handled
  <2> HIDE DEF S
  <2> QED BY <2>2, <2>5, <2>6 DEF Handling!Reappear
<1>9. ASSUME NEW c \in Consumer, ReceiveFails(c) PROVE [Handling!Next]_(Handling!vars)
  BY <1>2, <1>3, <1>9 DEF ReceiveFails, queue, history
<1>10. ASSUME NEW c \in Consumer, NEW S \in SUBSET Message, ReceiveMessage(c, S)
       PROVE  Handling!Next
  BY <1>3, <1>10 DEF ReceiveMessage, history
<1>11. ASSUME NEW c \in Consumer,
              \/ Start(c) \/ Return(c) \/ BackoffElapses(c) \/ SkipPostpone(c)
              \/ ReceiveNothing(c) \/ Cancel(c) \/ Crash(c)
       PROVE  [Handling!Next]_(Handling!vars)
  BY <1>2, <1>11 DEF Start, Return, BackoffElapses, SkipPostpone, ReceiveNothing, Cancel,
     Crash, queue, history, vars
<1>12. CASE UNCHANGED vars \/ DependencyGoesDown \/ DependencyComesUp
  BY <1>2, <1>12 DEF vars, DependencyGoesDown, DependencyComesUp, queue, history
<1> QED BY <1>4, <1>5, <1>6, <1>7, <1>8, <1>9, <1>10, <1>11, <1>12 DEF Next, Step

(* The consumers implement the safety of what they promise (process).      *)
THEOREM PromiseIsSafe == Spec => Handling!SafetySpec
<1>1. Init => Handling!Init
  BY DEF Init, Handling!Init, Fate, Handled
<1> QED BY <1>1, StepKeepsThePromise, IInvHolds, PTL DEF Spec, Handling!SafetySpec

-----------------------------------------------------------------------------
(* Waits.  retryDelay doubles in a loop what the comment on retryBaseDelay *)
(* gives as powers of two.                                                 *)

(* A set that holds zero, and with a number the next one, holds all of     *)
(* them: induction, from the order of the numbers being well-founded.      *)
LEMMA Ascend ==
    ASSUME NEW S, 0 \in S, \A n \in Nat : n \in S => n + 1 \in S
    PROVE  Nat \subseteq S
<1> SUFFICES ASSUME Nat \ S # {} PROVE FALSE
  OBVIOUS
<1>1. PICK m \in Nat \ S : \A n \in Nat \ S : ~(<<n, m>> \in OpToRel(<, Nat))
  <2>1. IsWellFoundedOn(OpToRel(<, Nat), Nat) /\ Nat \ S \subseteq Nat
    BY NatLessThanWellFounded
  <2> QED BY <2>1, WFMin
<1>2. \A n \in Nat \ S : ~(n < m)
  BY <1>1 DEF OpToRel
<1>3. m # 0 /\ m - 1 \in Nat
  OBVIOUS
<1> QED BY <1>2, <1>3

(* A power of two counts the subsets of a set, and one more element makes  *)
(* twice as many.                                                          *)
LEMMA PowersDouble ==
    2 ^ 0 = 1 /\ \A n \in Nat : 2 ^ n \in Nat \ {0} /\ 2 ^ (n + 1) = 2 * 2 ^ n
<1>1. \A n \in Nat : /\ IsFiniteSet(SUBSET (1 .. n)) /\ Cardinality(SUBSET (1 .. n)) = 2 ^ n
                     /\ 2 ^ n \in Nat \ {0}
  <2> SUFFICES ASSUME NEW n \in Nat
               PROVE  /\ IsFiniteSet(SUBSET (1 .. n)) /\ Cardinality(SUBSET (1 .. n)) = 2 ^ n
                      /\ 2 ^ n \in Nat \ {0}
    OBVIOUS
  <2>1. IsFiniteSet(1 .. n) /\ Cardinality(1 .. n) = n
    BY FS_Interval
  <2>2. IsFiniteSet(SUBSET (1 .. n)) /\ Cardinality(SUBSET (1 .. n)) = 2 ^ n
    BY <2>1, FS_SUBSET
  <2>3. SUBSET (1 .. n) # {}
    OBVIOUS
  <2>4. Cardinality(SUBSET (1 .. n)) \in Nat /\ Cardinality(SUBSET (1 .. n)) # 0
    BY <2>2, <2>3, FS_CardinalityType, FS_EmptySet
  <2> QED BY <2>2, <2>4
<1>2. ASSUME NEW n \in Nat PROVE 2 ^ (n + 1) = 2 * 2 ^ n
  <2> DEFINE A == SUBSET (1 .. n)
             B == {s \in SUBSET (1 .. n + 1) : n + 1 \in s}
             f == [s \in A |-> s \cup {n + 1}]
  <2>1. f \in Bijection(A, B)
    <3>1. \A s \in A : s \cup {n + 1} \in B
      OBVIOUS
    <3>2. \A s, t \in A : s \cup {n + 1} = t \cup {n + 1} => s = t
      <4>1. \A s \in A : n + 1 \notin s
        OBVIOUS
      <4> HIDE DEF A
      <4> QED BY <4>1
    <3>3. \A t \in B : t \ {n + 1} \in A /\ (t \ {n + 1}) \cup {n + 1} = t
      OBVIOUS
    <3> HIDE DEF A, B
    <3>4. f \in [A -> B] /\ \A s \in A : f[s] = s \cup {n + 1}
      BY <3>1
    <3> HIDE DEF f
    <3>5. \A s, t \in A : f[s] = f[t] => s = t
      BY <3>2, <3>4
    <3>6. \A t \in B : \E s \in A : f[s] = t
      BY <3>3, <3>4
    <3> QED BY <3>4, <3>5, <3>6 DEF Bijection, Injection, Surjection, IsInjective
  <2>2. IsFiniteSet(A) /\ Cardinality(A) = 2 ^ n
    BY <1>1
  <2> HIDE DEF f
  <2>3. IsFiniteSet(B) /\ Cardinality(B) = 2 ^ n
    <3> HIDE DEF A, B
    <3> QED BY <2>1, <2>2, FS_Bijection DEF ExistsBijection
  <2>4. A \cup B = SUBSET (1 .. n + 1) /\ A \cap B = {}
    <3>1. \A s \in SUBSET (1 .. n + 1) : n + 1 \notin s => s \in A
      OBVIOUS
    <3>2. \A s \in A : s \in SUBSET (1 .. n + 1) /\ n + 1 \notin s
      OBVIOUS
    <3>3. \A s : s \in B <=> s \in SUBSET (1 .. n + 1) /\ n + 1 \in s
      OBVIOUS
    <3> HIDE DEF A, B
    <3> QED BY <3>1, <3>2, <3>3
  <2>5. Cardinality(A \cup B) = Cardinality(A) + Cardinality(B) - Cardinality(A \cap B)
    <3> HIDE DEF A, B
    <3> QED BY <2>2, <2>3, FS_Union
  <2>6. Cardinality(A \cap B) = 0
    BY <2>4, FS_EmptySet
  <2>7. Cardinality(A \cup B) = 2 ^ (n + 1) /\ 2 ^ n \in Nat
    <3>1. Cardinality(SUBSET (1 .. n + 1)) = 2 ^ (n + 1) /\ 2 ^ n \in Nat
      <4>1. n + 1 \in Nat
        OBVIOUS
      <4> QED BY <1>1, <4>1
    <3> HIDE DEF A, B
    <3> QED BY <2>4, <3>1
  <2> HIDE DEF A, B
  <2> QED BY <2>2, <2>3, <2>5, <2>6, <2>7
<1>3. 2 ^ 0 = 1
  OBVIOUS
<1> QED BY <1>1, <1>2, <1>3

(* The smaller of two numbers is one of them. *)
LEMMA MinOfTwo ==
    ASSUME NEW a \in Int, NEW b \in Int
    PROVE  Min({a, b}) = IF a <= b THEN a ELSE b
<1> DEFINE m == IF a <= b THEN a ELSE b
<1>1. m \in {a, b} /\ \A x \in {a, b} : m <= x
  OBVIOUS
<1>2. \A k \in {a, b} : (\A x \in {a, b} : k <= x) => k = m
  OBVIOUS
<1> QED BY <1>1, <1>2 DEF Min

(* A wait is a number of ticks, at least one. *)
LEMMA WaitsAreTicks ==
    ASSUME NEW n \in Nat \ {0}
    PROVE  /\ Wait(n) \in Nat
           /\ RetryBase * 2 ^ (n - 1) \in Nat
           /\ Wait(n) = IF RetryMax <= RetryBase * 2 ^ (n - 1) THEN RetryMax
                                                               ELSE RetryBase * 2 ^ (n - 1)
<1> DEFINE p == 2 ^ (n - 1)
<1>1. p \in Nat /\ RetryBase \in Nat /\ RetryMax \in Nat
  BY PowersDouble, ConsumerAssumption
<1>2. Wait(n) = Min({RetryMax, RetryBase * p})
  BY DEF Wait
<1> HIDE DEF p
<1>3. RetryBase * p \in Nat
  BY <1>1
<1>4. Wait(n) = IF RetryMax <= RetryBase * p THEN RetryMax ELSE RetryBase * p
  BY <1>1, <1>2, <1>3, MinOfTwo
<1> QED BY <1>1, <1>3, <1>4 DEF p

(* The loop of retryDelay ends with the wait that the comment describes. *)
LEMMA RetryDelayIsWait ==
    ASSUME NEW count \in 1 .. MaxReceives PROVE RetryDelay(count) = Wait(count)
<1> DEFINE Grown(d) == IF d < RetryMax THEN 2 * d ELSE d
           Looped(f, n) == f = [i \in 1 .. n |-> IF i = 1 THEN RetryBase ELSE Grown(f[i - 1])]
           Right(f, i) == /\ f[i] \in Nat /\ f[i] >= RetryBase
                          /\ \/ f[i] = RetryBase * 2 ^ (i - 1)
                             \/ f[i] >= RetryMax /\ RetryBase * 2 ^ (i - 1) >= RetryMax
<1>1. RetryBase \in Nat \ {0} /\ RetryMax \in Nat \ {0} /\ MaxReceives \in Nat \ {0}
  BY ConsumerAssumption
<1>2. \E f : Looped(f, MaxReceives)
  <2> DEFINE Good == {n \in Nat : \E f : Looped(f, n + 1)}
  <2>1. 0 \in Good
    <3> DEFINE f == [i \in 1 .. 1 |-> RetryBase]
    <3>1. \A i \in 1 .. 1 : i = 1 /\ f[i] = RetryBase
      OBVIOUS
    <3>2. Looped(f, 1)
      OBVIOUS
    <3>3. 0 + 1 = 1
      OBVIOUS
    <3> HIDE DEF Looped, f
    <3> QED BY <3>2, <3>3
  <2>2. ASSUME NEW n \in Nat, n \in Good PROVE n + 1 \in Good
    <3> HIDE DEF Grown
    <3>1. PICK f : Looped(f, n + 1)
      BY <2>2
    <3> DEFINE g == [i \in 1 .. n + 2 |-> IF i <= n + 1 THEN f[i] ELSE Grown(f[n + 1])]
    <3>2. \A i \in 1 .. n + 1 : f[i] = IF i = 1 THEN RetryBase ELSE Grown(f[i - 1])
      BY <3>1
    <3>3. \A i \in 1 .. n + 2 : g[i] = IF i = 1 THEN RetryBase ELSE Grown(g[i - 1])
      <4>1. ASSUME NEW i \in 1 .. n + 1
            PROVE  g[i] = IF i = 1 THEN RetryBase ELSE Grown(g[i - 1])
        <5>1. g[i] = f[i] /\ (i # 1 => g[i - 1] = f[i - 1])
          OBVIOUS
        <5> HIDE DEF g
        <5> QED BY <3>2, <5>1
      <4>2. g[n + 2] = Grown(g[n + 1]) /\ n + 2 # 1 /\ n + 2 - 1 = n + 1
        OBVIOUS
      <4>3. \A i \in 1 .. n + 2 : i \in 1 .. n + 1 \/ i = n + 2
        OBVIOUS
      <4> HIDE DEF g
      <4> QED BY <4>1, <4>2, <4>3
    <3>4. g = [i \in 1 .. n + 2 |-> g[i]]
      OBVIOUS
    <3>5. Looped(g, n + 2)
      <4> HIDE DEF g
      <4>1. [i \in 1 .. n + 2 |-> g[i]]
               = [i \in 1 .. n + 2 |-> IF i = 1 THEN RetryBase ELSE Grown(g[i - 1])]
        BY <3>3
      <4> QED BY <3>4, <4>1
    <3>6. n + 2 = (n + 1) + 1
      OBVIOUS
    <3> HIDE DEF Looped, g
    <3> QED BY <3>5, <3>6
  <2>3. MaxReceives - 1 \in Good /\ (MaxReceives - 1) + 1 = MaxReceives
    <3> HIDE DEF Good
    <3> QED BY <1>1, <2>1, <2>2, Ascend
  <2> HIDE DEF Looped
  <2> QED BY <2>3
<1> DEFINE delay == CHOOSE f : Looped(f, MaxReceives)
<1>3. Looped(delay, MaxReceives)
  <2> HIDE DEF Looped
  <2> QED BY <1>2
<1>4. RetryDelay(count) = IF delay[count] \in RetryBase .. RetryMax THEN delay[count]
                                                                    ELSE RetryMax
  BY DEF RetryDelay
<1> HIDE DEF delay
<1>5. \A i \in 1 .. MaxReceives : delay[i] = IF i = 1 THEN RetryBase ELSE Grown(delay[i - 1])
  <2> HIDE DEF Grown
  <2> QED BY <1>3
<1> DEFINE Good == {n \in Nat : n + 1 <= MaxReceives => Right(delay, n + 1)}
<1>6. 0 \in Good
  <2>1. delay[1] = RetryBase /\ RetryBase * 2 ^ 0 = RetryBase
    BY <1>1, <1>5, PowersDouble
  <2>2. (0 + 1) - 1 = 0 /\ 0 + 1 = 1
    OBVIOUS
  <2> QED BY <1>1, <2>1, <2>2
<1>7. ASSUME NEW n \in Nat, n \in Good PROVE n + 1 \in Good
  <2> SUFFICES ASSUME n + 2 <= MaxReceives PROVE Right(delay, n + 2)
    <3>1. (n + 1) + 1 = n + 2
      OBVIOUS
    <3> HIDE DEF Right
    <3> QED BY <3>1
  <2> DEFINE p == 2 ^ n
             q == 2 ^ (n + 1)
             d == delay[n + 1]
             e == delay[n + 2]
  <2>1. /\ d \in Nat /\ d >= RetryBase
        /\ (d = RetryBase * p \/ (d >= RetryMax /\ RetryBase * p >= RetryMax))
    <3>1. n + 1 <= MaxReceives /\ (n + 1) - 1 = n
      BY <1>1
    <3> QED BY <1>7, <3>1
  <2>2. p \in Nat /\ q = 2 * p
    BY PowersDouble
  <2>3. e = IF d < RetryMax THEN 2 * d ELSE d
    <3>1. n + 2 \in 1 .. MaxReceives /\ n + 2 # 1 /\ (n + 2) - 1 = n + 1
      BY <1>1
    <3> QED BY <1>5, <3>1
  <2>4. (n + 2) - 1 = n + 1
    OBVIOUS
  <2>5. /\ e \in Nat /\ e >= RetryBase
        /\ (e = RetryBase * q \/ (e >= RetryMax /\ RetryBase * q >= RetryMax))
    <3> HIDE DEF p, q, d, e
    <3>1. RetryBase * q = 2 * (RetryBase * p) /\ RetryBase * p \in Nat
      BY <1>1, <2>2
    <3> DEFINE b == RetryBase * p
               c == RetryBase * q
    <3>2. b \in Nat /\ c = 2 * b /\ (d = b \/ (d >= RetryMax /\ b >= RetryMax))
      BY <2>1, <3>1
    <3> HIDE DEF b, c
    <3>3. /\ e \in Nat /\ e >= RetryBase
          /\ (e = c \/ (e >= RetryMax /\ c >= RetryMax))
      BY <1>1, <2>1, <2>3, <3>2
    <3> QED BY <3>3 DEF c
  <2> QED BY <2>4, <2>5
<1>8. Right(delay, count)
  <2>1. count - 1 \in Good
    <3>1. count - 1 \in Nat
      OBVIOUS
    <3> HIDE DEF Good
    <3> QED BY <1>6, <1>7, <3>1, Ascend
  <2>2. (count - 1) + 1 = count /\ count <= MaxReceives
    BY <1>1
  <2> HIDE DEF Right
  <2> QED BY <2>1, <2>2
<1>9. /\ RetryBase * 2 ^ (count - 1) \in Nat
      /\ Wait(count) = IF RetryMax <= RetryBase * 2 ^ (count - 1)
                       THEN RetryMax ELSE RetryBase * 2 ^ (count - 1)
  <2>1. count \in Nat \ {0}
    OBVIOUS
  <2> QED BY <2>1, WaitsAreTicks
<1> DEFINE w == RetryBase * 2 ^ (count - 1)
<1>10. /\ w \in Nat /\ Wait(count) = IF RetryMax <= w THEN RetryMax ELSE w
       /\ delay[count] \in Nat /\ delay[count] >= RetryBase
       /\ (delay[count] = w \/ (delay[count] >= RetryMax /\ w >= RetryMax))
  BY <1>8, <1>9
<1> HIDE DEF w
<1> QED BY <1>1, <1>4, <1>10

(* The sum of the waits is computed one by one. *)
LEMMA PatienceAddsUp ==
    /\ Patience(0) = 0
    /\ \A k \in 1 .. MaxReceives : Patience(k) = Patience(k - 1) + Wait(k)
    /\ \A k \in 0 .. MaxReceives : Patience(k) \in Nat
<1> DEFINE Summed(f, n) == f = [i \in 0 .. n |-> IF i = 0 THEN 0 ELSE f[i - 1] + Wait(i)]
<1>1. MaxReceives \in Nat
  BY ConsumerAssumption
<1>2. \E f : Summed(f, MaxReceives)
  <2> DEFINE Good == {n \in Nat : \E f : Summed(f, n)}
  <2>1. 0 \in Good
    <3> DEFINE f == [i \in 0 .. 0 |-> 0]
    <3>1. \A i \in 0 .. 0 : i = 0
      OBVIOUS
    <3>2. Summed(f, 0)
      BY <3>1
    <3> HIDE DEF Summed, f
    <3> QED BY <3>2
  <2>2. ASSUME NEW n \in Nat, n \in Good PROVE n + 1 \in Good
    <3>1. PICK f : Summed(f, n)
      BY <2>2
    <3> DEFINE g == [i \in 0 .. n + 1 |-> IF i <= n THEN f[i] ELSE f[n] + Wait(n + 1)]
    <3>2. \A i \in 0 .. n : f[i] = IF i = 0 THEN 0 ELSE f[i - 1] + Wait(i)
      BY <3>1
    <3>3. \A i \in 0 .. n + 1 : g[i] = IF i = 0 THEN 0 ELSE g[i - 1] + Wait(i)
      <4>1. ASSUME NEW i \in 0 .. n PROVE g[i] = IF i = 0 THEN 0 ELSE g[i - 1] + Wait(i)
        <5>1. g[i] = f[i] /\ (i # 0 => g[i - 1] = f[i - 1])
          OBVIOUS
        <5> HIDE DEF g
        <5> QED BY <3>2, <5>1
      <4>2. g[n + 1] = g[n] + Wait(n + 1) /\ n + 1 # 0 /\ n + 1 - 1 = n
        OBVIOUS
      <4>3. \A i \in 0 .. n + 1 : i \in 0 .. n \/ i = n + 1
        OBVIOUS
      <4> HIDE DEF g
      <4> QED BY <4>1, <4>2, <4>3
    <3>4. g = [i \in 0 .. n + 1 |-> g[i]]
      OBVIOUS
    <3>5. Summed(g, n + 1)
      <4> HIDE DEF g
      <4>1. [i \in 0 .. n + 1 |-> g[i]]
               = [i \in 0 .. n + 1 |-> IF i = 0 THEN 0 ELSE g[i - 1] + Wait(i)]
        BY <3>3
      <4> QED BY <3>4, <4>1
    <3> HIDE DEF Summed, g
    <3> QED BY <3>5
  <2> HIDE DEF Good
  <2>3. MaxReceives \in Good
    BY <1>1, <2>1, <2>2, Ascend
  <2> HIDE DEF Summed
  <2> QED BY <2>3 DEF Good
<1> DEFINE sum == CHOOSE f : Summed(f, MaxReceives)
<1>3. Summed(sum, MaxReceives)
  <2> HIDE DEF Summed
  <2> QED BY <1>2
<1>4. \A k : Patience(k) = sum[k]
  BY DEF Patience
<1> HIDE DEF sum
<1>5. \A i \in 0 .. MaxReceives : sum[i] = IF i = 0 THEN 0 ELSE sum[i - 1] + Wait(i)
  BY <1>3
<1> HIDE DEF Summed
<1> DEFINE Good == {n \in Nat : n <= MaxReceives => sum[n] \in Nat}
<1>6. 0 \in Good
  BY <1>1, <1>5
<1>7. ASSUME NEW n \in Nat, n \in Good PROVE n + 1 \in Good
  <2>1. Wait(n + 1) \in Nat
    BY WaitsAreTicks
  <2>2. n + 1 <= MaxReceives => sum[n + 1] = sum[n] + Wait(n + 1) /\ sum[n] \in Nat
    <3>1. (n + 1) - 1 = n
      OBVIOUS
    <3> QED BY <1>1, <1>5, <1>7, <3>1
  <2> QED BY <2>1, <2>2
<1>8. \A k \in Nat : k \in Good
  <2> HIDE DEF Good
  <2> QED BY <1>6, <1>7, Ascend
<1> QED BY <1>1, <1>4, <1>5, <1>8

(* More receives never wait for less. *)
LEMMA PatienceGrows ==
    ASSUME NEW j \in 0 .. MaxReceives, NEW k \in 0 .. MaxReceives, j <= k
    PROVE  Patience(j) <= Patience(k)
<1> DEFINE Good == {n \in Nat : n <= MaxReceives /\ j <= n => Patience(j) <= Patience(n)}
<1>1. MaxReceives \in Nat
  BY ConsumerAssumption
<1>2. 0 \in Good
  <2>1. j <= 0 => j = 0
    OBVIOUS
  <2> QED BY <2>1, PatienceAddsUp
<1>3. ASSUME NEW n \in Nat, n \in Good PROVE n + 1 \in Good
  <2> SUFFICES ASSUME n + 1 <= MaxReceives, j <= n + 1
               PROVE  Patience(j) <= Patience(n + 1)
    OBVIOUS
  <2>1. CASE j = n + 1
    BY <2>1, PatienceAddsUp
  <2>2. CASE j <= n
    <3>1. Patience(j) <= Patience(n)
      BY <1>1, <1>3, <2>2
    <3>2. Patience(n + 1) = Patience(n) + Wait(n + 1)
      <4>1. n + 1 \in 1 .. MaxReceives /\ (n + 1) - 1 = n
        BY <1>1
      <4> QED BY <4>1, PatienceAddsUp
    <3>3. Patience(j) \in Nat /\ Patience(n) \in Nat
      <4>1. n \in 0 .. MaxReceives
        BY <1>1
      <4> QED BY <4>1, PatienceAddsUp
    <3>4. Wait(n + 1) \in Nat
      BY WaitsAreTicks
    <3> QED BY <3>1, <3>2, <3>3, <3>4
  <2> QED BY <2>1, <2>2
<1>4. k \in Good
  <2> HIDE DEF Good
  <2> QED BY <1>2, <1>3, Ascend
<1> QED BY <1>4

-----------------------------------------------------------------------------
(* Outages.  While no call fails, a message that its handler would accept  *)
(* and that was received before either is in the hands of a consumer, or   *)
(* has seen the outage last as long as its waits.                          *)

AtWork == {"handle", "delete", "postpone"}

(* Consumer c has message m in its batch, under the latest receipt; before *)
(* it calls the handler, and when it is to postpone the message, the       *)
(* outage has lasted as long as the waits up to that receipt.              *)
Holds(c, m) ==
    pc[c] \in AtWork /\ m \in job[c].batch /\ where[m] # "deleted" =>
        /\ where[m] = "queue" /\ hidden[m] > 0
        /\ job[c].receipt[m] = receives[m] /\ receives[m] > 0
        /\ m \notin Bad /\ pc[c] = "handle" /\ ~dependencyUp =>
              downTime >= Patience(receives[m] - 1)
        /\ m \notin Bad /\ pc[c] # "handle" /\ m \in job[c].later =>
              outages = 0 /\ downTime >= Patience(receives[m] - 1)

(* Consumer c will still confirm message m, in one way or the other. *)
Tends(c, m) ==
    /\ pc[c] \in AtWork /\ m \in job[c].batch
    /\ \/ pc[c] = "handle"
       \/ pc[c] = "delete" /\ m \in job[c].done
       \/ pc[c] # "handle" /\ m \in job[c].later

(* No consumer has message m, and when the queue gives it out again its    *)
(* next wait is over as well, unless the outage ended meanwhile.           *)
Waited(m) ==
    /\ outages = 0
    /\ downTime >= Patience(receives[m] - 1)
    /\ ~dependencyUp => \/ downTime = MaxDown
                        \/ downTime + hidden[m] >= Patience(receives[m])

Lasts(m) ==
    where[m] # "deleted" =>
        /\ where[m] = "dlq" => receives[m] = MaxReceives
        /\ outages > 0 => receives[m] <= 1
        /\ receives[m] > 0 => (\E c \in Consumer : Tends(c, m)) \/ Waited(m)

Outlasting ==
    faults = MaxFaults =>
        /\ outages > 0 => dependencyUp
        /\ \A c \in Consumer :
              /\ ~cancelled[c]
              /\ pc[c] \in AtWork => job[c].done \cup job[c].later \subseteq job[c].batch
              /\ \A m \in Message : Holds(c, m)
        /\ \A m \in Message \ Bad : Lasts(m)

(* What a consumer holds stays what it is, whatever the others do, as long *)
(* as the message is not given out again and the outage goes on.           *)
LEMMA HoldsOn ==
    ASSUME TypeOK, NEW c \in Consumer, NEW m \in Message, Holds(c, m),
           pc'[c] = pc[c], job'[c] = job[c],
           where'[m] = where[m] \/ where'[m] = "deleted",
           receives'[m] = receives[m],
           hidden[m] > 0 => hidden'[m] > 0,
           dependencyUp => dependencyUp',
           outages' = outages, downTime' \in Nat, downTime' >= downTime
    PROVE  Holds(c, m)'
<1>1. /\ receives[m] \in 0 .. MaxReceives /\ downTime \in Nat /\ MaxReceives \in Nat
      /\ where[m] = "deleted" => where'[m] = "deleted"
  BY ConsumerAssumption DEF TypeOK
<1>2. receives[m] > 0 => Patience(receives[m] - 1) \in Nat
  BY <1>1, PatienceAddsUp
<1> QED BY <1>1, <1>2 DEF Holds

(* So does a message that is left alone. *)
LEMMA LastsOn ==
    ASSUME TypeOK, NEW m \in Message, Lasts(m),
           where'[m] = where[m] \/ where'[m] = "deleted",
           receives'[m] = receives[m], hidden'[m] = hidden[m],
           UNCHANGED <<dependencyUp, outages, downTime>>,
           \A c \in Consumer : Tends(c, m) /\ where'[m] # "deleted" =>
                                   Tends(c, m)' \/ Waited(m)
    PROVE  Lasts(m)'
<1>1. Waited(m) => Waited(m)'
  BY DEF Waited
<1> QED BY <1>1 DEF Lasts

LEMMA InitLasts == Init => Outlasting
BY ConsumerAssumption DEF Init, Outlasting, Lasts, Holds, AtWork

(* A step keeps the account of every message that was not given up: what a *)
(* consumer lets go of has waited, and what it takes up waits no longer.   *)
LEMMA StepKeepsOutlasting ==
    ASSUME MaxOutages <= 1, Patience(MaxReceives - 1) <= MaxDown,
           IInv, [Next]_vars, Outlasting
    PROVE  Outlasting'
<1> SUFFICES ASSUME faults' = MaxFaults
             PROVE  /\ outages' > 0 => dependencyUp'
                    /\ \A c \in Consumer :
                          /\ ~cancelled'[c]
                          /\ pc'[c] \in AtWork =>
                                job'[c].done \cup job'[c].later \subseteq job'[c].batch
                          /\ \A m \in Message : Holds(c, m)'
                    /\ \A m \in Message \ Bad : Lasts(m)'
  BY DEF Outlasting
<1> DEFINE Kept == /\ outages' > 0 => dependencyUp'
                   /\ \A c \in Consumer :
                          /\ ~cancelled'[c]
                          /\ pc'[c] \in AtWork =>
                                job'[c].done \cup job'[c].later \subseteq job'[c].batch
                          /\ \A m \in Message : Holds(c, m)'
                   /\ \A m \in Message \ Bad : Lasts(m)'
<1>1. ~Fault
  BY ConsumerAssumption DEF Fault, IInv, TypeOK
<1>2. faults = MaxFaults
  <2>1. ASSUME NEW c \in Consumer, Handle(c) PROVE UNCHANGED faults
    BY <1>1, <2>1, HandleSorts DEF Sorted
  <2> QED BY <1>1, <2>1 DEF Next, Step, vars, Start, Return, BackoffElapses, ReceiveMessage,
     ReceiveNothing, ReceiveFails, Delete, CallFails, Postpone, SkipPostpone, Cancel, Crash,
     Redrive, Tick, DependencyGoesDown, DependencyComesUp
<1>3. /\ outages > 0 => dependencyUp
      /\ \A c \in Consumer :
            /\ ~cancelled[c]
            /\ pc[c] \in AtWork => job[c].done \cup job[c].later \subseteq job[c].batch
            /\ \A m \in Message : Holds(c, m)
      /\ \A m \in Message \ Bad : Lasts(m)
  BY <1>2 DEF Outlasting
<1>4. IInv'
  BY StepKeepsIInv
<1>5. TypeOK /\ TypeOK'
  BY <1>4 DEF IInv
<1>6. /\ MaxReceives \in Nat \ {0} /\ MaxOutages \in Nat /\ MaxDown \in Nat
      /\ VisibilityTimeout \in Nat \ {0}
      /\ downTime \in 0 .. MaxDown /\ outages \in 0 .. MaxOutages
      /\ downTime' \in 0 .. MaxDown
      /\ \A m \in Message : /\ receives[m] \in 0 .. MaxReceives
                            /\ hidden[m] \in Nat /\ hidden'[m] \in Nat
  BY <1>5, ConsumerAssumption DEF TypeOK
<1>7. \A k \in 0 .. MaxReceives : Patience(k) \in Nat
  BY PatienceAddsUp
<1> HIDE DEF Kept
<1>8. ASSUME NEW c \in Consumer, UNCHANGED <<receives, dependency, downTime>>,
             \A d \in Consumer \ {c} : pc'[d] = pc[d] /\ job'[d] = job[d],
             \A d \in Consumer : ~cancelled'[d],
             \A m \in Message : /\ where'[m] = where[m] \/ where'[m] = "deleted"
                                /\ hidden[m] > 0 => hidden'[m] > 0,
             pc'[c] \in AtWork => job'[c].done \cup job'[c].later \subseteq job'[c].batch,
             \A m \in Message : Holds(c, m)',
             \A m \in Message \ Bad : Lasts(m)'
      PROVE  Kept
  <2>1. ASSUME NEW d \in Consumer \ {c}, NEW m \in Message PROVE Holds(d, m)'
    <3>1. downTime' \in Nat /\ downTime' >= downTime
      BY <1>6, <1>8
    <3> QED BY <1>3, <1>5, <1>8, <3>1, HoldsOn DEF dependency
  <2> QED BY <1>3, <1>8, <2>1 DEF Kept, dependency
<1>9. ASSUME NEW c \in Consumer,
             Start(c) \/ Return(c) \/ BackoffElapses(c) \/ SkipPostpone(c)
      PROVE  Kept
  <2>1. /\ UNCHANGED <<queue, dependency, faults, history>>
        /\ pc[c] \notin AtWork /\ pc'[c] \notin AtWork
        /\ \A d \in Consumer \ {c} : pc'[d] = pc[d] /\ job'[d] = job[d]
        /\ \A d \in Consumer : ~cancelled'[d]
    BY <1>3, <1>5, <1>9 DEF Start, Return, BackoffElapses, SkipPostpone, Goto, AtWork, TypeOK
  <2>2. \A m \in Message : Holds(c, m)'
    BY <2>1 DEF Holds
  <2>3. ASSUME NEW m \in Message \ Bad PROVE Lasts(m)'
    <3>1. \A d \in Consumer : Tends(d, m) => Tends(d, m)'
      BY <2>1 DEF Tends
    <3> QED BY <1>3, <1>5, <2>1, <3>1, LastsOn DEF queue, dependency, history
  <2> QED BY <1>8, <2>1, <2>2, <2>3 DEF queue, history
<1>10. ASSUME NEW c \in Consumer, NEW S \in SUBSET Message, ReceiveMessage(c, S) PROVE Kept
  <2>1. /\ pc[c] = "receive" /\ GiveOut(S)
        /\ job' = [job EXCEPT ![c] = [NoBatch EXCEPT !.batch = S, !.receipt = receives']]
        /\ pc' = [pc EXCEPT ![c] = "handle"]
        /\ UNCHANGED <<cancelled, dependency, faults, history>>
    BY <1>10 DEF ReceiveMessage, Goto
  <2>2. /\ \A d \in Consumer \ {c} : pc'[d] = pc[d] /\ job'[d] = job[d]
        /\ pc'[c] = "handle" /\ job'[c].batch = S /\ job'[c].receipt = receives'
        /\ job'[c].done = {} /\ job'[c].later = {}
    BY <1>5, <2>1 DEF TypeOK, NoBatch
  <2>3. ASSUME NEW m \in S
        PROVE  /\ where[m] = "queue" /\ where'[m] = "queue"
               /\ hidden[m] = 0 /\ hidden'[m] = VisibilityTimeout
               /\ receives[m] < MaxReceives /\ receives'[m] = receives[m] + 1
    BY <2>1 DEF GiveOut, Visible
  <2>4. ASSUME NEW m \in Message \ S
        PROVE  UNCHANGED <<where[m], hidden[m], receives[m]>>
    BY <2>1 DEF GiveOut
  <2>5. ASSUME NEW m \in S, NEW d \in Consumer
        PROVE  ~(pc[d] \in AtWork /\ m \in job[d].batch)
    BY <1>3, <2>3 DEF Holds
  <2>6. ASSUME NEW m \in S \ Bad
        PROVE  /\ outages > 0 => receives[m] = 0
               /\ ~dependencyUp => downTime >= Patience(receives[m])
    <3>1. Lasts(m) /\ where[m] = "queue" /\ \A d \in Consumer : ~Tends(d, m)
      BY <1>3, <2>3, <2>5 DEF Tends
    <3>2. receives[m] > 0 => Waited(m)
      BY <3>1 DEF Lasts
    <3>3. Patience(receives[m]) <= Patience(MaxReceives - 1)
      <4>1. receives[m] \in 0 .. MaxReceives - 1 /\ MaxReceives - 1 \in 0 .. MaxReceives
        BY <1>6, <2>3
      <4> QED BY <1>6, <4>1, PatienceGrows
    <3>4. /\ Patience(receives[m]) \in Nat /\ Patience(MaxReceives - 1) \in Nat
          /\ receives[m] = 0 => Patience(receives[m]) = 0
      BY <1>6, <1>7, PatienceAddsUp
    <3>5. CASE receives[m] = 0
      BY <1>6, <3>4, <3>5
    <3>6. CASE receives[m] > 0
      BY <1>6, <2>3, <3>2, <3>3, <3>4, <3>6 DEF Waited
    <3> QED BY <1>6, <3>5, <3>6
  <2>7. ASSUME NEW m \in Message PROVE Holds(c, m)'
    <3>1. CASE m \in S
      <4>1. receives'[m] - 1 = receives[m] /\ receives'[m] > 0 /\ hidden'[m] > 0
        BY <1>6, <2>3, <3>1
      <4> QED BY <2>1, <2>2, <2>3, <2>6, <3>1, <4>1 DEF Holds, dependency, history
    <3> QED BY <2>2, <3>1 DEF Holds
  <2>8. ASSUME NEW d \in Consumer \ {c}, NEW m \in Message PROVE Holds(d, m)'
    <3>1. CASE m \in S
      BY <2>2, <2>5, <3>1 DEF Holds
    <3>2. CASE m \notin S
      <4>1. downTime' \in Nat /\ downTime' >= downTime
        BY <1>6, <2>1 DEF history
      <4> QED BY <1>3, <1>5, <2>1, <2>2, <2>4, <3>2, <4>1, HoldsOn DEF dependency
    <3> QED BY <3>1, <3>2
  <2>9. ASSUME NEW m \in Message \ Bad PROVE Lasts(m)'
    <3>1. CASE m \in S
      <4>1. Tends(c, m)'
        BY <2>2, <3>1 DEF Tends, AtWork
      <4>2. outages' > 0 => receives'[m] <= 1
        BY <2>1, <2>3, <2>6, <3>1 DEF dependency
      <4> QED BY <2>3, <3>1, <4>1, <4>2 DEF Lasts
    <3>2. CASE m \notin S
      <4>1. \A d \in Consumer : Tends(d, m) => Tends(d, m)'
        BY <2>1, <2>2 DEF Tends, AtWork
      <4> QED BY <1>3, <1>5, <2>1, <2>4, <3>2, <4>1, LastsOn DEF dependency, history
    <3> QED BY <3>1, <3>2
  <2> QED BY <1>3, <2>1, <2>2, <2>7, <2>8, <2>9 DEF Kept, dependency
<1>11. ASSUME NEW c \in Consumer, Handle(c) PROVE Kept
  <2>1. PICK failing \in FailingInPassing(c, job[c].batch \ Bad) : Sorted(c, {}, {}, failing)
    <3>1. PICK missing \in SUBSET job[c].batch, bare \in SUBSET job[c].batch :
            \E failing \in FailingInPassing(c, job[c].batch \ (missing \cup Bad)) :
              Sorted(c, missing, bare, failing)
      BY <1>11, HandleSorts
    <3>2. missing = {} /\ bare = {}
      BY <1>1, <3>1 DEF Sorted
    <3>3. missing \cup Bad = Bad
      BY <3>2
    <3> QED BY <3>1, <3>2, <3>3
  <2> DEFINE good == job[c].batch \ Bad
             ok == job[c].batch \ ({} \cup Bad \cup failing)
             j == [job[c] EXCEPT !.done = ok \ {}, !.later = ({} \cup failing) \ {},
                                 !.unanswered = {}]
  <2>2. failing = IF dependencyUp THEN {} ELSE good
    BY <1>3, <2>1 DEF FailingInPassing
  <2>3. /\ pc[c] = "handle"
        /\ job' = [job EXCEPT ![c] = j]
        /\ pc' = [pc EXCEPT ![c] = AfterHandle(j)]
        /\ UNCHANGED <<queue, cancelled, dependency, downTime>>
    BY <1>11, <2>1 DEF Sorted, Handle
  <2>4. /\ j.batch = job[c].batch /\ j.receipt = job[c].receipt
        /\ j.done = good \ failing /\ j.later = failing
    BY <1>5 DEF TypeOK, Batches
  <2> HIDE DEF good, j
  <2>5. /\ \A d \in Consumer \ {c} : pc'[d] = pc[d] /\ job'[d] = job[d]
        /\ pc'[c] = AfterHandle(j) /\ job'[c] = j
    BY <1>5, <2>3 DEF TypeOK
  <2>6. /\ good = {} => pc'[c] = "receive"
        /\ good # {} /\ dependencyUp => pc'[c] = "delete"
        /\ good # {} /\ ~dependencyUp => pc'[c] = "postpone"
    BY <2>2, <2>4, <2>5 DEF AfterHandle, AfterDelete
  <2>7. ASSUME NEW m \in Message PROVE Holds(c, m)'
    <3>1. Holds(c, m) /\ (outages > 0 => dependencyUp) /\ outages \in Nat
      BY <1>3, <1>6
    <3>2. pc'[c] # "handle" /\ job'[c].batch = job[c].batch /\ job'[c].receipt = job[c].receipt
      BY <2>4, <2>5, <2>6
    <3>3. m \in job'[c].later => ~dependencyUp
      BY <2>2, <2>4, <2>5
    <3> QED BY <2>3, <3>1, <3>2, <3>3 DEF Holds, AtWork, queue, dependency
  <2>8. ASSUME NEW m \in Message \ Bad PROVE Lasts(m)'
    <3>1. Tends(c, m) => Tends(c, m)'
      <4>1. m \in job[c].batch => m \in good
        BY DEF good
      <4> QED BY <2>2, <2>4, <2>5, <2>6, <4>1 DEF Tends, AtWork
    <3>2. \A d \in Consumer \ {c} : Tends(d, m) => Tends(d, m)'
      BY <2>5 DEF Tends
    <3> QED BY <1>3, <1>5, <2>3, <3>1, <3>2, LastsOn DEF queue, dependency
  <2>9. job'[c].done \cup job'[c].later \subseteq job'[c].batch
    BY <2>2, <2>4, <2>5 DEF good
  <2> QED BY <1>3, <1>8, <2>3, <2>5, <2>7, <2>8, <2>9 DEF queue
<1>12. ASSUME NEW c \in Consumer, Delete(c) PROVE Kept
  <2>1. PICK deleted \in SUBSET job[c].done :
          /\ pc[c] = "delete"
          /\ IF job[c].done \cap Current(c) \subseteq deleted THEN UNCHANGED faults
                                                              ELSE CallFails(c)
          /\ where' = [x \in Message |-> IF x \in deleted /\ where[x] = "queue"
                                         THEN "deleted" ELSE where[x]]
          /\ pc' = [pc EXCEPT ![c] = AfterDelete(job[c])]
          /\ UNCHANGED <<hidden, receives, job, cancelled, dependency, history>>
    BY <1>12 DEF Delete, Goto
  <2>2. job[c].done \cap Current(c) \subseteq deleted
    BY <1>1, <1>3, <2>1 DEF CallFails
  <2>3. /\ \A d \in Consumer \ {c} : pc'[d] = pc[d] /\ job'[d] = job[d]
        /\ pc'[c] = (IF job[c].later # {} THEN "postpone" ELSE "receive")
        /\ \A x \in Message : where'[x] = where[x] \/ where'[x] = "deleted"
    BY <1>5, <2>1 DEF AfterDelete, TypeOK
  <2>4. ASSUME NEW m \in Message PROVE Holds(c, m)'
    BY <1>3, <1>5, <2>1, <2>3 DEF Holds, AtWork, dependency, history, TypeOK
  <2>5. ASSUME NEW m \in Message \ Bad PROVE Lasts(m)'
    <3>1. Tends(c, m) /\ where'[m] # "deleted" => Tends(c, m)'
      <4>1. CASE m \in job[c].done
        <5>1. pc[c] \in AtWork /\ m \in job[c].batch
          BY <1>3, <2>1, <4>1 DEF AtWork
        <5>2. Holds(c, m)
          BY <1>3
        <5>3. where[m] # "deleted" => m \in Current(c) /\ where[m] = "queue"
          BY <5>1, <5>2 DEF Holds, Current
        <5>4. where[m] = "deleted" => where'[m] = "deleted"
          BY <2>1
        <5> QED BY <2>1, <2>2, <4>1, <5>3, <5>4
      <4>2. CASE m \notin job[c].done
        BY <2>1, <2>3, <4>2 DEF Tends, AtWork
      <4> QED BY <4>1, <4>2
    <3>2. \A d \in Consumer \ {c} : Tends(d, m) => Tends(d, m)'
      BY <2>3 DEF Tends
    <3> QED BY <1>3, <1>5, <2>1, <2>3, <3>1, <3>2, LastsOn DEF dependency, history
  <2>6. pc[c] \in AtWork
    BY <2>1 DEF AtWork
  <2> QED BY <1>3, <1>8, <2>1, <2>3, <2>4, <2>5, <2>6 DEF history
<1>13. ASSUME NEW c \in Consumer, Postpone(c) PROVE Kept
  <2> DEFINE out == {m \in job[c].later : where[m] = "queue" /\ hidden[m] > 0}
  <2>1. PICK moved \in SUBSET out :
          /\ pc[c] = "postpone"
          /\ IF out \cap Current(c) \subseteq moved THEN UNCHANGED faults ELSE Fault
          /\ hidden' = [x \in Message |->
                          IF x \in moved THEN RetryDelay(job[c].receipt[x]) ELSE hidden[x]]
          /\ pc' = [pc EXCEPT ![c] = "receive"]
          /\ UNCHANGED <<where, receives, job, cancelled, dependency, history>>
    BY <1>13 DEF Postpone, Goto
  <2>2. out \cap Current(c) \subseteq moved
    BY <1>1, <2>1
  <2>3. /\ \A d \in Consumer \ {c} : pc'[d] = pc[d] /\ job'[d] = job[d]
        /\ pc'[c] = "receive"
    BY <1>5, <2>1 DEF TypeOK
  <2>4. \A m \in Message : Holds(c, m)'
    BY <2>3 DEF Holds, AtWork
  <2>5. \A m \in Message : hidden[m] > 0 => hidden'[m] > 0
    BY <2>1, RetryDelayIsPositive
  <2>6. ASSUME NEW m \in Message \ Bad, m \in job[c].later, where[m] # "deleted"
        PROVE  Waited(m)'
    <3>1. /\ where[m] = "queue" /\ hidden[m] > 0 /\ m \in Current(c)
          /\ job[c].receipt[m] = receives[m] /\ receives[m] > 0
          /\ outages = 0 /\ downTime >= Patience(receives[m] - 1)
      <4>1. pc[c] \in AtWork /\ pc[c] # "handle" /\ m \in job[c].batch
        BY <1>3, <2>1, <2>6 DEF AtWork
      <4> QED BY <1>3, <2>6, <4>1 DEF Holds, Current
    <3>2. m \in moved
      BY <2>2, <2>6, <3>1
    <3>3. receives[m] \in 1 .. MaxReceives
      BY <1>6, <3>1
    <3>4. hidden'[m] = Wait(receives[m])
      BY <2>1, <3>1, <3>2, <3>3, RetryDelayIsWait
    <3>5. /\ Patience(receives[m]) = Patience(receives[m] - 1) + Wait(receives[m])
          /\ Patience(receives[m] - 1) \in Nat /\ Wait(receives[m]) \in Nat
      BY <1>6, <1>7, <3>3, PatienceAddsUp, WaitsAreTicks
    <3>6. downTime + hidden'[m] >= Patience(receives[m])
      BY <1>6, <3>1, <3>4, <3>5
    <3> QED BY <2>1, <3>1, <3>6 DEF Waited, dependency, history
  <2>7. ASSUME NEW m \in Message \ Bad PROVE Lasts(m)'
    <3>1. CASE m \in job[c].later /\ where[m] # "deleted"
      BY <1>3, <2>1, <2>6, <3>1 DEF Lasts, dependency
    <3>2. CASE m \notin job[c].later \/ where[m] = "deleted"
      <4>1. hidden'[m] = hidden[m]
        BY <2>1, <3>2
      <4>2. \A d \in Consumer \ {c} : Tends(d, m) => Tends(d, m)'
        BY <2>3 DEF Tends
      <4>3. Tends(c, m) => where'[m] = "deleted"
        BY <2>1, <3>2 DEF Tends
      <4> QED BY <1>3, <1>5, <2>1, <4>1, <4>2, <4>3, LastsOn DEF dependency, history
    <3> QED BY <3>1, <3>2
  <2>8. pc'[c] \notin AtWork
    BY <2>3 DEF AtWork
  <2> QED BY <1>3, <1>8, <2>1, <2>3, <2>4, <2>5, <2>7, <2>8 DEF history
<1>14. ASSUME Tick PROVE Kept
  <2>1. /\ hidden' = [m \in Message |-> IF where[m] = "queue" /\ hidden[m] > 0
                                        THEN hidden[m] - 1 ELSE hidden[m]]
        /\ downTime' = IF ~dependencyUp /\ downTime < MaxDown THEN downTime + 1 ELSE downTime
        /\ UNCHANGED <<where, receives, consumers, dependency, applied>>
    BY <1>14 DEF Tick
  <2>2. \A m \in Held : hidden[m] # 1
    BY <1>1, <1>14 DEF Tick
  <2>3. ASSUME NEW c \in Consumer, NEW m \in Message PROVE Holds(c, m)'
    <3>1. CASE pc[c] \in AtWork /\ m \in job[c].batch /\ where[m] # "deleted"
      <4>1. m \in Current(c) /\ hidden[m] > 0
        BY <1>3, <3>1 DEF Holds, Current
      <4>2. m \in Held
        BY <3>1, <4>1 DEF Held, AtWork
      <4>3. hidden'[m] > 0
        BY <1>6, <2>1, <2>2, <4>1, <4>2
      <4>4. downTime' \in Nat /\ downTime' >= downTime
        BY <1>6, <2>1
      <4> QED BY <1>3, <1>5, <2>1, <4>3, <4>4, HoldsOn DEF consumers, dependency
    <3>2. CASE ~(pc[c] \in AtWork /\ m \in job[c].batch /\ where[m] # "deleted")
      BY <2>1, <3>2 DEF Holds, consumers
    <3> QED BY <3>1, <3>2
  <2>4. ASSUME NEW m \in Message \ Bad PROVE Lasts(m)'
    <3>1. Lasts(m) /\ receives'[m] = receives[m] /\ where'[m] = where[m]
      BY <1>3, <2>1
    <3>2. ASSUME NEW c \in Consumer, Tends(c, m) PROVE Tends(c, m)'
      BY <2>1, <3>2 DEF Tends, consumers
    <3>3. ASSUME receives[m] > 0, Waited(m) PROVE Waited(m)'
      <4>1. downTime' >= downTime
        BY <1>6, <2>1
      <4>2. Patience(receives[m]) \in Nat /\ Patience(receives[m] - 1) \in Nat
        BY <1>6, <1>7, <3>3
      <4>3. /\ outages = 0 /\ outages' = 0 /\ dependencyUp' = dependencyUp
            /\ downTime' >= Patience(receives[m] - 1)
        BY <1>6, <2>1, <3>3, <4>1, <4>2 DEF Waited, dependency
      <4>4. ASSUME ~dependencyUp
            PROVE  downTime' = MaxDown \/ downTime' + hidden'[m] >= Patience(receives[m])
        <5>1. downTime = MaxDown \/ downTime + hidden[m] >= Patience(receives[m])
          BY <3>3, <4>4 DEF Waited
        <5>2. CASE downTime = MaxDown
          BY <1>6, <2>1, <5>2
        <5>3. CASE downTime # MaxDown
          <6>1. downTime' = downTime + 1 /\ hidden'[m] >= hidden[m] - 1
            BY <1>6, <2>1, <4>4, <5>3
          <6> QED BY <1>6, <4>2, <5>1, <5>3, <6>1
        <5> QED BY <5>2, <5>3
      <4> QED BY <3>1, <4>3, <4>4 DEF Waited
    <3> QED BY <2>1, <3>1, <3>2, <3>3 DEF Lasts, dependency
  <2> QED BY <1>3, <2>1, <2>3, <2>4 DEF Kept, consumers, dependency
<1>15. ASSUME NEW x \in Message, Redrive(x) PROVE Kept
  <2>1. /\ where[x] = "queue" /\ hidden[x] = 0 /\ receives[x] = MaxReceives
        /\ where'[x] = "dlq"
        /\ \A m \in Message \ {x} : where'[m] = where[m]
        /\ UNCHANGED <<hidden, receives, consumers, dependency, faults, history>>
    BY <1>5, <1>15 DEF Redrive, TypeOK
  <2>2. \A c \in Consumer : ~(pc[c] \in AtWork /\ x \in job[c].batch)
    BY <1>3, <2>1 DEF Holds
  <2>3. ASSUME NEW c \in Consumer, NEW m \in Message PROVE Holds(c, m)'
    <3>1. CASE m = x
      BY <2>1, <2>2, <3>1 DEF Holds, consumers
    <3>2. CASE m # x
      <4>1. downTime' \in Nat /\ downTime' >= downTime
        BY <1>6, <2>1 DEF history
      <4> QED BY <1>3, <1>5, <2>1, <3>2, <4>1, HoldsOn DEF consumers, dependency
    <3> QED BY <3>1, <3>2
  <2>4. ASSUME NEW m \in Message \ Bad PROVE Lasts(m)'
    <3>1. \A c \in Consumer : Tends(c, m) => Tends(c, m)'
      BY <2>1 DEF Tends, consumers
    <3>2. Waited(m) => Waited(m)'
      BY <2>1 DEF Waited, dependency, history
    <3> QED BY <1>3, <2>1, <3>1, <3>2 DEF Lasts, dependency
  <2> QED BY <1>3, <2>1, <2>3, <2>4 DEF Kept, consumers, dependency
<1>16. ASSUME DependencyGoesDown PROVE Kept
  <2>1. /\ outages = 1 /\ outages' = 0 /\ ~dependencyUp'
        /\ UNCHANGED <<queue, consumers, faults, history>>
    BY <1>6, <1>16 DEF DependencyGoesDown
  <2>2. ASSUME NEW m \in Message \ Bad, where[m] # "deleted"
        PROVE  /\ receives[m] <= 1 /\ ~Waited(m)
               /\ receives[m] > 0 => Patience(receives[m] - 1) = 0
    <3>1. receives[m] <= 1 /\ ~Waited(m)
      BY <1>3, <2>1, <2>2 DEF Lasts, Waited
    <3>2. receives[m] > 0 => receives[m] - 1 = 0
      BY <1>6, <3>1
    <3> QED BY <3>1, <3>2, PatienceAddsUp
  <2>3. ASSUME NEW c \in Consumer, NEW m \in Message PROVE Holds(c, m)'
    <3>1. Holds(c, m) /\ downTime >= 0
      BY <1>3, <1>6
    <3> QED BY <2>1, <2>2, <3>1 DEF Holds, queue, consumers, history
  <2>4. ASSUME NEW m \in Message \ Bad PROVE Lasts(m)'
    <3>1. \A c \in Consumer : Tends(c, m) => Tends(c, m)'
      BY <2>1 DEF Tends, consumers
    <3> QED BY <1>3, <2>1, <2>2, <3>1 DEF Lasts, queue
  <2> QED BY <1>3, <2>1, <2>3, <2>4 DEF Kept, consumers
<1>17. ASSUME DependencyComesUp PROVE Kept
  <2>1. dependencyUp' /\ UNCHANGED <<queue, consumers, outages, faults, history>>
    BY <1>17 DEF DependencyComesUp
  <2>2. ASSUME NEW c \in Consumer, NEW m \in Message PROVE Holds(c, m)'
    BY <1>3, <2>1 DEF Holds, queue, consumers, history
  <2>3. ASSUME NEW m \in Message \ Bad PROVE Lasts(m)'
    <3>1. \A c \in Consumer : Tends(c, m) => Tends(c, m)'
      BY <2>1 DEF Tends, consumers
    <3>2. Waited(m) => Waited(m)'
      BY <2>1 DEF Waited, queue, history
    <3> QED BY <1>3, <2>1, <3>1, <3>2 DEF Lasts, queue
  <2> QED BY <1>3, <2>1, <2>2, <2>3 DEF Kept, consumers
<1>18. ASSUME UNCHANGED vars \/ \E c \in Consumer : ReceiveNothing(c) PROVE Kept
  <2>1. UNCHANGED <<where, hidden, receives, pc, job, cancelled, dependencyUp, outages, downTime>>
    BY <1>18 DEF ReceiveNothing, vars, queue, consumers, dependency, history
  <2>2. ASSUME NEW c \in Consumer, NEW m \in Message PROVE Holds(c, m)'
    BY <1>3, <2>1 DEF Holds
  <2>3. ASSUME NEW m \in Message \ Bad PROVE Lasts(m)'
    BY <1>3, <2>1 DEF Lasts, Tends, Waited
  <2> QED BY <1>3, <2>1, <2>2, <2>3 DEF Kept
<1>19. \A c \in Consumer : ~ReceiveFails(c) /\ ~Cancel(c) /\ ~Crash(c)
  BY <1>1 DEF ReceiveFails, Cancel, Crash
<1>20. ASSUME NEW c \in Consumer, Step(c) PROVE Kept
  BY <1>9, <1>10, <1>11, <1>12, <1>13, <1>18, <1>19, <1>20 DEF Step
<1>21. Kept
  BY <1>14, <1>15, <1>16, <1>17, <1>18, <1>19, <1>20 DEF Next
<1> QED BY <1>21 DEF Kept

LEMMA LastingIsOutlasted ==
    ASSUME IInv, Outlasting PROVE OutageIsOutlasted
<1> SUFFICES ASSUME NEW m \in Message \ Bad, where[m] = "dlq", faults = MaxFaults
             PROVE  downTime >= Patience(MaxReceives - 1)
  BY DEF OutageIsOutlasted
<1>1. receives[m] = MaxReceives /\ receives[m] > 0
  BY ConsumerAssumption DEF Outlasting, Lasts
<1>2. \A c \in Consumer : ~Tends(c, m)
  BY DEF Outlasting, Holds, Tends
<1> QED BY <1>1, <1>2 DEF Outlasting, Lasts, Waited

(* A message its handler would accept goes to the dead-letter queue only   *)
(* after an outage as long as all the waits between its deliveries, for    *)
(* any consumers, messages, waits and number of receives, as long as       *)
(* nothing else fails (postpone, retryDelay).  The outages are one, since  *)
(* two short ones may each take a delivery and last no wait, and downTime  *)
(* counts as far as the waits, since its bound is not the code's.          *)
THEOREM OutagesAreOutlasted ==
    ASSUME MaxOutages <= 1, Patience(MaxReceives - 1) <= MaxDown
    PROVE  Spec => []OutageIsOutlasted
<1>1. IInv /\ Outlasting /\ [Next]_vars => Outlasting'
  BY StepKeepsOutlasting
<1>2. IInv /\ Outlasting => OutageIsOutlasted
  BY LastingIsOutlasted
<1>3. Init => Outlasting
  BY InitLasts
<1> QED BY <1>1, <1>2, <1>3, IInvHolds, PTL DEF Spec
=============================================================================
