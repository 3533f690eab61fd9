--------------------------- MODULE PipelineProofs ---------------------------
(***************************************************************************)
(* Proof about Pipeline: a poll that reads both queues misses no message,  *)
(* however many events, copies and failures there are.                     *)
(***************************************************************************)
EXTENDS Pipeline, FiniteSetTheorems, TLAPS

TypeOK == /\ fate \in [Message -> Queue!Fates]
          /\ pc \in {"stopped", "poll", "pollDLQ"}
          /\ gauge \in [visible : Int, in_flight : Int, dlq : Int]
          /\ faults \in Nat

(* Between its reads, a poll has counted what is not in the dead-letter    *)
(* queue, and what was there still is: nothing leaves that queue.          *)
IsCounted == \E A, D \in SUBSET Message :
                 /\ present = A \cup D
                 /\ D \subseteq Having("dlq")
                 /\ gauge.visible + gauge.in_flight = Cardinality(A)

Counted == pc = "pollDLQ" => IsCounted

IInv == TypeOK /\ Counted

-----------------------------------------------------------------------------
LEMMA MessagesAreFinite == IsFiniteSet(Message)
<1>1. IsFiniteSet((Event \ Undeliverable) \X {1})
  BY PipelineAssumption, FS_Difference, FS_Singleton, FS_Product
<1>2. IsFiniteSet(Repeated \X {2})
  <2>1. IsFiniteSet(Repeated)
    BY PipelineAssumption, FS_Subset, FS_Difference
  <2> QED
    BY <2>1, FS_Singleton, FS_Product
<1> QED
  BY <1>1, <1>2, FS_Union DEF Message

LEMMA Counts ==
    ASSUME NEW S \in SUBSET Message, NEW T \in SUBSET Message
    PROVE  /\ Cardinality(S) \in Nat
           /\ S \subseteq T => Cardinality(S) <= Cardinality(T)
           /\ Cardinality(S \cup T) <= Cardinality(S) + Cardinality(T)
           /\ S \cap T = {} => Cardinality(S \cup T) = Cardinality(S) + Cardinality(T)
<1>1. IsFiniteSet(S) /\ IsFiniteSet(T)
  BY MessagesAreFinite, FS_Subset
<1>2. Cardinality(S) \in Nat /\ Cardinality(T) \in Nat
  BY <1>1, FS_CardinalityType
<1>3. S \subseteq T => Cardinality(S) <= Cardinality(T)
  BY <1>1, FS_Subset
<1>4. Cardinality(S \cup T) = Cardinality(S) + Cardinality(T) - Cardinality(S \cap T)
  BY <1>1, FS_Union
<1>5. Cardinality(S \cap T) \in Nat /\ (S \cap T = {} => Cardinality(S \cap T) = 0)
  BY <1>1, FS_Intersection, FS_CardinalityType, FS_EmptySet
<1> QED
  BY <1>2, <1>3, <1>4, <1>5

(* Whatever happens to messages, those given up stay so. *)
LEMMA GivenUpStays ==
    ASSUME TypeOK, NEW S, Queue!Change(S)
    PROVE  /\ fate' \in [Message -> Queue!Fates]
           /\ Having("dlq") \subseteq Having("dlq")'
<1> USE DEF TypeOK, Queue!Fates, Queue!Move, Having
<1>1. CASE Queue!Arrive(S)
  BY <1>1 DEF Queue!Arrive
<1>2. CASE Queue!Receive(S)
  BY <1>2 DEF Queue!Receive
<1>3. CASE Queue!Reappear(S)
  BY <1>3 DEF Queue!Reappear
<1>4. CASE Queue!Handle(S)
  BY <1>4 DEF Queue!Handle
<1>5. CASE Queue!Confirm(S)
  BY <1>5 DEF Queue!Confirm, Queue!Waiting
<1>6. CASE Queue!GiveUp(S)
  BY <1>6 DEF Queue!GiveUp, Queue!Waiting
<1> QED
  BY <1>1, <1>2, <1>3, <1>4, <1>5, <1>6 DEF Queue!Change

(* A step of the queues, and of nothing else. *)
LEMMA QueueStep ==
    ASSUME IInv, UNCHANGED <<poller, present>>,
           UNCHANGED queue \/ \E S : Queue!Change(S)
    PROVE  IInv'
<1>1. fate' \in [Message -> Queue!Fates] /\ Having("dlq") \subseteq Having("dlq")'
  BY GivenUpStays DEF IInv, TypeOK, queue, Having
<1>2. TypeOK'
  BY <1>1 DEF IInv, TypeOK, poller
<1>3. Counted'
  BY <1>1 DEF IInv, Counted, IsCounted, poller
<1> QED
  BY <1>2, <1>3 DEF IInv

LEMMA MeasureStep ==
    ASSUME IInv, Measure
    PROVE  IInv'
<1> USE DEF IInv, TypeOK
<1>1. fate' = fate /\ Having("visible") \in SUBSET Message
      /\ Having("inFlight") \in SUBSET Message /\ Having("dlq") \in SUBSET Message
  BY DEF Measure, queue, Having
<1>2. /\ Cardinality(Having("visible")) \in Nat /\ Cardinality(Having("inFlight")) \in Nat
      /\ Cardinality(Having("dlq")) \in Nat
  BY <1>1, Counts
<1>3. CASE Poller!Start
  BY <1>1, <1>3 DEF Poller!Start, Poller!NoGauges, Poller!Unset, Counted
<1>4. CASE Poller!Poll
  <2>1. /\ gauge' = [gauge EXCEPT !.visible = Cardinality(Having("visible")),
                                  !.in_flight = Cardinality(Having("inFlight"))]
        /\ pc = "poll" /\ pc' \in {"poll", "pollDLQ"} /\ faults' = faults
    <3>1. /\ gauge' = Poller!Measured /\ pc = "poll" /\ faults' = faults
          /\ pc' = IF dlqKnown' THEN "pollDLQ" ELSE "poll"
      BY <1>4 DEF Poller!Poll
    <3> QED
      BY <3>1 DEF Poller!Measured
  <2>2. TypeOK'
    <3>1. \A a, b \in Int : [gauge EXCEPT !.visible = a, !.in_flight = b]
                              \in [visible : Int, in_flight : Int, dlq : Int]
      OBVIOUS
    <3>2. Cardinality(Having("visible")) \in Int /\ Cardinality(Having("inFlight")) \in Int
      BY <1>2
    <3>3. gauge' \in [visible : Int, in_flight : Int, dlq : Int]
      BY <2>1, <3>1, <3>2, Zenon
    <3> QED
      BY <1>1, <2>1, <3>3
  <2>3. ASSUME pc' = "pollDLQ" PROVE IsCounted'
    <3>1. present' = Having("visible") \cup Having("inFlight") \cup Having("dlq")
      BY <2>3, <2>1 DEF Measure
    <3>2. gauge'.visible + gauge'.in_flight
             = Cardinality(Having("visible") \cup Having("inFlight"))
      <4>1. Having("visible") \cap Having("inFlight") = {}
        BY DEF Having
      <4> QED
        BY <1>1, <2>1, <4>1, Counts
    <3>3. Having("dlq")' = Having("dlq")
      BY <1>1 DEF Having
    <3> QED
      BY <1>1, <3>1, <3>2, <3>3 DEF IsCounted
  <2> QED
    BY <2>2, <2>3 DEF Counted
<1>5. CASE Poller!PollFails \/ Poller!PollDLQFails \/ Poller!Stop
  BY <1>1, <1>5 DEF Poller!PollFails, Poller!PollDLQFails, Poller!Stop, Poller!Fault, Counted
<1>6. CASE Poller!PollDLQ
  BY <1>1, <1>2, <1>6 DEF Poller!PollDLQ, Counted
<1> QED
  BY <1>3, <1>4, <1>5, <1>6 DEF Measure, Poller!Next

LEMMA StepInvariant == IInv /\ [Next]_vars => IInv'
<1> SUFFICES ASSUME IInv, [Next]_vars PROVE IInv'
  OBVIOUS
<1>1. ASSUME NEW e \in Event, Record(e) PROVE IInv'
  BY <1>1, QueueStep DEF Record
<1>2. ASSUME NEW S, Deliver(S) PROVE IInv'
  BY <1>2, QueueStep DEF Deliver, Queue!Change
<1>3. ASSUME NEW S, SetAside(S) PROVE IInv'
  BY <1>3, QueueStep DEF SetAside
<1>4. ASSUME NEW m, Repeat(m) PROVE IInv'
  BY <1>4, QueueStep DEF Repeat, Queue!Change
<1>5. ASSUME NEW S, Consume(S) PROVE IInv'
  BY <1>5, QueueStep DEF Consume, Queue!Change
<1>6. CASE SetPolicy
  BY <1>6, QueueStep DEF SetPolicy
<1>7. CASE Measure
  BY <1>7, MeasureStep
<1>8. CASE UNCHANGED vars
  BY <1>8, QueueStep DEF vars
<1> QED
  BY <1>1, <1>2, <1>3, <1>4, <1>5, <1>6, <1>7, <1>8 DEF Next

LEMMA PollCountsAll ==
    ASSUME IInv, [Next]_vars, pc = "pollDLQ", pc' = "poll", faults' = faults
    PROVE  gauge'.visible + gauge'.in_flight + gauge'.dlq >=
              Cardinality({m \in present : fate[m] # "deleted"})
<1>1. Measure /\ Poller!PollDLQ
  <2>1. pc' # pc
    OBVIOUS
  <2>2. Measure
    BY <2>1 DEF Next, vars, Record, Deliver, Repeat, SetAside, Consume, SetPolicy, poller
  <2> QED
    BY <2>2 DEF IInv, TypeOK, Measure, Poller!Next, Poller!Start, Poller!Poll, Poller!PollFails,
                Poller!PollDLQFails, Poller!Stop, Poller!Fault
<1>2. PICK A, D \in SUBSET Message :
          /\ present = A \cup D
          /\ D \subseteq Having("dlq")
          /\ gauge.visible + gauge.in_flight = Cardinality(A)
  BY DEF IInv, Counted, IsCounted
<1>3. /\ gauge' = [gauge EXCEPT !.dlq = Cardinality(Having("dlq"))]
      /\ Having("dlq") \in SUBSET Message
  BY <1>1 DEF Poller!PollDLQ, Having
<1> DEFINE Left == {m \in present : fate[m] # "deleted"}
<1>4. Left \in SUBSET Message /\ A \cup Having("dlq") \in SUBSET Message
      /\ Left \subseteq A \cup Having("dlq")
  BY <1>2, <1>3
<1>5. Cardinality(Left) <= Cardinality(A \cup Having("dlq"))
  BY <1>4, Counts
<1>6. /\ Cardinality(A \cup Having("dlq")) <= Cardinality(A) + Cardinality(Having("dlq"))
      /\ Cardinality(A) \in Nat /\ Cardinality(Having("dlq")) \in Nat
      /\ Cardinality(Left) \in Nat /\ Cardinality(A \cup Having("dlq")) \in Nat
  BY <1>2, <1>3, <1>4, Counts
<1>7. /\ gauge'.visible = gauge.visible /\ gauge'.in_flight = gauge.in_flight
      /\ gauge'.dlq = Cardinality(Having("dlq"))
      /\ gauge.visible \in Int /\ gauge.in_flight \in Int
  BY <1>3 DEF IInv, TypeOK
<1> HIDE DEF Left
<1>8. gauge'.visible + gauge'.in_flight + gauge'.dlq >= Cardinality(Left)
  BY <1>2, <1>5, <1>6, <1>7, SMT
<1> QED
  BY <1>8 DEF Left

(* A poll that reads both queues counts every message that was there from  *)
(* its start, whatever consumers, relays and failures do meanwhile (poll). *)
THEOREM PollMissesNothing == Spec => PollMissesNoMessage
<1>1. Init => IInv
  BY PipelineAssumption DEF Init, IInv, TypeOK, Counted, Poller!Init, Poller!NoGauges, Poller!Unset,
                            Queue!Fates
<1>2. IInv /\ [Next]_vars => IInv'
  BY StepInvariant
<1>3. IInv /\ [Next]_vars =>
        [pc = "pollDLQ" /\ pc' = "poll" /\ faults' = faults =>
            gauge'.visible + gauge'.in_flight + gauge'.dlq >=
               Cardinality({m \in present : fate[m] # "deleted"})]_vars
  BY PollCountsAll
<1> QED
  BY <1>1, <1>2, <1>3, PTL DEF Spec, PollMissesNoMessage
=============================================================================
