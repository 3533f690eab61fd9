------------------------- MODULE ServiceCallProofs --------------------------
(***************************************************************************)
(* What the circuit breaker guarantees for any number of concurrent calls  *)
(* and any thresholds.                                                     *)
(***************************************************************************)
EXTENDS ServiceCall, FiniteSetTheorems, TLAPS

(* The strengthening: a call that counts is in flight, the half-open       *)
(* circuit counted each of them, an open one has none, and a closed one    *)
(* has no more failures in a row than there were failures.                 *)
IInv == /\ TypeOK
        /\ \A c \in Call : current[c] => pc[c] = "sending"
        /\ OpenAdmitsNothing
        /\ state = "halfOpen" => Cardinality(Probes) <= requests
        /\ state = "closed" => failuresInRow <= failures
        /\ IsolationHasCause

(* The probes can be counted. *)
LEMMA ProbesAreCounted == IsFiniteSet(Probes) /\ Cardinality(Probes) \in Nat
BY CallAssumption, FS_Subset, FS_CardinalityType DEF Probes

LEMMA Thresholds ==
    /\ FailureThreshold \in Nat /\ FailureThreshold >= 1
    /\ MaxHalfOpenReqs \in Nat /\ MaxHalfOpenReqs >= 1
    /\ MaxOutages \in Nat
BY CallAssumption

LEMMA NoProbes == Cardinality({}) = 0
BY FS_EmptySet

(* Counts that were forgotten are within their bounds. *)
LEMMA ZeroIsACount ==
    /\ 0 \in 0 .. FailureThreshold - 1
    /\ 0 \in 0 .. FailureThreshold
    /\ 0 \in 0 .. MaxHalfOpenReqs - 1
    /\ 0 \in 0 .. MaxHalfOpenReqs
    /\ MaxOutages \in 0 .. MaxOutages
BY Thresholds


(* At first the circuit is closed and nothing is in flight. *)
LEMMA InitIsSound == Init => IInv
<1> SUFFICES ASSUME Init PROVE IInv
  OBVIOUS
<1>1. /\ failuresInRow \in 0 .. FailureThreshold - 1
      /\ successesInRow \in 0 .. MaxHalfOpenReqs - 1
      /\ requests \in 0 .. MaxHalfOpenReqs
      /\ outages \in 0 .. MaxOutages
      /\ failures \in 0 .. FailureThreshold
  BY ZeroIsACount, Zenon DEF Init
<1>2. TypeOK
  BY <1>1, Zenon DEF Init, TypeOK
<1>3. state = "closed" /\ failuresInRow <= failures
  BY DEF Init
<1> QED BY <1>2, <1>3, Zenon DEF Init, IInv, OpenAdmitsNothing, IsolationHasCause

(* A new generation has no probes. *)
LEMMA NewGenerationIsSound ==
    ASSUME NEW s \in {"closed", "open", "halfOpen"}, NewGeneration(s)
    PROVE  /\ state' = s
           /\ failuresInRow' \in 0 .. FailureThreshold - 1
           /\ successesInRow' \in 0 .. MaxHalfOpenReqs - 1
           /\ requests' \in 0 .. MaxHalfOpenReqs
           /\ current' \in [Call -> BOOLEAN]
           /\ \A c \in Call : ~current'[c]
           /\ Probes' = {}
           /\ Cardinality(Probes') <= requests'
<1>1. /\ state' = s
      /\ failuresInRow' \in 0 .. FailureThreshold - 1
      /\ successesInRow' \in 0 .. MaxHalfOpenReqs - 1
      /\ requests' \in 0 .. MaxHalfOpenReqs
  BY ZeroIsACount, Zenon DEF NewGeneration
<1>2. current' \in [Call -> BOOLEAN] /\ \A c \in Call : ~current'[c]
  BY Zenon DEF NewGeneration
<1>3. Probes' = {}
  BY <1>2, Zenon DEF Probes
<1>4. Cardinality(Probes') = 0
  BY <1>3, NoProbes, Zenon
<1>5. Cardinality(Probes') <= requests'
  BY <1>4 DEF NewGeneration
<1> QED BY <1>1, <1>2, <1>3, <1>5, Zenon

(* Forgetting one call leaves the other probes. *)
LEMMA ForgetIsSound ==
    ASSUME TypeOK, NEW c \in Call, Forget(c)
    PROVE  /\ current' \in [Call -> BOOLEAN]
           /\ ~current'[c]
           /\ \A d \in Call : d # c => current'[d] = current[d]
           /\ Probes' \subseteq Probes
           /\ Cardinality(Probes') \in Nat
           /\ Cardinality(Probes') <= Cardinality(Probes)
<1>1. /\ current' \in [Call -> BOOLEAN]
      /\ ~current'[c]
      /\ \A d \in Call : d # c => current'[d] = current[d]
  BY DEF Forget, TypeOK
<1>2. Probes' \subseteq Probes
  BY <1>1 DEF Probes
<1> QED BY <1>1, <1>2, ProbesAreCounted, FS_Subset, FS_CardinalityType

(* Whatever an answer does to the breaker keeps the invariant's parts.     *)
LEMMA AfterRequestIsSound ==
    ASSUME IInv, NEW c \in Call, NEW failed \in BOOLEAN, AfterRequest(c, failed)
    PROVE  /\ state' \in {"closed", "open", "halfOpen"}
           /\ failuresInRow' \in 0 .. FailureThreshold - 1
           /\ successesInRow' \in 0 .. MaxHalfOpenReqs - 1
           /\ requests' \in 0 .. MaxHalfOpenReqs
           /\ current' \in [Call -> BOOLEAN]
           /\ \A d \in Call : current'[d] => current[d] /\ d # c
           /\ OpenAdmitsNothing'
           /\ state' = "halfOpen" => Cardinality(Probes') <= requests'
<1> USE CallAssumption DEF IInv, TypeOK
<1>1. CASE ~current[c]
  <2>1. UNCHANGED <<state, failuresInRow, successesInRow, requests, current>>
    BY <1>1 DEF AfterRequest, breaker
  <2>2. Probes' = Probes
    BY <2>1 DEF Probes
  <2> QED BY <1>1, <2>1, <2>2 DEF OpenAdmitsNothing
<1>2. CASE current[c] /\ failed
  <2>1. OnFailure(c)
    BY <1>2 DEF AfterRequest
  <2>2. CASE state = "halfOpen" \/ Trips
    <3>1. NewGeneration("open")
      BY <2>1, <2>2 DEF OnFailure
    <3> QED BY <3>1, NewGenerationIsSound DEF OpenAdmitsNothing
  <2>3. CASE ~(state = "halfOpen" \/ Trips)
    <3>1. /\ failuresInRow' = failuresInRow + 1
          /\ failuresInRow + 1 < FailureThreshold
          /\ Forget(c)
          /\ UNCHANGED <<state, successesInRow, requests>>
      BY <2>1, <2>3, Thresholds DEF OnFailure, Trips
    <3> QED BY <3>1, <2>3, ForgetIsSound, Thresholds DEF OpenAdmitsNothing
  <2> QED BY <2>2, <2>3
<1>3. CASE current[c] /\ ~failed
  <2>1. OnSuccess(c)
    BY <1>3 DEF AfterRequest
  <2>2. CASE state = "halfOpen" /\ successesInRow + 1 >= MaxHalfOpenReqs
    <3>1. NewGeneration("closed")
      BY <2>1, <2>2 DEF OnSuccess
    <3> QED BY <3>1, NewGenerationIsSound DEF OpenAdmitsNothing
  <2>3. CASE ~(state = "halfOpen" /\ successesInRow + 1 >= MaxHalfOpenReqs)
    <3>1. /\ failuresInRow' = 0
          /\ successesInRow' \in 0 .. MaxHalfOpenReqs - 1
          /\ Forget(c)
          /\ UNCHANGED <<state, requests>>
      BY <2>1, <2>3, Thresholds DEF OnSuccess
    <3>2. /\ current' \in [Call -> BOOLEAN]
          /\ \A d \in Call : current'[d] => current[d] /\ d # c
          /\ Probes' \subseteq Probes
          /\ Cardinality(Probes') \in Nat
          /\ Cardinality(Probes') <= Cardinality(Probes)
      BY <3>1, ForgetIsSound
    <3>3. failuresInRow' \in 0 .. FailureThreshold - 1
      BY <3>1, ZeroIsACount, Zenon
    <3>4. OpenAdmitsNothing'
      BY <3>1, <3>2 DEF OpenAdmitsNothing
    <3>5. state' = "halfOpen" => Cardinality(Probes') <= requests'
      <4>1. requests' = requests /\ state' = state /\ requests \in Nat
        BY <3>1, Thresholds
      <4>2. Cardinality(Probes) \in Nat
        BY ProbesAreCounted
      <4>3. state = "halfOpen" => Cardinality(Probes) <= requests
        OBVIOUS
      <4> HIDE DEF Probes, IInv, TypeOK
      <4> QED BY <3>2, <4>1, <4>2, <4>3, SMT
    <3> QED BY <3>1, <3>2, <3>3, <3>4, <3>5, Zenon
  <2> QED BY <2>2, <2>3
<1> QED BY <1>1, <1>2, <1>3

(* Every failure in a row is counted as a failure, so that the breaker     *)
(* never trips before the count is full.                                   *)
LEMMA FailuresAreCounted ==
    ASSUME IInv, NEW c \in Call, NEW failed \in BOOLEAN, AfterRequest(c, failed),
           IF failed THEN CountFailure(c) ELSE StartAfresh
    PROVE  /\ failures' \in 0 .. FailureThreshold
           /\ state' = "closed" => failuresInRow' <= failures'
           /\ IsolationHasCause'
<1> USE Thresholds DEF IsolationHasCause
<1>1. /\ state \in {"closed", "open", "halfOpen"}
      /\ failuresInRow \in 0 .. FailureThreshold - 1
      /\ failures \in 0 .. FailureThreshold
      /\ state = "closed" => failuresInRow <= failures
      /\ IsolationHasCause
  BY DEF IInv, TypeOK
<1>2. CASE ~current[c]
  <2>1. UNCHANGED <<state, failuresInRow>>
    BY <1>2 DEF AfterRequest, breaker
  <2>2. failures' = failures
    BY <1>2, <2>1 DEF CountFailure, StartAfresh
  <2> QED BY <1>1, <2>1, <2>2
<1>3. CASE current[c] /\ failed
  <2>1. OnFailure(c) /\ failures' = IF failures < FailureThreshold THEN failures + 1
                                                                  ELSE failures
    BY <1>3 DEF AfterRequest, CountFailure
  <2>2. CASE state = "halfOpen" \/ Trips
    <3>1. state' = "open"
      BY <2>1, <2>2 DEF OnFailure, NewGeneration
    <3>2. failures' = FailureThreshold
      BY <1>1, <2>1, <2>2 DEF Trips
    <3> QED BY <3>1, <3>2
  <2>3. CASE ~(state = "halfOpen" \/ Trips)
    <3>1. failuresInRow' = failuresInRow + 1 /\ state' = state
      BY <2>1, <2>3 DEF OnFailure
    <3> QED BY <1>1, <2>1, <3>1
  <2> QED BY <2>2, <2>3
<1>4. CASE current[c] /\ ~failed
  <2>1. OnSuccess(c) /\ StartAfresh
    BY <1>4 DEF AfterRequest
  <2>2. \/ state' = "closed" /\ failuresInRow' = 0
        \/ state' = state /\ failuresInRow' = 0
    BY <2>1 DEF OnSuccess, NewGeneration
  <2> QED BY <1>1, <2>1, <2>2 DEF StartAfresh
<1> QED BY <1>2, <1>3, <1>4

(* Letting a call through adds one probe, counted while half-open.         *)
LEMMA AdmitIsSound ==
    ASSUME IInv, NEW c \in Call, Admit(c)
    PROVE  IInv'
<1> USE CallAssumption DEF IInv
<1>1. Probes' = Probes \cup {c} /\ c \notin Probes
  BY DEF Admit, TypeOK, Probes
<1>2. Cardinality(Probes') = Cardinality(Probes) + 1
  BY <1>1, ProbesAreCounted, FS_AddElement
<1>3. TypeOK'
  <2>1. CASE state = "halfOpen"
    BY <2>1 DEF Admit, Admits, TypeOK, destination, history
  <2>2. CASE state # "halfOpen"
    BY <2>2 DEF Admit, Admits, TypeOK, destination, history
  <2> QED BY <2>1, <2>2
<1>4. \A d \in Call : current'[d] => pc'[d] = "sending"
  BY DEF Admit, TypeOK
<1>5. OpenAdmitsNothing'
  BY DEF Admit, Admits, OpenAdmitsNothing
<1>6. state' = "halfOpen" => Cardinality(Probes') <= requests'
  BY <1>2, ProbesAreCounted DEF Admit, TypeOK
<1>7. UNCHANGED <<state, failuresInRow, failures>>
  BY DEF Admit, history
<1> QED BY <1>3, <1>4, <1>5, <1>6, <1>7 DEF IsolationHasCause

(* Every step of the calls, the timers and the destination is sound.       *)
LEMMA StepKeepsIInv == IInv /\ [Next]_vars => IInv'
<1> SUFFICES ASSUME IInv, [Next]_vars PROVE IInv'
  OBVIOUS
<1> USE CallAssumption
<1>1. ASSUME NEW c \in Call, Reject(c) \/ Abandon(c) PROVE IInv'
  <2>1. /\ result' \in [Call -> {"none", "answer", "unavailable", "abandoned"}]
        /\ abandoned' \in [Call -> BOOLEAN]
        /\ UNCHANGED <<breaker, pc, current, destination, history>>
    BY <1>1 DEF Reject, Abandon, IInv, TypeOK
  <2> QED BY <2>1 DEF IInv, TypeOK, OpenAdmitsNothing, IsolationHasCause, Probes, breaker,
             destination, history
<1>2. ASSUME NEW c \in Call, Answered(c) \/ Failed(c) \/ NotSent(c) \/ GivenUp(c)
      PROVE  IInv'
  <2>1. PICK failed \in BOOLEAN, r \in {"answer", "unavailable", "abandoned"} :
          /\ Return(c, failed, r)
          /\ IF failed THEN CountFailure(c) ELSE StartAfresh
    BY <1>2 DEF Answered, Failed, NotSent, GivenUp
  <2>2. destinationFailed' \in BOOLEAN
    BY <1>2 DEF Answered, Failed, NotSent, GivenUp, IInv, TypeOK
  <2>3. /\ AfterRequest(c, failed)
        /\ pc' = [pc EXCEPT ![c] = "idle"]
        /\ result' = [result EXCEPT ![c] = r]
        /\ UNCHANGED <<abandoned, destination>>
    BY <2>1 DEF Return
  <2>6. /\ failures' \in 0 .. FailureThreshold
        /\ state' = "closed" => failuresInRow' <= failures'
        /\ IsolationHasCause'
    BY <2>1, <2>3, FailuresAreCounted
  <2>4. TypeOK'
    BY <2>2, <2>3, <2>6, AfterRequestIsSound DEF IInv, TypeOK, destination
  <2>5. \A d \in Call : current'[d] => pc'[d] = "sending"
    BY <2>3, AfterRequestIsSound DEF IInv, TypeOK
  <2> QED BY <2>3, <2>4, <2>5, <2>6, AfterRequestIsSound DEF IInv
<1>3. ASSUME IntervalElapses \/ TimeoutElapses PROVE IInv'
  <2>1. PICK s \in {"closed", "halfOpen"} :
          /\ NewGeneration(s)
          /\ \/ s = "closed" /\ failures' = 0
             \/ s = "halfOpen" /\ state = "open" /\ failures' = failures
    BY <1>3 DEF IntervalElapses, TimeoutElapses, history
  <2>2. UNCHANGED <<pc, abandoned, result, destination, destinationFailed>>
    BY <1>3 DEF IntervalElapses, TimeoutElapses, history
  <2>3. failures' \in 0 .. FailureThreshold
    BY <2>1, ZeroIsACount, Zenon DEF IInv, TypeOK
  <2>4. TypeOK'
    BY <2>1, <2>2, <2>3, NewGenerationIsSound, Zenon DEF IInv, TypeOK, destination
  <2>5. /\ state' = "closed" => failuresInRow' <= failures'
        /\ IsolationHasCause'
    BY <2>1 DEF NewGeneration, IInv, IsolationHasCause
  <2> QED BY <2>1, <2>4, <2>5, NewGenerationIsSound, Zenon DEF IInv, OpenAdmitsNothing
<1>4. ASSUME DestinationGoesDown \/ DestinationComesUp PROVE IInv'
  <2>1. outages' \in 0 .. MaxOutages /\ UNCHANGED <<breaker, calls, history>>
    BY <1>4 DEF DestinationGoesDown, DestinationComesUp, IInv, TypeOK
  <2>2. up' \in BOOLEAN
    BY <1>4, Zenon DEF DestinationGoesDown, DestinationComesUp
  <2> QED BY <2>1, <2>2 DEF IInv, TypeOK, OpenAdmitsNothing, IsolationHasCause, Probes,
             breaker, calls, history
<1>5. CASE UNCHANGED vars
  BY <1>5 DEF IInv, TypeOK, OpenAdmitsNothing, IsolationHasCause, Probes, vars, breaker, calls,
     destination, history
<1> QED BY <1>1, <1>2, <1>3, <1>4, <1>5, AdmitIsSound DEF Next, Step

LEMMA IInvHolds == Spec => []IInv
BY InitIsSound, StepKeepsIInv, PTL DEF Spec

LEMMA IInvIsStrongEnough == IInv => TypeOK /\ ProbesAreFew /\ OpenAdmitsNothing
BY CallAssumption, ProbesAreCounted DEF IInv, TypeOK, ProbesAreFew

(* Every variable keeps its type: in particular the counts stay below the  *)
(* thresholds at which the circuit changes.                                *)
THEOREM TypeCorrect == Spec => []TypeOK
BY IInvHolds, IInvIsStrongEnough, PTL

(* However many callers race for it, a half-open circuit has no more than  *)
(* MaxHalfOpenReqs deciding calls in flight (New, Execute).                *)
THEOREM ProbesAreLimited == Spec => []ProbesAreFew
BY IInvHolds, IInvIsStrongEnough, PTL

(* No call in flight can move an open circuit (Execute).                   *)
THEOREM OpenIsQuiet == Spec => []OpenAdmitsNothing
BY IInvHolds, IInvIsStrongEnough, PTL

(* However answers, failures and abandoned calls of any number of callers  *)
(* mix, a circuit leaves the closed state only after FailureThreshold      *)
(* calls it counts that failed or could not be sent (Do).                  *)
THEOREM IsolationIsCaused == Spec => []IsolationHasCause
BY IInvHolds, PTL DEF IInv

=============================================================================
