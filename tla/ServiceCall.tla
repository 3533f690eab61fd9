---------------------------- MODULE ServiceCall -----------------------------
(***************************************************************************)
(* pkg/servicecall/servicecall.go over pkg/circuitbreaker: concurrent      *)
(* calls from one service to another through one circuit breaker.  The     *)
(* breaker itself is sony/gobreaker, modelled from the settings and the    *)
(* function the code gives it; its generations appear as a flag on each    *)
(* call, which is current as long as no generation began since.            *)
(***************************************************************************)
EXTENDS Integers, FiniteSets

CONSTANTS Call,              \* callers, each with one call at a time
          Broken,            \* those whose request cannot be built (send)
          FailureThreshold, MaxHalfOpenReqs,
          MaxOutages         \* bound on the outages of the destination

ASSUME CallAssumption ==
    /\ IsFiniteSet(Call)
    /\ Broken \subseteq Call
    /\ {FailureThreshold, MaxHalfOpenReqs} \subseteq Nat \ {0}
    /\ MaxOutages \in Nat

VARIABLES
    state, failuresInRow, successesInRow, requests,  \* the breaker
    pc, current, abandoned, result,                  \* the calls
    up, outages,                                     \* the destination
    destinationFailed, failures                      \* history: it failed once, and
                                                     \* failures since the circuit closed

breaker == <<state, failuresInRow, successesInRow, requests>>
calls == <<pc, current, abandoned, result>>
destination == <<up, outages>>
history == <<destinationFailed, failures>>
vars == <<breaker, calls, destination, history>>

Init == /\ state = "closed"
        /\ failuresInRow = 0 /\ successesInRow = 0 /\ requests = 0
        /\ pc = [c \in Call |-> "idle"]
        /\ current = [c \in Call |-> FALSE]
        /\ abandoned = [c \in Call |-> FALSE]
        /\ result = [c \in Call |-> "none"]
        /\ up = TRUE
        /\ outages = MaxOutages
        /\ destinationFailed = FALSE
        /\ failures = 0

-----------------------------------------------------------------------------
(* The breaker.                                                            *)

(* A new generation forgets the counts, and the calls in flight. *)
NewGeneration(s) == /\ state' = s
                    /\ failuresInRow' = 0 /\ successesInRow' = 0 /\ requests' = 0
                    /\ current' = [c \in Call |-> FALSE]

IntervalElapses == /\ state = "closed"
                   /\ NewGeneration("closed")
                   /\ failures' = 0
                   /\ UNCHANGED <<pc, abandoned, result, destination, destinationFailed>>

TimeoutElapses == /\ state = "open"
                  /\ NewGeneration("halfOpen")
                  /\ UNCHANGED <<pc, abandoned, result, destination, history>>

(* Variants: a half-open breaker does not count what it lets through, and  *)
(* an open one lets calls through.                                         *)
Admits_EvenOpen == \/ state # "halfOpen"
                   \/ requests < MaxHalfOpenReqs

Admits_AnyProbe == state \in {"closed", "halfOpen"}

Admits == \/ state = "closed"
          \/ state = "halfOpen" /\ requests < MaxHalfOpenReqs

(* ReadyToTrip; in the variant it takes one failure more. *)
Trips_Late == failuresInRow >= FailureThreshold

Trips == failuresInRow + 1 >= FailureThreshold

Forget(c) == current' = [current EXCEPT ![c] = FALSE]

OnFailure(c) ==
    IF state = "halfOpen" \/ Trips
    THEN NewGeneration("open")
    ELSE /\ failuresInRow' = failuresInRow + 1
         /\ Forget(c)
         /\ UNCHANGED <<state, successesInRow, requests>>

OnSuccess(c) ==
    IF state = "halfOpen" /\ successesInRow + 1 >= MaxHalfOpenReqs
    THEN NewGeneration("closed")
    ELSE /\ failuresInRow' = 0
         /\ successesInRow' = IF state = "halfOpen" THEN successesInRow + 1 ELSE 0
         /\ Forget(c)
         /\ UNCHANGED <<state, requests>>

AfterRequest(c, failed) ==
    IF current[c] THEN IF failed THEN OnFailure(c) ELSE OnSuccess(c)
                  ELSE UNCHANGED <<breaker, current>>

-----------------------------------------------------------------------------
(* Do.                                                                     *)

Admit(c) == /\ pc[c] = "idle" /\ Admits
            /\ pc' = [pc EXCEPT ![c] = "sending"]
            /\ current' = [current EXCEPT ![c] = TRUE]
            /\ abandoned' = [abandoned EXCEPT ![c] = FALSE]
            /\ requests' = IF state = "halfOpen" THEN requests + 1 ELSE requests
            /\ UNCHANGED <<state, failuresInRow, successesInRow, result, destination, history>>

Reject(c) == /\ pc[c] = "idle" /\ ~Admits
             /\ result' = [result EXCEPT ![c] = "unavailable"]
             /\ UNCHANGED <<breaker, pc, current, abandoned, destination, history>>

(* The caller's context ends while the call is in flight. *)
Abandon(c) == /\ pc[c] = "sending" /\ ~abandoned[c]
              /\ abandoned' = [abandoned EXCEPT ![c] = TRUE]
              /\ UNCHANGED <<breaker, pc, current, result, destination, history>>

Return(c, failed, r) == /\ pc[c] = "sending"
                        /\ pc' = [pc EXCEPT ![c] = "idle"]
                        /\ result' = [result EXCEPT ![c] = r]
                        /\ AfterRequest(c, failed)
                        /\ UNCHANGED <<abandoned, destination>>

(* History: what counts against the destination, and the start afresh when *)
(* the circuit closes.                                                     *)
CountFailure(c) ==
    failures' = IF current[c] /\ failures < FailureThreshold THEN failures + 1 ELSE failures

StartAfresh == failures' = IF state # "closed" /\ state' = "closed" THEN 0 ELSE failures

(* A status below 500, even after the caller gave up; in the variant the   *)
(* answers with a 4xx count as failures.                                   *)
Answered_CountsRefusals(c) ==
    /\ up /\ c \notin Broken
    /\ \E refused \in BOOLEAN : Return(c, refused, "answer")
    /\ StartAfresh
    /\ UNCHANGED destinationFailed

Answered(c) == /\ up /\ c \notin Broken
               /\ Return(c, FALSE, "answer")
               /\ StartAfresh
               /\ UNCHANGED destinationFailed

(* A status of 500 or above, or no answer in time. *)
Failed(c) == /\ ~up /\ c \notin Broken
             /\ Return(c, TRUE, "unavailable")
             /\ CountFailure(c)
             /\ destinationFailed' = TRUE

(* The request could not be signed, encoded or built. *)
NotSent(c) == /\ c \in Broken /\ ~abandoned[c]
              /\ Return(c, TRUE, "unavailable")
              /\ CountFailure(c)
              /\ UNCHANGED destinationFailed

(* The error of a call whose context ended is the caller's; in the variant *)
(* it is the destination's.                                                *)
GivenUp_Blames(c) == /\ abandoned[c]
                     /\ Return(c, TRUE, "unavailable")
                     /\ StartAfresh
                     /\ UNCHANGED destinationFailed

GivenUp(c) == /\ abandoned[c]
              /\ Return(c, FALSE, "abandoned")
              /\ StartAfresh
              /\ UNCHANGED destinationFailed

-----------------------------------------------------------------------------
DestinationGoesDown == /\ up /\ outages > 0
                       /\ up' = FALSE
                       /\ outages' = outages - 1
                       /\ UNCHANGED <<breaker, calls, history>>

DestinationComesUp == /\ ~up
                      /\ up' = TRUE
                      /\ UNCHANGED <<breaker, calls, outages, history>>

Step(c) == \/ Admit(c) \/ Reject(c)
           \/ Answered(c) \/ Failed(c) \/ NotSent(c) \/ GivenUp(c)

Next == \/ \E c \in Call : Step(c) \/ Abandon(c)
        \/ IntervalElapses \/ TimeoutElapses
        \/ DestinationGoesDown \/ DestinationComesUp

Spec == Init /\ [][Next]_vars

(* Callers whose requests can be built keep calling, the others may stop;  *)
(* the client's timeout ends every call, timers run and every outage ends. *)
FairSpec == /\ Spec
            /\ \A c \in Call \ Broken : WF_vars(Step(c))
            /\ \A c \in Broken : WF_vars(NotSent(c) \/ GivenUp(c))
            /\ WF_vars(TimeoutElapses)
            /\ WF_vars(DestinationComesUp)

-----------------------------------------------------------------------------
(* Properties.                                                             *)

(* The values the variables range over. *)
TypeOK ==
    /\ state \in {"closed", "open", "halfOpen"}
    /\ failuresInRow \in 0 .. FailureThreshold - 1
    /\ successesInRow \in 0 .. MaxHalfOpenReqs - 1
    /\ requests \in 0 .. MaxHalfOpenReqs
    /\ pc \in [Call -> {"idle", "sending"}]
    /\ current \in [Call -> BOOLEAN]
    /\ abandoned \in [Call -> BOOLEAN]
    /\ result \in [Call -> {"none", "answer", "unavailable", "abandoned"}]
    /\ up \in BOOLEAN
    /\ outages \in 0 .. MaxOutages
    /\ destinationFailed \in BOOLEAN
    /\ failures \in 0 .. FailureThreshold

Probes == {c \in Call : current[c]}

(* While the circuit is half-open no more than MaxHalfOpenReqs calls that  *)
(* can decide it are in flight, whatever calls are left over from before   *)
(* (New: "one test at a time").                                            *)
ProbesAreFew == state = "halfOpen" => Cardinality(Probes) <= MaxHalfOpenReqs

(* No call in flight can move an open circuit: only its timeout does.      *)
OpenAdmitsNothing == state = "open" => Probes = {}

(* A destination is isolated only after FailureThreshold calls, sent since *)
(* the circuit last closed or its counts were last cleared, that failed or *)
(* could not be sent: however they mix with those, answers with a 4xx and  *)
(* calls that were abandoned never add up to it, nor do failures of calls  *)
(* sent before (Do).                                                       *)
IsolationHasCause == state # "closed" => failures = FailureThreshold

BrokenStop == <>[](\A c \in Broken : pc[c] = "idle")

(* Once the destination is back the circuit closes again (New), unless     *)
(* calls that cannot be sent never stop coming.                            *)
CircuitCloses == BrokenStop => []<>(state = "closed")

(* A caller that was told the destination is unavailable, and keeps        *)
(* calling, is told otherwise in the end (Do).                             *)
UnavailabilityEnds ==
    BrokenStop => \A c \in Call \ Broken :
                      result[c] = "unavailable" ~> result[c] # "unavailable"

(* Only a failure of the destination opens the circuit, as the comment on  *)
(* Do says.                                                                *)
OnlyDestinationOpens == state = "open" => destinationFailed
=============================================================================
