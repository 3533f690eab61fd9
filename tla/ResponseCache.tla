--------------------------- MODULE ResponseCache ----------------------------
(***************************************************************************)
(* pkg/cache: one cached answer of a service, kept in Redis under a key    *)
(* that the service's writes invalidate, either by deleting it (Forget) or *)
(* by moving to the next generation of keys (NextGeneration).  Redis and   *)
(* the service around the cache are modelled from the way it uses them.    *)
(* An answer is abstracted to the version of the data it was built from.   *)
(***************************************************************************)
EXTENDS Integers

CONSTANTS Reader, Writer,
          Enabled,       \* Redis is configured
          MaxVersion,    \* bound on the writes
          MaxGeneration, \* bound on the generation
          MaxFaults      \* bound on the failing calls, outages and bad values

ASSUME CacheAssumption == /\ Enabled \in BOOLEAN
                          /\ {MaxVersion, MaxGeneration, MaxFaults} \subseteq Nat

VARIABLES
    version,                  \* the owner's data
    generational,             \* its keys carry a generation (WithGeneration)
    entry, generation,        \* Redis: the answers and the generation
    redisUp,
    pc, key, value, result,   \* readers
    writerPc, wrote,          \* writers
    faults,
    settled,                  \* history: newest version fully invalidated,
    asOf,                     \* the same when a reader's request began,
    lapse                     \* and the lapses that the scheme has

owner == <<version, generational>>
redis == <<entry, generation, redisUp>>
readers == <<pc, key, value, result>>
writers == <<writerPc, wrote>>
history == <<settled, asOf, lapse>>
vars == <<owner, redis, readers, writers, faults, history>>

Absent == -1
Unreadable == -2
NoResult == -1

(* One key for each generation. *)
Keys == 0 .. MaxGeneration

Init == /\ version = 0
        /\ generational \in BOOLEAN
        /\ entry = [k \in Keys |-> Absent]
        /\ generation = 0
        /\ redisUp = TRUE
        /\ pc = [r \in Reader |-> "idle"]
        /\ key = [r \in Reader |-> 0]
        /\ value = [r \in Reader |-> 0]
        /\ result = [r \in Reader |-> NoResult]
        /\ writerPc = [w \in Writer |-> "idle"]
        /\ wrote = [w \in Writer |-> 0]
        /\ faults = MaxFaults
        /\ settled = 0
        /\ asOf = [r \in Reader |-> 0]
        /\ lapse = FALSE

Goto(r, label) == pc' = [pc EXCEPT ![r] = label]

Fault == faults > 0 /\ faults' = faults - 1

(* A call that Redis does not answer in time. *)
RedisFails == IF redisUp THEN Fault ELSE UNCHANGED faults

Readable(v) == v >= 0

-----------------------------------------------------------------------------
(* A request: Generation if keys carry one, then Resolve.                  *)

Begin(r) ==
    /\ pc[r] = "idle"
    /\ Goto(r, IF ~Enabled THEN "build" ELSE IF generational THEN "generation" ELSE "get")
    /\ key' = [key EXCEPT ![r] = 0]
    /\ result' = [result EXCEPT ![r] = NoResult]
    /\ asOf' = [asOf EXCEPT ![r] = settled]
    /\ UNCHANGED <<owner, redis, value, writers, faults, settled, lapse>>

Generation(r) ==
    /\ pc[r] = "generation" /\ redisUp
    /\ key' = [key EXCEPT ![r] = generation]
    /\ Goto(r, "get")
    /\ UNCHANGED <<owner, redis, value, result, writers, faults, history>>

(* The failure is taken for generation 0. *)
GenerationFails(r) ==
    /\ pc[r] = "generation"
    /\ RedisFails
    /\ key' = [key EXCEPT ![r] = 0]
    /\ Goto(r, "get")
    /\ lapse' = TRUE
    /\ UNCHANGED <<owner, redis, value, result, writers, settled, asOf>>

Return(r, v) == /\ result' = [result EXCEPT ![r] = v]
                /\ Goto(r, "idle")

(* Variants: any value found is returned, and a value found is also stored *)
(* again.                                                                  *)
Hit_Any(r) ==
    /\ pc[r] = "get" /\ redisUp
    /\ entry[key[r]] # Absent
    /\ Return(r, entry[key[r]])
    /\ UNCHANGED <<owner, redis, key, value, writers, faults, history>>

Hit_Renews(r) ==
    /\ pc[r] = "get" /\ redisUp
    /\ Readable(entry[key[r]])
    /\ value' = [value EXCEPT ![r] = entry[key[r]]]
    /\ Goto(r, "set")
    /\ UNCHANGED <<owner, redis, key, result, writers, faults, history>>

Hit(r) ==
    /\ pc[r] = "get" /\ redisUp
    /\ Readable(entry[key[r]])
    /\ Return(r, entry[key[r]])
    /\ UNCHANGED <<owner, redis, key, value, writers, faults, history>>

(* Absent, unreadable or no answer: the request builds its own. *)
Miss(r) ==
    /\ pc[r] = "get"
    /\ IF redisUp /\ ~Readable(entry[key[r]]) THEN UNCHANGED faults ELSE RedisFails
    /\ Goto(r, "build")
    /\ UNCHANGED <<owner, redis, key, value, result, writers, history>>

Build(r) ==
    /\ pc[r] = "build"
    /\ value' = [value EXCEPT ![r] = version]
    /\ IF Enabled THEN Goto(r, "set") /\ UNCHANGED result ELSE Return(r, version)
    /\ UNCHANGED <<owner, redis, key, writers, faults, history>>

(* The error goes up and nothing is stored. *)
BuildFails(r) ==
    /\ pc[r] = "build"
    /\ Goto(r, "idle")
    /\ UNCHANGED <<owner, redis, key, value, result, writers, faults, history>>

(* Variant: the answer goes under the generation there is by now. *)
Stored_Latest(r) == [entry EXCEPT ![generation] = value[r]]

Stored(r) == [entry EXCEPT ![key[r]] = value[r]]

(* Storing an answer older than the data is the lapse of a key without     *)
(* generation.                                                             *)
Set(r) ==
    /\ pc[r] = "set" /\ redisUp
    /\ entry' = Stored(r)
    /\ lapse' = IF ~generational /\ value[r] # version THEN TRUE ELSE lapse
    /\ Return(r, value[r])
    /\ UNCHANGED <<owner, generation, redisUp, key, value, writers, faults,
                   settled, asOf>>

(* The request succeeds all the same, whether Redis stored it or not; an   *)
(* answer that was stored but not confirmed is a Set.                      *)
SetFails(r) ==
    /\ pc[r] = "set"
    /\ RedisFails
    /\ Return(r, value[r])
    /\ UNCHANGED <<owner, redis, key, value, writers, history>>

-----------------------------------------------------------------------------
(* A write of the owner: the data first, then the invalidation.            *)

Write(w) ==
    /\ writerPc[w] = "idle" /\ version < MaxVersion
    /\ version' = version + 1
    /\ wrote' = [wrote EXCEPT ![w] = version + 1]
    /\ writerPc' = [writerPc EXCEPT ![w] = "invalidate"]
    /\ UNCHANGED <<generational, redis, readers, faults, history>>

Invalidation ==
    IF ~Enabled THEN UNCHANGED <<entry, generation>>
    ELSE IF generational
    THEN /\ generation < MaxGeneration
         /\ generation' = generation + 1
         /\ UNCHANGED entry
    ELSE /\ entry' = [entry EXCEPT ![0] = Absent]
         /\ UNCHANGED generation

Invalidate(w) ==
    /\ writerPc[w] = "invalidate" /\ (redisUp \/ ~Enabled)
    /\ Invalidation
    /\ writerPc' = [writerPc EXCEPT ![w] = "idle"]
    /\ settled' = IF wrote[w] > settled THEN wrote[w] ELSE settled
    /\ UNCHANGED <<owner, redisUp, readers, wrote, faults, asOf, lapse>>

(* The error goes to the writer, who tries again or leaves it at that.     *)
(* Redis may have done it.                                                 *)
InvalidateFails(w) ==
    /\ writerPc[w] = "invalidate" /\ Enabled
    /\ RedisFails
    /\ \/ redisUp /\ Invalidation
       \/ UNCHANGED <<entry, generation>>
    /\ \E next \in {"idle", "invalidate"} : writerPc' = [writerPc EXCEPT ![w] = next]
    /\ UNCHANGED <<owner, redisUp, readers, wrote, history>>

-----------------------------------------------------------------------------
(* Redis.                                                                  *)

(* The ttl of an answer ends. *)
Expire(k) == /\ entry[k] # Absent
             /\ entry' = [entry EXCEPT ![k] = Absent]
             /\ UNCHANGED <<owner, generation, redisUp, readers, writers, faults, history>>

(* An answer is in a format that this service does not read. *)
Spoil(k) == /\ Readable(entry[k])
            /\ Fault
            /\ entry' = [entry EXCEPT ![k] = Unreadable]
            /\ UNCHANGED <<owner, generation, redisUp, readers, writers, history>>

(* The generation is evicted, and its scope is back in the first one. *)
GenerationLost == /\ generation # 0
                  /\ Fault
                  /\ generation' = 0
                  /\ lapse' = TRUE
                  /\ UNCHANGED <<owner, entry, redisUp, readers, writers, settled, asOf>>

RedisGoesDown == /\ redisUp
                 /\ Fault
                 /\ redisUp' = FALSE
                 /\ UNCHANGED <<owner, entry, generation, readers, writers, history>>

RedisComesUp == /\ ~redisUp
                /\ redisUp' = TRUE
                /\ UNCHANGED <<owner, entry, generation, readers, writers, faults, history>>

-----------------------------------------------------------------------------
Request(r) == \/ Begin(r) \/ Generation(r) \/ GenerationFails(r)
              \/ Hit(r) \/ Miss(r) \/ Build(r) \/ BuildFails(r)
              \/ Set(r) \/ SetFails(r)

Next == \/ \E r \in Reader : Request(r)
        \/ \E w \in Writer : Write(w) \/ Invalidate(w) \/ InvalidateFails(w)
        \/ \E k \in Keys : Expire(k) \/ Spoil(k)
        \/ GenerationLost \/ RedisGoesDown \/ RedisComesUp

Spec == Init /\ [][Next]_vars

(* Requests run, answers expire and an outage of Redis ends. *)
FairSpec == /\ Spec
            /\ \A r \in Reader : WF_vars(Request(r))
            /\ \A k \in Keys : WF_vars(Expire(k))
            /\ WF_vars(RedisComesUp)

-----------------------------------------------------------------------------
(* Properties.                                                             *)

(* The values the variables range over. *)
TypeOK ==
    /\ version \in 0 .. MaxVersion
    /\ generational \in BOOLEAN
    /\ entry \in [Keys -> {Absent, Unreadable} \cup 0 .. MaxVersion]
    /\ generation \in Keys
    /\ redisUp \in BOOLEAN
    /\ pc \in [Reader -> {"idle", "generation", "get", "build", "set"}]
    /\ key \in [Reader -> Keys]
    /\ value \in [Reader -> 0 .. MaxVersion]
    /\ result \in [Reader -> {NoResult} \cup 0 .. MaxVersion]
    /\ writerPc \in [Writer -> {"idle", "invalidate"}]
    /\ wrote \in [Writer -> 0 .. MaxVersion]
    /\ faults \in 0 .. MaxFaults
    /\ settled \in 0 .. MaxVersion
    /\ asOf \in [Reader -> 0 .. MaxVersion]
    /\ lapse \in BOOLEAN

Served(r) == pc[r] = "idle" /\ result[r] # NoResult

(* No request is served data older than a write whose invalidation had     *)
(* finished when it began.  The package comment of cache.go states it.     *)
NoStaleAnswers == \A r \in Reader : Served(r) => result[r] >= asOf[r]

(* The same, save for the lapse of each scheme: without generations, an    *)
(* answer that was being built during the write and stored after the       *)
(* Forget; with generations, a Generation call that failed or a generation *)
(* that was evicted.  Failures of the other calls, outages and unreadable  *)
(* values do not cost it (Resolve, Forget, NextGeneration).                *)
StaleOnlyByLapse == lapse \/ NoStaleAnswers

(* Whatever failed or lapsed, stale answers end with their ttl (Resolve).  *)
StaleDoesNotLast == <>[](\A r \in Reader : result[r] \in {NoResult, version})
=============================================================================
