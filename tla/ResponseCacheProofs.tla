------------------------ MODULE ResponseCacheProofs -------------------------
(***************************************************************************)
(* What the cache guarantees for any number of readers, writers, writes    *)
(* and failures.                                                           *)
(***************************************************************************)
EXTENDS ResponseCache, TLAPS

(* What holds whatever is lost: nothing is newer than the data. *)
Ordered == /\ settled <= version
           /\ \A r \in Reader : asOf[r] <= settled
           /\ \A w \in Writer : wrote[w] <= version

(* While nothing lapsed, readers know no later generation than Redis, a    *)
(* request under way has no answer yet, and without Redis nothing is       *)
(* stored.                                                                 *)
Bounded == /\ Ordered
           /\ \A r \in Reader : key[r] <= generation
           /\ ~generational => generation = 0
           /\ \A k \in Keys : k > generation => entry[k] = Absent
           /\ \A r \in Reader : pc[r] # "idle" => result[r] = NoResult
           /\ ~Enabled => /\ \A r \in Reader : pc[r] \in {"idle", "build"}
                          /\ \A k \in Keys : entry[k] = Absent

(* A reader that is about to look finds no answer older than its request,  *)
(* and one that starts to look now finds none older than what is settled.  *)
FreshEntries ==
    /\ Readable(entry[generation]) => entry[generation] >= settled
    /\ \A r \in Reader : pc[r] = "get" /\ Readable(entry[key[r]])
                            => entry[key[r]] >= asOf[r]

(* What readers are about to store keeps the entries fresh: under the      *)
(* generation in force it is not older than what is settled, and it is not *)
(* older than the request of any reader that looks there.                  *)
FreshStores ==
    \A q \in Reader : pc[q] = "set" =>
        /\ key[q] = generation => value[q] >= settled
        /\ \A r \in Reader : pc[r] = "get" /\ key[r] = key[q] => value[q] >= asOf[r]

(* A reader's own answer is as new as its request. *)
FreshValues == \A r \in Reader : pc[r] = "set" => value[r] >= asOf[r]

Fresh == /\ FreshEntries
         /\ generational => FreshStores
         /\ NoStaleAnswers

IInv == TypeOK /\ Ordered /\ FreshValues /\ (lapse \/ (Bounded /\ Fresh))

LEMMA Constants == /\ Enabled \in BOOLEAN
                   /\ MaxVersion \in Nat /\ MaxGeneration \in Nat /\ MaxFaults \in Nat
                   /\ 0 \in Keys /\ Keys \subseteq Nat
BY CacheAssumption DEF Keys

(* The numbers among the variables. *)
LEMMA Numbers ==
    ASSUME TypeOK
    PROVE  /\ version \in Nat /\ settled \in Nat /\ generation \in Nat /\ generation \in Keys
           /\ entry \in [Keys -> Int]
           /\ key \in [Reader -> Keys]
           /\ value \in [Reader -> Nat]
           /\ result \in [Reader -> Int]
           /\ asOf \in [Reader -> Nat]
           /\ wrote \in [Writer -> Nat]
           /\ DOMAIN pc = Reader
<1> USE Constants DEF TypeOK, Absent, Unreadable, NoResult
<1>1. version \in Nat /\ settled \in Nat /\ generation \in Nat /\ generation \in Keys
  OBVIOUS
<1>2. entry \in [Keys -> Int] /\ key \in [Reader -> Keys]
  OBVIOUS
<1>3. value \in [Reader -> Nat] /\ result \in [Reader -> Int]
  OBVIOUS
<1>4. asOf \in [Reader -> Nat] /\ wrote \in [Writer -> Nat]
  OBVIOUS
<1>5. DOMAIN pc = Reader
  OBVIOUS
<1> QED BY <1>1, <1>2, <1>3, <1>4, <1>5, Zenon

(* At first nothing was written, stored or asked. *)
LEMMA InitIsSound == Init => IInv
<1> SUFFICES ASSUME Init PROVE IInv
  OBVIOUS
<1>1. TypeOK
  <2>1. /\ version \in 0 .. MaxVersion /\ generation \in Keys
        /\ faults \in 0 .. MaxFaults /\ settled \in 0 .. MaxVersion
    BY Constants DEF Init
  <2>2. /\ entry \in [Keys -> {Absent, Unreadable} \cup 0 .. MaxVersion]
        /\ key \in [Reader -> Keys]
        /\ value \in [Reader -> 0 .. MaxVersion]
        /\ result \in [Reader -> {NoResult} \cup 0 .. MaxVersion]
        /\ wrote \in [Writer -> 0 .. MaxVersion]
        /\ asOf \in [Reader -> 0 .. MaxVersion]
    BY Constants DEF Init
  <2>3. generational \in BOOLEAN /\ redisUp \in BOOLEAN /\ lapse \in BOOLEAN
    BY Zenon DEF Init
  <2>4. /\ pc \in [Reader -> {"idle", "generation", "get", "build", "set"}]
        /\ writerPc \in [Writer -> {"idle", "invalidate"}]
    BY DEF Init
  <2> QED BY <2>1, <2>2, <2>3, <2>4, Zenon DEF TypeOK
<1>2. Bounded
  BY Constants DEF Init, Ordered, Bounded
<1>3. FreshValues
  BY DEF Init, FreshValues
<1>4. Fresh
  <2>1. FreshEntries
    BY Constants DEF Init, FreshEntries, Readable, Absent
  <2>2. FreshStores
    BY DEF Init, FreshStores
  <2>3. NoStaleAnswers
    BY DEF Init, NoStaleAnswers, Served
  <2> QED BY <2>1, <2>2, <2>3 DEF Fresh
<1> QED BY <1>1, <1>2, <1>3, <1>4 DEF IInv, Bounded

-----------------------------------------------------------------------------
(* Types.                                                                  *)

LEMMA RequestKeepsTypes ==
    ASSUME TypeOK, NEW r \in Reader, Request(r)
    PROVE  TypeOK'
<1> USE Constants DEF TypeOK, Goto, Return, Fault, RedisFails, owner, redis, readers, writers, history
<1>1. CASE Begin(r)
  BY <1>1 DEF Begin
<1>2. CASE Generation(r)
  BY <1>2 DEF Generation
<1>3. CASE GenerationFails(r)
  BY <1>3 DEF GenerationFails
<1>4. CASE Hit(r)
  <2>1. entry[key[r]] \in {Absent, Unreadable} \cup 0 .. MaxVersion /\ entry[key[r]] >= 0
    BY <1>4 DEF Hit, Readable
  <2>2. entry[key[r]] \in 0 .. MaxVersion
    BY <2>1 DEF Absent, Unreadable
  <2> QED BY <1>4, <2>2 DEF Hit
<1>5. CASE Miss(r)
  BY <1>5 DEF Miss
<1>6. CASE Build(r)
  BY <1>6 DEF Build
<1>7. CASE BuildFails(r)
  BY <1>7 DEF BuildFails
<1>8. CASE Set(r)
  <2>1. entry' \in [Keys -> {Absent, Unreadable} \cup 0 .. MaxVersion]
    BY <1>8 DEF Set, Stored
  <2>2. result' \in [Reader -> {NoResult} \cup 0 .. MaxVersion]
    BY <1>8 DEF Set
  <2>3. pc' \in [Reader -> {"idle", "generation", "get", "build", "set"}]
    BY <1>8 DEF Set
  <2>4. lapse' \in BOOLEAN
    BY <1>8, Zenon DEF Set
  <2>5. UNCHANGED <<owner, generation, redisUp, key, value, writers, faults,
                    settled, asOf>>
    BY <1>8 DEF Set
  <2> HIDE DEF Goto, Return
  <2> QED BY <2>1, <2>2, <2>3, <2>4, <2>5, Zenon
<1>9. CASE SetFails(r)
  BY <1>9 DEF SetFails
<1> QED BY <1>1, <1>2, <1>3, <1>4, <1>5, <1>6, <1>7, <1>8, <1>9 DEF Request

LEMMA WriterKeepsTypes ==
    ASSUME TypeOK, NEW w \in Writer, Write(w) \/ Invalidate(w) \/ InvalidateFails(w)
    PROVE  TypeOK'
<1> USE Constants DEF TypeOK, Fault, RedisFails, Invalidation, owner, redis, readers, writers, history
<1>1. CASE Write(w)
  BY <1>1 DEF Write
<1>2. CASE Invalidate(w)
  BY <1>2 DEF Invalidate, Keys
<1>3. CASE InvalidateFails(w)
  BY <1>3 DEF InvalidateFails, Keys
<1> QED BY <1>1, <1>2, <1>3

LEMMA RedisKeepsTypes ==
    ASSUME TypeOK,
           \/ \E k \in Keys : Expire(k) \/ Spoil(k)
           \/ RedisGoesDown \/ RedisComesUp
    PROVE  TypeOK'
<1> USE Constants DEF TypeOK, Fault, owner, redis, readers, writers, history
<1>1. ASSUME NEW k \in Keys, Expire(k) \/ Spoil(k) PROVE TypeOK'
  BY <1>1 DEF Expire, Spoil
<1>2. CASE RedisGoesDown \/ RedisComesUp
  <2>1. redisUp' \in BOOLEAN
    BY <1>2, Zenon DEF RedisGoesDown, RedisComesUp
  <2>2. faults' \in 0 .. MaxFaults
    BY <1>2 DEF RedisGoesDown, RedisComesUp
  <2>3. UNCHANGED <<owner, entry, generation, readers, writers, history>>
    BY <1>2, Zenon DEF RedisGoesDown, RedisComesUp
  <2> QED BY <2>1, <2>2, <2>3, Zenon
<1> QED BY <1>1, <1>2

-----------------------------------------------------------------------------
(* Bounds of the versions.                                                 *)

LEMMA StepKeepsOrder ==
    ASSUME TypeOK, Ordered, Next
    PROVE  Ordered'
<1> USE Constants, Numbers DEF Ordered, owner, redis, readers, writers, history
<1>1. ASSUME NEW r \in Reader, Request(r) PROVE Ordered'
  <2>1. CASE Begin(r)
    BY <2>1 DEF Begin
  <2>2. CASE ~Begin(r)
    <3>1. UNCHANGED <<owner, wrote, settled, asOf>>
      BY <1>1, <2>2, Zenon DEF Request, Generation, GenerationFails, Hit, Miss, Build, BuildFails,
                               Set, SetFails
    <3> QED BY <3>1
  <2> QED BY <2>1, <2>2
<1>2. ASSUME NEW w \in Writer, Write(w) PROVE Ordered'
  BY <1>2 DEF Write
<1>3. ASSUME NEW w \in Writer, Invalidate(w) PROVE Ordered'
  BY <1>3 DEF Invalidate
<1>4. ASSUME NEW w \in Writer, InvalidateFails(w) PROVE Ordered'
  BY <1>4 DEF InvalidateFails
<1>5. ASSUME \/ \E k \in Keys : Expire(k) \/ Spoil(k)
             \/ GenerationLost \/ RedisGoesDown \/ RedisComesUp
      PROVE  Ordered'
  <2>1. UNCHANGED <<owner, wrote, settled, asOf>>
    BY <1>5, Zenon DEF Expire, Spoil, GenerationLost, RedisGoesDown, RedisComesUp
  <2> QED BY <2>1
<1> QED BY <1>1, <1>2, <1>3, <1>4, <1>5 DEF Next

(* Generations a reader may know, and entries, of later ones stay absent.  *)
LEMMA RequestKeepsBounds ==
    ASSUME TypeOK, Bounded, NEW r \in Reader, Request(r)
    PROVE  Bounded'
<1> USE Constants, Numbers DEF Ordered, Bounded, Goto, Return, owner, redis, readers, writers, history
<1>1. CASE Begin(r)
  BY <1>1 DEF Begin
<1>2. CASE Generation(r)
  BY <1>2 DEF Generation
<1>3. CASE GenerationFails(r)
  BY <1>3 DEF GenerationFails
<1>4. CASE Hit(r) \/ Miss(r) \/ Build(r) \/ BuildFails(r) \/ SetFails(r)
  <2>1. UNCHANGED <<owner, settled, asOf, wrote, key, generation, entry>>
    BY <1>4 DEF Hit, Miss, Build, BuildFails, SetFails
  <2>2. ~Enabled => \A q \in Reader : pc'[q] \in {"idle", "build"}
    BY <1>4 DEF Hit, Miss, Build, BuildFails, SetFails, TypeOK
  <2>3. \A q \in Reader : pc'[q] # "idle" => result'[q] = NoResult
    BY <1>4 DEF Hit, Miss, Build, BuildFails, SetFails, TypeOK
  <2> QED BY <2>1, <2>2, <2>3
<1>5. CASE Set(r)
  <2>1. UNCHANGED <<owner, settled, asOf, wrote, key, generation>>
    BY <1>5 DEF Set
  <2>2. \A k \in Keys : k > generation => entry'[k] = Absent
    BY <1>5 DEF Set, Stored
  <2>3. Enabled
    BY <1>5 DEF Set
  <2>4. \A q \in Reader : pc'[q] # "idle" => result'[q] = NoResult
    BY <1>5 DEF Set, TypeOK
  <2> QED BY <2>1, <2>2, <2>3, <2>4
<1> QED BY <1>1, <1>2, <1>3, <1>4, <1>5 DEF Request

(* An invalidation empties the key in force, moving to it or in place, and *)
(* fills none.                                                             *)
LEMMA InvalidationIsSound ==
    ASSUME TypeOK, Bounded, Invalidation
    PROVE  /\ generation' \in Keys /\ generation <= generation'
           /\ ~generational => generation' = 0
           /\ generational /\ Enabled => generation' = generation + 1
           /\ entry'[generation'] = Absent
           /\ \A k \in Keys : entry'[k] = entry[k] \/ entry'[k] = Absent
           /\ \A k \in Keys : k > generation' => entry'[k] = Absent
           /\ ~Enabled => entry' = entry
<1> USE Constants, Numbers DEF Ordered, Bounded, Invalidation
<1>1. CASE ~Enabled
  BY <1>1
<1>2. CASE Enabled /\ generational
  BY <1>2 DEF Keys
<1>3. CASE Enabled /\ ~generational
  BY <1>3
<1> QED BY <1>1, <1>2, <1>3

LEMMA WriterKeepsBounds ==
    ASSUME TypeOK, Bounded, NEW w \in Writer, Write(w) \/ Invalidate(w) \/ InvalidateFails(w)
    PROVE  Bounded'
<1> USE Constants, Numbers DEF Ordered, Bounded
<1>1. CASE Write(w)
  BY <1>1 DEF Write, owner, redis, readers, history
<1>2. ASSUME Invalidate(w) \/ InvalidateFails(w) PROVE Bounded'
  <2>1. UNCHANGED <<owner, pc, key, result, asOf, wrote>>
    BY <1>2 DEF Invalidate, InvalidateFails, owner, readers, history
  <2>2. settled' <= version /\ settled <= settled' /\ settled' \in Nat
    BY <1>2 DEF Invalidate, InvalidateFails, history
  <2>3. Invalidation \/ UNCHANGED <<entry, generation>>
    BY <1>2 DEF Invalidate, InvalidateFails
  <2>4. /\ generation <= generation' /\ generation' \in Nat
        /\ ~generational => generation' = 0
        /\ \A k \in Keys : k > generation' => entry'[k] = Absent
        /\ ~Enabled => \A k \in Keys : entry'[k] = Absent
    <3>1. CASE Invalidation
      BY <3>1, InvalidationIsSound, Zenon DEF Keys
    <3>2. CASE UNCHANGED <<entry, generation>>
      BY <3>2
    <3> QED BY <2>3, <3>1, <3>2
  <2>5. \A r \in Reader : asOf'[r] <= settled' /\ key'[r] <= generation'
    <3> TAKE r \in Reader
    <3>1. /\ asOf[r] \in Nat /\ settled \in Nat /\ asOf[r] <= settled
          /\ key[r] \in Nat /\ generation \in Nat /\ key[r] <= generation
      OBVIOUS
    <3>2. asOf'[r] = asOf[r] /\ key'[r] = key[r]
      <4>1. asOf' = asOf /\ key' = key
        BY <1>2 DEF Invalidate, InvalidateFails, owner, readers, history
      <4> QED BY <4>1
    <3> QED BY <2>2, <2>4, <3>1, <3>2
  <2>6. \A v \in Writer : wrote'[v] <= version'
    BY <2>1 DEF owner
  <2>7. \A r \in Reader : pc'[r] # "idle" => result'[r] = NoResult
    BY <2>1
  <2>8. ~Enabled => \A r \in Reader : pc'[r] \in {"idle", "build"}
    BY <2>1
  <2> QED BY <2>1, <2>2, <2>4, <2>5, <2>6, <2>7, <2>8, Zenon DEF owner
<1> QED BY <1>1, <1>2

LEMMA RedisKeepsBounds ==
    ASSUME TypeOK, Bounded,
           \/ \E k \in Keys : Expire(k) \/ Spoil(k)
           \/ RedisGoesDown \/ RedisComesUp
    PROVE  Bounded'
<1> USE Constants, Numbers DEF Ordered, Bounded, owner, redis, readers, writers, history
<1>1. ASSUME NEW k \in Keys, Expire(k) \/ Spoil(k) PROVE Bounded'
  BY <1>1 DEF Expire, Spoil, Readable, Absent
<1>2. CASE RedisGoesDown \/ RedisComesUp
  BY <1>2 DEF RedisGoesDown, RedisComesUp
<1> QED BY <1>1, <1>2

-----------------------------------------------------------------------------
(* Freshness.                                                              *)

LEMMA RequestKeepsFreshValues ==
    ASSUME TypeOK, Ordered, FreshValues, NEW r \in Reader, Request(r)
    PROVE  FreshValues'
<1> USE Constants, Numbers DEF Ordered, Bounded, FreshValues, Goto, Return, owner, redis, readers,
                               writers, history
<1>1. CASE Begin(r)
  BY <1>1 DEF Begin
<1>2. CASE Generation(r) \/ GenerationFails(r)
  BY <1>2 DEF Generation, GenerationFails
<1>3. CASE Hit(r) \/ Miss(r) \/ BuildFails(r) \/ Set(r) \/ SetFails(r)
  BY <1>3 DEF Hit, Miss, BuildFails, Set, SetFails
<1>4. CASE Build(r)
  BY <1>4 DEF Build
<1> QED BY <1>1, <1>2, <1>3, <1>4 DEF Request

(* Steps of a reader, one at a time.                                       *)
LEMMA RequestKeepsFresh ==
    ASSUME TypeOK, Bounded, FreshValues, Fresh, NEW r \in Reader, Request(r), ~lapse'
    PROVE  Fresh'
<1> USE Constants, Numbers DEF Ordered, Bounded, Fresh, Goto, Return, owner, redis, readers, writers, history
<1>a. generational' = generational
  BY DEF Request, Begin, Generation, GenerationFails, Hit, Miss, Build, BuildFails, Set, SetFails
<1>1. CASE Begin(r)
  <2>1. FreshEntries'
    BY <1>1 DEF Begin, FreshEntries
  <2>2. generational => FreshStores'
    BY <1>1 DEF Begin, FreshStores
  <2>3. NoStaleAnswers'
    BY <1>1 DEF Begin, NoStaleAnswers, Served
  <2> QED BY <1>a, <2>1, <2>2, <2>3
<1>2. CASE Generation(r)
  <2>1. FreshEntries'
    BY <1>2 DEF Generation, FreshEntries
  <2>2. generational => FreshStores'
    BY <1>2 DEF Generation, FreshStores
  <2>3. NoStaleAnswers'
    BY <1>2 DEF Generation, NoStaleAnswers, Served
  <2> QED BY <1>a, <2>1, <2>2, <2>3
<1>3. CASE GenerationFails(r)
  BY <1>3 DEF GenerationFails
<1>4. CASE Hit(r)
  <2>1. FreshEntries'
    BY <1>4 DEF Hit, FreshEntries
  <2>2. generational => FreshStores'
    BY <1>4 DEF Hit, FreshStores
  <2>3. NoStaleAnswers'
    BY <1>4 DEF Hit, FreshEntries, NoStaleAnswers, Served
  <2> QED BY <1>a, <2>1, <2>2, <2>3
<1>5. CASE Miss(r) \/ BuildFails(r)
  <2>1. FreshEntries'
    BY <1>5 DEF Miss, BuildFails, FreshEntries
  <2>2. generational => FreshStores'
    BY <1>5 DEF Miss, BuildFails, FreshStores
  <2>3. NoStaleAnswers'
    <3>1. \A q \in Reader : pc'[q] = "idle" => pc[q] = "idle" \/ q = r
      BY <1>5 DEF Miss, BuildFails, TypeOK
    <3>2. result'[r] = result[r] /\ result' = result /\ asOf' = asOf
      BY <1>5 DEF Miss, BuildFails
    <3> QED BY <1>5, <3>1, <3>2 DEF Miss, BuildFails, NoStaleAnswers, Served
  <2> QED BY <1>a, <2>1, <2>2, <2>3
<1>6. CASE Build(r)
  <2>1. FreshEntries'
    BY <1>6 DEF Build, FreshEntries
  <2>2. generational => FreshStores'
    BY <1>6 DEF Build, FreshStores
  <2>3. NoStaleAnswers'
    BY <1>6 DEF Build, NoStaleAnswers, Served
  <2> QED BY <1>a, <2>1, <2>2, <2>3
<1>7. CASE SetFails(r)
  <2>1. FreshEntries'
    BY <1>7 DEF SetFails, FreshEntries
  <2>2. generational => FreshStores'
    BY <1>7 DEF SetFails, FreshStores
  <2>3. NoStaleAnswers'
    BY <1>7 DEF SetFails, FreshValues, NoStaleAnswers, Served
  <2> QED BY <1>a, <2>1, <2>2, <2>3
<1>8. CASE Set(r)
  <2>1. FreshEntries'
    BY <1>8 DEF Set, Stored, FreshEntries, FreshStores
  <2>2. generational => FreshStores'
    BY <1>8 DEF Set, FreshStores
  <2>3. NoStaleAnswers'
    BY <1>8 DEF Set, FreshValues, NoStaleAnswers, Served
  <2> QED BY <1>a, <2>1, <2>2, <2>3
<1> QED BY <1>1, <1>2, <1>3, <1>4, <1>5, <1>6, <1>7, <1>8 DEF Request

(* A write makes nothing fresh stale, and an invalidation leaves nothing   *)
(* under the key in force.                                                 *)
LEMMA WriterKeepsFresh ==
    ASSUME TypeOK, Bounded, Fresh, NEW w \in Writer,
           Write(w) \/ Invalidate(w) \/ InvalidateFails(w), ~lapse'
    PROVE  Fresh'
<1> USE Constants, Numbers DEF Ordered, Bounded, Fresh
<1>1. UNCHANGED <<generational, pc, key, value, result, asOf>>
  BY DEF Write, Invalidate, InvalidateFails, owner, readers, history
<1>2. NoStaleAnswers'
  BY <1>1 DEF NoStaleAnswers, Served
<1>3. CASE Write(w)
  BY <1>1, <1>2, <1>3 DEF Write, FreshEntries, FreshStores, redis, history
<1>4. ASSUME Invalidation, Invalidate(w) \/ InvalidateFails(w) PROVE Fresh'
  <2>1. \A k \in Keys : entry'[k] = entry[k] \/ ~Readable(entry'[k])
    BY <1>4, InvalidationIsSound DEF Readable, Absent
  <2>2. ~Readable(entry'[generation'])
    BY <1>4, InvalidationIsSound DEF Readable, Absent
  <2>3. FreshEntries'
    BY <1>1, <2>1, <2>2 DEF FreshEntries
  <2>4. generational /\ Enabled => \A r \in Reader : key[r] # generation'
    BY <1>4, InvalidationIsSound
  <2>5. generational => FreshStores'
    BY <1>1, <2>4 DEF FreshStores
  <2> QED BY <1>1, <1>2, <2>3, <2>5
<1>5. ASSUME InvalidateFails(w), UNCHANGED <<entry, generation>> PROVE Fresh'
  <2>1. settled' = settled
    BY <1>5 DEF InvalidateFails, history
  <2> QED BY <1>1, <1>2, <1>5, <2>1 DEF FreshEntries, FreshStores
<1> QED BY <1>3, <1>4, <1>5 DEF Invalidate, InvalidateFails

LEMMA RedisKeepsFresh ==
    ASSUME TypeOK, Bounded, Fresh,
           \/ \E k \in Keys : Expire(k) \/ Spoil(k)
           \/ RedisGoesDown \/ RedisComesUp
    PROVE  Fresh'
<1> USE Constants, Numbers DEF Ordered, Bounded, Fresh, owner, redis, readers, writers, history
<1>1. UNCHANGED <<owner, generation, readers, settled, asOf>>
  BY DEF Expire, Spoil, RedisGoesDown, RedisComesUp
<1>2. \A k \in Keys : entry'[k] = entry[k] \/ ~Readable(entry'[k])
  BY DEF Expire, Spoil, RedisGoesDown, RedisComesUp, Readable, Absent, Unreadable
<1>3. FreshEntries'
  BY <1>1, <1>2 DEF FreshEntries
<1> QED BY <1>1, <1>3 DEF FreshStores, NoStaleAnswers, Served

-----------------------------------------------------------------------------
LEMMA LossKeepsIInv ==
    ASSUME TypeOK, FreshValues, GenerationLost
    PROVE  TypeOK' /\ FreshValues' /\ lapse'
<1> USE Constants, Numbers DEF TypeOK, GenerationLost, Fault, owner, readers, writers
<1>1. TypeOK' /\ lapse'
  OBVIOUS
<1>2. FreshValues'
  BY DEF FreshValues
<1> QED BY <1>1, <1>2

LEMMA StepKeepsIInv == IInv /\ [Next]_vars => IInv'
<1> SUFFICES ASSUME IInv, Next PROVE IInv'
  BY DEF vars, owner, redis, readers, writers, history, TypeOK, Ordered, Bounded, IInv, FreshValues,
         Fresh, FreshEntries, FreshStores, NoStaleAnswers, Served
<1>0. TypeOK /\ Ordered /\ FreshValues /\ (lapse \/ (Bounded /\ Fresh))
  BY DEF IInv
<1>1. Ordered'
  BY <1>0, StepKeepsOrder
<1>2. ASSUME NEW r \in Reader, Request(r) PROVE IInv'
  <2>1. lapse => lapse'
    BY <1>2, Zenon DEF Request, Begin, Generation, GenerationFails, Hit, Miss, Build, BuildFails,
                       Set, SetFails, history
  <2>2. TypeOK' /\ FreshValues'
    BY <1>0, <1>2, RequestKeepsTypes, RequestKeepsFreshValues, Zenon
  <2>3. lapse' \/ (Bounded' /\ Fresh')
    BY <1>0, <1>2, <2>1, RequestKeepsBounds, RequestKeepsFresh, Zenon
  <2> QED BY <1>1, <2>2, <2>3, Zenon DEF IInv
<1>3. ASSUME NEW w \in Writer, Write(w) \/ Invalidate(w) \/ InvalidateFails(w) PROVE IInv'
  <2>1. lapse' = lapse
    BY <1>3, Zenon DEF Write, Invalidate, InvalidateFails, history
  <2>2. FreshValues'
    BY <1>0, <1>3 DEF Write, Invalidate, InvalidateFails, owner, readers, history, FreshValues
  <2>3. TypeOK'
    BY <1>0, <1>3, WriterKeepsTypes, Zenon
  <2>4. lapse' \/ (Bounded' /\ Fresh')
    BY <1>0, <1>3, <2>1, WriterKeepsBounds, WriterKeepsFresh, Zenon
  <2> QED BY <1>1, <2>2, <2>3, <2>4, Zenon DEF IInv
<1>4. ASSUME \/ \E k \in Keys : Expire(k) \/ Spoil(k)
             \/ RedisGoesDown \/ RedisComesUp
      PROVE  IInv'
  <2>1. lapse' = lapse
    BY <1>4, Zenon DEF Expire, Spoil, RedisGoesDown, RedisComesUp, history
  <2>2. FreshValues'
    BY <1>0, <1>4 DEF Expire, Spoil, RedisGoesDown, RedisComesUp, owner, readers, history, FreshValues
  <2>3. TypeOK'
    BY <1>0, <1>4, RedisKeepsTypes, Zenon
  <2>4. lapse' \/ (Bounded' /\ Fresh')
    BY <1>0, <1>4, <2>1, RedisKeepsBounds, RedisKeepsFresh, Zenon
  <2> QED BY <1>1, <2>2, <2>3, <2>4, Zenon DEF IInv
<1>5. CASE GenerationLost
  BY <1>0, <1>1, <1>5, LossKeepsIInv, Zenon DEF IInv
<1> QED BY <1>2, <1>3, <1>4, <1>5, Zenon DEF Next

LEMMA IInvHolds == Spec => []IInv
BY InitIsSound, StepKeepsIInv, PTL DEF Spec

(* Every variable keeps its type. *)
THEOREM TypeCorrect == Spec => []TypeOK
<1>1. IInv => TypeOK
  BY DEF IInv
<1> QED BY <1>1, IInvHolds, PTL

(* No request is served data older than a write whose invalidation had     *)
(* finished when it began, unless the lapse of the scheme in use happened: *)
(* failures of Resolve, Forget and NextGeneration do not cost it.          *)
THEOREM StaleIsALapse == Spec => []StaleOnlyByLapse
<1>1. IInv => StaleOnlyByLapse
  BY DEF IInv, Fresh, StaleOnlyByLapse
<1> QED BY <1>1, IInvHolds, PTL

=============================================================================
