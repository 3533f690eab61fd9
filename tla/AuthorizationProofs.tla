------------------------- MODULE AuthorizationProofs -------------------------
(***************************************************************************)
(* What Authorization guarantees for any tokens, routes and requests.      *)
(***************************************************************************)
EXTENDS Authorization, TLAPS

(* What Redis knows of the tokens that are still good elsewhere. *)
KeysAreKept ==
    \A t \in Token : life[t] = "valid" =>
        /\ t \in loggedOut => t \in blacklist
        /\ version[t] < current[Claims[t].user] => version[t] < minimum[Claims[t].user]

(* Redis revokes nothing by itself. *)
KeysAreTrue == /\ blacklist \subseteq loggedOut
               /\ \A u \in User : minimum[u] <= current[u]

(* Only issued tokens are logged out or presented, so that the version of  *)
(* a presented token does not change.                                      *)
TokensAreIssued ==
    /\ \A t \in loggedOut : life[t] # "unissued"
    /\ \A q \in Request :
           pc[q] # "idle" \/ outcome[q] # "none" => life[token[q]] # "unissued"

(* How far a request with a revoked token gets: past the blacklist only    *)
(* with an old version, and past the version not at all.                   *)
RevokedIsStopped ==
    \A q \in Request : revokedBefore[q] =>
        /\ pc[q] = "blacklist" => Revoked(token[q])
        /\ pc[q] = "version" => \/ degraded[q] \/ life[token[q]] = "expired"
                                \/ version[token[q]] < current[UserOf(q)]
        /\ pc[q] = "guards" \/ outcome[q] = "handled"
             => degraded[q] \/ life[token[q]] = "expired"

(* Until the guards, the context holds the claims. *)
ContextIsClaims ==
    \A q \in Request : pc[q] # "idle" => acting[q] = Claims[token[q]].establishment

IInv == /\ TypeOK /\ KeysAreKept /\ KeysAreTrue /\ TokensAreIssued /\ RevokedIsStopped
        /\ ContextIsClaims /\ UnrevokedIsServed /\ ActsWithinEstablishment

-----------------------------------------------------------------------------
LEMMA ClaimsAreTyped ==
    /\ \A t \in Token : /\ Claims[t].user \in User
                        /\ Claims[t].establishment \in Establishment \cup {None}
    /\ \A r \in Route : r.establishment \in Establishment \cup {None}
    /\ MaxVersion \in Nat /\ MaxFaults \in Nat
BY AuthorizationAssumption DEF ClaimSets, Routes

(* The guards answer with one of four outcomes, and let a request on only  *)
(* in its establishment (RequireEstablishmentContext, RequireRole).        *)
LEMMA DecisionIsSound ==
    ASSUME NEW t, NEW r
    PROVE  /\ Decision(t, r) \in {"unauthorized", "forbidden", "paymentRequired", "handled"}
           /\ Decision(t, r) = "handled" => InEstablishment(t, r)
           /\ Decision(t, r) = "unauthorized" => LacksRole(t, r)
BY DEF Decision

LEMMA InitIsSound == Init => IInv
BY ClaimsAreTyped
   DEF Init, IInv, TypeOK, KeysAreKept, KeysAreTrue, TokensAreIssued, RevokedIsStopped,
       ContextIsClaims, UnrevokedIsServed, ActsWithinEstablishment

-----------------------------------------------------------------------------
(* Requests change nothing that others see. *)
LEMMA BeginKeepsIInv ==
    ASSUME IInv, NEW q \in Request, NEW t \in Token, NEW r \in Route, Begin(q, t, r)
    PROVE  IInv'
<1> USE ClaimsAreTyped DEF IInv, TypeOK
<1>1. /\ UNCHANGED <<life, version, current, blacklist, minimum, redisUp, faults, loggedOut>>
      /\ token' = [token EXCEPT ![q] = t] /\ route' = [route EXCEPT ![q] = r]
      /\ degraded' = [degraded EXCEPT ![q] = FALSE]
      /\ life[t] # "unissued"
  BY DEF Begin, issuer, redis
<1>2. /\ revokedBefore' \in [Request -> BOOLEAN]
      /\ revokedBefore'[q] => Revoked(t)
      /\ \A p \in Request \ {q} : revokedBefore'[p] = revokedBefore[p]
  <2>1. revokedBefore' = [revokedBefore EXCEPT ![q] = Revoked(t)]
    BY DEF Begin
  <2>2. Revoked(t) \in BOOLEAN
    BY DEF Revoked
  <2> QED BY <2>1, <2>2, Zenon
<1>3. \/ /\ acting' = [acting EXCEPT ![q] = Claims[t].establishment]
         /\ outcome' = [outcome EXCEPT ![q] = "none"]
         /\ pc' = [pc EXCEPT ![q] = "blacklist"]
      \/ /\ acting' = [acting EXCEPT ![q] = None]
         /\ outcome' = [outcome EXCEPT ![q] = "unauthorized"]
         /\ pc' = [pc EXCEPT ![q] = "idle"]
         /\ ~Claims[t].proper \/ life[t] # "valid"
  BY DEF Begin, Answer, Goto
<1>4. TypeOK'
  BY <1>1, <1>2, <1>3
<1>5. KeysAreKept' /\ KeysAreTrue'
  BY <1>1 DEF KeysAreKept, KeysAreTrue
<1>6. TokensAreIssued'
  BY <1>1, <1>3 DEF TokensAreIssued
<1>7. RevokedIsStopped'
  <2> SUFFICES ASSUME NEW p \in Request, revokedBefore'[p]
               PROVE  /\ pc'[p] = "blacklist" => Revoked(token[p])'
                      /\ pc'[p] = "version" =>
                           \/ degraded'[p] \/ life'[token'[p]] = "expired"
                           \/ version'[token'[p]] < current'[UserOf(p)']
                      /\ pc'[p] = "guards" \/ outcome'[p] = "handled"
                           => degraded'[p] \/ life'[token'[p]] = "expired"
    BY DEF RevokedIsStopped
  <2>1. CASE p = q
    BY <1>1, <1>2, <1>3, <2>1 DEF Revoked
  <2>2. CASE p # q
    BY <1>1, <1>2, <1>3, <2>2 DEF RevokedIsStopped, Revoked, UserOf
  <2> QED BY <2>1, <2>2
<1>8. ContextIsClaims'
  BY <1>1, <1>3 DEF ContextIsClaims
<1>9. UnrevokedIsServed'
  BY <1>1, <1>3 DEF UnrevokedIsServed, Revoked, LacksRole
<1>10. ActsWithinEstablishment'
  BY <1>1, <1>3 DEF ActsWithinEstablishment
<1> QED BY <1>4, <1>5, <1>6, <1>7, <1>8, <1>9, <1>10

LEMMA StepKeepsIInv ==
    ASSUME IInv, NEW q \in Request, Step(q)
    PROVE  IInv'
<1> USE ClaimsAreTyped DEF IInv, TypeOK
<1>1. UNCHANGED <<life, version, current, blacklist, minimum, redisUp, loggedOut,
                  revokedBefore, token, route>>
  BY DEF Step, CheckBlacklist, BlacklistFails, CheckVersion, VersionFails, Guard,
         issuer, redis, history
<1>2. KeysAreKept' /\ KeysAreTrue'
  BY <1>1 DEF KeysAreKept, KeysAreTrue
<1>3. CASE CheckBlacklist(q)
  <2>1. /\ UNCHANGED <<acting, degraded, faults>>
        /\ pc[q] = "blacklist"
        /\ \/ /\ token[q] \in blacklist
              /\ outcome' = [outcome EXCEPT ![q] = "unauthorized"]
              /\ pc' = [pc EXCEPT ![q] = "idle"]
           \/ /\ token[q] \notin blacklist
              /\ outcome' = outcome /\ pc' = [pc EXCEPT ![q] = "version"]
    BY <1>3 DEF CheckBlacklist, Answer, Goto
  <2>2. TypeOK' /\ TokensAreIssued' /\ ContextIsClaims'
    <3>1. TypeOK'
      BY <1>1, <2>1
    <3>2. TokensAreIssued' /\ ContextIsClaims'
      BY <1>1, <2>1 DEF TokensAreIssued, ContextIsClaims
    <3> QED BY <3>1, <3>2
  <2>3. RevokedIsStopped'
    BY <1>1, <2>1 DEF RevokedIsStopped, Revoked, UserOf, KeysAreKept, TokensAreIssued
  <2>4. UnrevokedIsServed' /\ ActsWithinEstablishment'
    <3>1. UnrevokedIsServed'
      BY <1>1, <2>1 DEF UnrevokedIsServed, Revoked, LacksRole, KeysAreTrue
    <3>2. ActsWithinEstablishment'
      BY <1>1, <2>1 DEF ActsWithinEstablishment
    <3> QED BY <3>1, <3>2
  <2> QED BY <1>2, <2>2, <2>3, <2>4
<1>4. CASE BlacklistFails(q) \/ VersionFails(q)
  <2>1. /\ UNCHANGED <<acting, outcome>>
        /\ degraded' = [degraded EXCEPT ![q] = TRUE]
        /\ faults' \in 0 .. MaxFaults
        /\ pc[q] # "idle"
        /\ pc' = [pc EXCEPT ![q] = "version"] \/ pc' = [pc EXCEPT ![q] = "guards"]
    BY <1>4 DEF BlacklistFails, VersionFails, RedisFails, Fault, Goto
  <2>2. TypeOK' /\ TokensAreIssued' /\ ContextIsClaims'
    BY <1>1, <2>1 DEF TokensAreIssued, ContextIsClaims
  <2>3. RevokedIsStopped'
    BY <1>1, <2>1 DEF RevokedIsStopped, Revoked, UserOf
  <2>4. UnrevokedIsServed'
    BY <1>1, <2>1 DEF UnrevokedIsServed, Revoked, LacksRole, UserOf
  <2>5. ActsWithinEstablishment'
    BY <1>1, <2>1 DEF ActsWithinEstablishment
  <2> QED BY <1>2, <2>2, <2>3, <2>4, <2>5
<1>5. CASE CheckVersion(q)
  <2>1. /\ UNCHANGED <<acting, degraded, faults>>
        /\ pc[q] = "version"
        /\ \/ /\ ~Claims[token[q]].versioned \/ Outdated(q)
              /\ outcome' = [outcome EXCEPT ![q] = "unauthorized"]
              /\ pc' = [pc EXCEPT ![q] = "idle"]
           \/ /\ ~Outdated(q)
              /\ outcome' = outcome /\ pc' = [pc EXCEPT ![q] = "guards"]
    BY <1>5 DEF CheckVersion, Answer, Goto
  <2>2. TypeOK' /\ TokensAreIssued' /\ ContextIsClaims'
    <3>1. TypeOK'
      BY <1>1, <2>1
    <3>2. TokensAreIssued' /\ ContextIsClaims'
      BY <1>1, <2>1 DEF TokensAreIssued, ContextIsClaims
    <3> QED BY <3>1, <3>2
  <2>3. RevokedIsStopped'
    BY <1>1, <2>1 DEF RevokedIsStopped, Revoked, UserOf, KeysAreKept, TokensAreIssued,
                      Outdated
  <2>4. UnrevokedIsServed' /\ ActsWithinEstablishment'
    <3>1. Outdated(q) => Revoked(token[q])
      BY DEF Outdated, Revoked, UserOf, KeysAreTrue
    <3>2. UnrevokedIsServed'
      BY <1>1, <2>1, <3>1 DEF UnrevokedIsServed, Revoked, LacksRole
    <3>3. ActsWithinEstablishment'
      BY <1>1, <2>1 DEF ActsWithinEstablishment
    <3> QED BY <3>2, <3>3
  <2> QED BY <1>2, <2>2, <2>3, <2>4
<1>6. CASE Guard(q)
  <2> DEFINE d == Decision(token[q], route[q])
  <2>1. /\ UNCHANGED <<degraded, faults>>
        /\ pc[q] = "guards"
        /\ outcome' = [outcome EXCEPT ![q] = d]
        /\ pc' = [pc EXCEPT ![q] = "idle"]
        /\ acting' = IF route[q].establishment # None /\ InEstablishment(token[q], route[q])
                     THEN [acting EXCEPT ![q] = route[q].establishment] ELSE acting
    BY <1>6 DEF Guard, Answer, Goto
  <2>2. /\ d \in {"unauthorized", "forbidden", "paymentRequired", "handled"}
        /\ d = "handled" => InEstablishment(token[q], route[q])
        /\ d = "unauthorized" => LacksRole(token[q], route[q])
    BY DecisionIsSound
  <2> HIDE DEF d
  <2>3. TypeOK' /\ TokensAreIssued' /\ ContextIsClaims'
    BY <1>1, <2>1, <2>2 DEF TokensAreIssued, ContextIsClaims
  <2>4. RevokedIsStopped'
    BY <1>1, <2>1, <2>2 DEF RevokedIsStopped, Revoked, UserOf
  <2>5. UnrevokedIsServed'
    BY <1>1, <2>1, <2>2 DEF UnrevokedIsServed, Revoked, LacksRole
  <2>6. ActsWithinEstablishment'
    BY <1>1, <2>1, <2>2 DEF ActsWithinEstablishment, ContextIsClaims, InEstablishment,
                            HasPlatformAccess
  <2> QED BY <1>2, <2>3, <2>4, <2>5, <2>6
<1> QED BY <1>3, <1>4, <1>5, <1>6 DEF Step

(* The auth service and Redis leave requests alone. *)
LEMMA SurroundingsKeepIInv ==
    ASSUME IInv,
           \/ \E t \in Token : Issue(t) \/ TokenExpires(t) \/ Logout(t) \/ BlacklistExpires(t)
           \/ \E u \in User : RevokeAll(u) \/ MinimumExpires(u)
           \/ RedisGoesDown \/ RedisComesUp
    PROVE  IInv'
<1> USE ClaimsAreTyped DEF IInv, TypeOK, KeysAreKept, KeysAreTrue, TokensAreIssued,
        RevokedIsStopped, ContextIsClaims, UnrevokedIsServed, ActsWithinEstablishment,
        Revoked, UserOf, LacksRole, issuer, redis, requests, history
<1>1. ASSUME NEW t \in Token, Issue(t) PROVE IInv'
  <2>1. /\ UNCHANGED <<current, blacklist, minimum, redisUp, faults, loggedOut,
                       revokedBefore, pc, token, route, outcome, acting, degraded>>
        /\ life[t] = "unissued" /\ life' = [life EXCEPT ![t] = "valid"]
        /\ version' = [version EXCEPT ![t] = current[Claims[t].user]]
    BY <1>1 DEF Issue
  <2>2. TypeOK' /\ KeysAreTrue' /\ TokensAreIssued' /\ ContextIsClaims'
    BY <2>1
  <2>3. KeysAreKept'
    BY <2>1
  <2>4. \A q \in Request : pc[q] # "idle" \/ outcome[q] # "none" => token[q] # t
    BY <2>1
  <2>5. RevokedIsStopped'
    BY <2>1, <2>4
  <2>6. UnrevokedIsServed'
    BY <2>1, <2>4
  <2>7. ActsWithinEstablishment'
    BY <2>1
  <2> QED BY <2>2, <2>3, <2>5, <2>6, <2>7
<1>2. ASSUME NEW t \in Token, TokenExpires(t) PROVE IInv'
  BY <1>2 DEF TokenExpires
<1>3. ASSUME NEW t \in Token, Logout(t) PROVE IInv'
  BY <1>3 DEF Logout
<1>4. ASSUME NEW t \in Token, BlacklistExpires(t) PROVE IInv'
  BY <1>4 DEF BlacklistExpires
<1>5. ASSUME NEW u \in User, RevokeAll(u) PROVE IInv'
  BY <1>5 DEF RevokeAll
<1>6. ASSUME NEW u \in User, MinimumExpires(u) PROVE IInv'
  <2>1. /\ UNCHANGED <<life, version, current, blacklist, redisUp, faults, loggedOut,
                       revokedBefore, pc, token, route, outcome, acting, degraded>>
        /\ minimum' = [minimum EXCEPT ![u] = 0]
        /\ \A t \in Token :
               Claims[t].user = u /\ life[t] = "valid" => version[t] >= minimum[u]
    BY <1>6 DEF MinimumExpires
  <2>2. TypeOK'
    BY <2>1
  <2>3. KeysAreKept'
    <3> SUFFICES ASSUME NEW t \in Token, life[t] = "valid",
                        version[t] < current[Claims[t].user]
                 PROVE  version[t] < minimum'[Claims[t].user]
      BY <2>1
    <3>1. version[t] < minimum[Claims[t].user]
      OBVIOUS
    <3>2. Claims[t].user # u
      BY <2>1, <3>1
    <3> QED BY <2>1, <3>1, <3>2
  <2>4. KeysAreTrue'
    BY <2>1
  <2>5. TokensAreIssued' /\ RevokedIsStopped' /\ ContextIsClaims' /\ UnrevokedIsServed'
        /\ ActsWithinEstablishment'
    BY <2>1
  <2> QED BY <2>2, <2>3, <2>4, <2>5
<1>7. CASE RedisGoesDown \/ RedisComesUp
  <2>1. /\ UNCHANGED <<life, version, current, blacklist, minimum, loggedOut,
                       revokedBefore, pc, token, route, outcome, acting, degraded>>
    BY <1>7 DEF RedisGoesDown, RedisComesUp
  <2>2. redisUp' \in BOOLEAN
    BY <1>7, Zenon DEF RedisGoesDown, RedisComesUp
  <2>3. faults' \in 0 .. MaxFaults
    BY <1>7 DEF RedisGoesDown, RedisComesUp, Fault
  <2> QED BY <2>1, <2>2, <2>3
<1> QED BY <1>1, <1>2, <1>3, <1>4, <1>5, <1>6, <1>7

LEMMA IInvIsInductive == IInv /\ [Next]_vars => IInv'
<1> SUFFICES ASSUME IInv, [Next]_vars PROVE IInv'
  OBVIOUS
<1>1. CASE UNCHANGED vars
  BY <1>1 DEF vars, issuer, redis, requests, history, IInv, TypeOK, KeysAreKept,
     KeysAreTrue, TokensAreIssued, RevokedIsStopped, ContextIsClaims, UnrevokedIsServed,
     ActsWithinEstablishment, Revoked, UserOf, LacksRole
<1> QED BY <1>1, BeginKeepsIInv, StepKeepsIInv, SurroundingsKeepIInv DEF Next

LEMMA IInvHolds == Spec => []IInv
BY InitIsSound, IInvIsInductive, PTL DEF Spec

LEMMA IInvIsStrongEnough ==
    IInv => TypeOK /\ RevokedIsRefused /\ UnrevokedIsServed /\ ActsWithinEstablishment
BY DEF IInv, RevokedIsStopped, RevokedIsRefused

(* Every variable keeps its type in every execution. *)
THEOREM TypeCorrect == Spec => []TypeOK
BY IInvHolds, IInvIsStrongEnough, PTL

(* No request with a token revoked before it began is handled, unless a    *)
(* check was counted as degraded, however revocations, logouts, expiring   *)
(* keys and outages fall between its steps (AuthMiddleware).               *)
THEOREM RevocationIsSafe == Spec => []RevokedIsRefused
BY IInvHolds, IInvIsStrongEnough, PTL

(* No failure of Redis costs anyone a session (RedisRevocationChecker). *)
THEOREM SessionsAreSafe == Spec => []UnrevokedIsServed
BY IInvHolds, IInvIsStrongEnough, PTL

(* A handled request acts on its own establishment unless it has access to *)
(* the platform (RequireEstablishmentContext).                             *)
THEOREM EstablishmentsAreSeparate == Spec => []ActsWithinEstablishment
BY IInvHolds, IInvIsStrongEnough, PTL
=============================================================================
