--------------------------- MODULE Authorization ---------------------------
(***************************************************************************)
(* pkg/middleware (auth.go, plan.go) and pkg/security: requests with user  *)
(* tokens, checked against the revocations that the auth service keeps in  *)
(* Redis, and then against the guards of their route.  The auth service    *)
(* and Redis are modelled from the way the code uses them.                 *)
(***************************************************************************)
EXTENDS Integers, SequencesExt

CONSTANTS Request,     \* slots for concurrent requests
          Token, User, Establishment,
          Claims,      \* what each token says (see ClaimSets)
          Route,       \* the guarded routes (see Routes)
          None,        \* stands for an absent claim, parameter or guard
          MaxVersion,  \* bound on a user's token version
          MaxFaults    \* bound on the failing calls and outages of Redis

PlanStatus == {"ok", "blocked", "noContract", "other", "none"}

(* A permission is the sequence of its parts.  A proper token is signed by *)
(* the auth service, of type access and has a sub and a jti.               *)
ClaimSets == [proper : BOOLEAN, versioned : BOOLEAN, user : User,
              establishment : Establishment \cup {None},
              permissions : SUBSET Seq(STRING), role : STRING \cup {None},
              plan : PlanStatus, modules : SUBSET STRING \cup {None}]

(* What the guards of a route ask for; an empty set is a guard left out.   *)
(* The establishment is the route's parameter, and brings the plan guard.  *)
Routes == [establishment : Establishment \cup {None}, module : STRING \cup {None},
           roles : SUBSET STRING, permissions : SUBSET Seq(STRING)]

ASSUME AuthorizationAssumption ==
    /\ Claims \in [Token -> ClaimSets]
    /\ Route \subseteq Routes
    /\ None \notin Establishment \cup STRING
    /\ {MaxVersion, MaxFaults} \subseteq Nat

VARIABLES
    life, version, current,   \* auth service: tokens, versions of its users
    blacklist, minimum,       \* Redis: tokens logged out, least good version
    redisUp,
    pc, token, route,         \* requests
    outcome, acting,          \* their answer, and establishment in context
    degraded,                 \* a check was counted as degraded
    faults,
    loggedOut,                \* history: tokens ever logged out,
    revokedBefore             \* and whether a request began with a dead one

issuer == <<life, version, current>>
redis == <<blacklist, minimum, redisUp>>
requests == <<pc, token, route, outcome, acting, degraded>>
history == <<loggedOut, revokedBefore>>
vars == <<issuer, redis, requests, faults, history>>

Init == /\ life = [t \in Token |-> "unissued"]
        /\ version = [t \in Token |-> 0]
        /\ current = [u \in User |-> 0]
        /\ blacklist = {}
        /\ minimum = [u \in User |-> 0]
        /\ redisUp = TRUE
        /\ pc = [q \in Request |-> "idle"]
        /\ token \in [Request -> Token]
        /\ route \in [Request -> Route]
        /\ outcome = [q \in Request |-> "none"]
        /\ acting = [q \in Request |-> None]
        /\ degraded = [q \in Request |-> FALSE]
        /\ faults = MaxFaults
        /\ loggedOut = {}
        /\ revokedBefore = [q \in Request |-> FALSE]

Goto(q, label) == pc' = [pc EXCEPT ![q] = label]

Answer(q, answer) == /\ outcome' = [outcome EXCEPT ![q] = answer]
                     /\ Goto(q, "idle")

Fault == faults > 0 /\ faults' = faults - 1

(* A call that Redis does not answer in time, or not with a number. *)
RedisFails == IF redisUp THEN Fault ELSE UNCHANGED faults

UserOf(q) == Claims[token[q]].user

(* Logged out, or issued before the last revocation of its user. *)
Revoked(t) == t \in loggedOut \/ version[t] < current[Claims[t].user]

-----------------------------------------------------------------------------
(* The guards of a route, decided from claims alone.                       *)

(* Variant: any wildcard is one of the platform. *)
HasPlatformAccess_AnyWildcard(t) ==
    \E g \in Claims[t].permissions : g # <<>> /\ Last(g) = "*"

HasPlatformAccess(t) ==
    \E g \in Claims[t].permissions : g = <<"*">> \/ g = <<"platform", "*">>

InEstablishment(t, r) == \/ r.establishment = None
                         \/ HasPlatformAccess(t)
                         \/ Claims[t].establishment = r.establishment

HasActivePlan(t, r) == \/ r.establishment = None
                       \/ HasPlatformAccess(t)
                       \/ Claims[t].plan \notin {"blocked", "noContract"}

HasModule(t, r) == \/ r.module = None
                   \/ HasPlatformAccess(t)
                   \/ Claims[t].modules = None
                   \/ r.module \in Claims[t].modules

HasRole(t, r) == r.roles = {} \/ Claims[t].role \in r.roles

(* A granted permission covers itself and, with a wildcard, all under it. *)
Covers(granted, p) ==
    \/ granted = p
    \/ granted # <<>> /\ Last(granted) = "*" /\ IsPrefix(Front(granted), p)

HasPermission(t, r) == \/ r.permissions = {}
                       \/ \E p \in r.permissions, granted \in Claims[t].permissions :
                              Covers(granted, p)

(* RequireRole takes a token without a role for an expired session. *)
LacksRole(t, r) == r.roles # {} /\ Claims[t].role = None

(* The guards in the order the routes put them.                            *)
Decision(t, r) ==
    IF ~InEstablishment(t, r) THEN "forbidden"
    ELSE IF ~HasActivePlan(t, r) THEN "paymentRequired"
    ELSE IF ~HasModule(t, r) THEN "forbidden"
    ELSE IF LacksRole(t, r) THEN "unauthorized"
    ELSE IF HasRole(t, r) /\ HasPermission(t, r) THEN "handled" ELSE "forbidden"

-----------------------------------------------------------------------------
(* A request: AuthMiddleware, then the guards.                             *)

Begin(q, t, r) ==
    /\ pc[q] = "idle" /\ life[t] # "unissued"
    /\ token' = [token EXCEPT ![q] = t]
    /\ route' = [route EXCEPT ![q] = r]
    /\ degraded' = [degraded EXCEPT ![q] = FALSE]
    /\ revokedBefore' = [revokedBefore EXCEPT ![q] = Revoked(t)]
    /\ IF Claims[t].proper /\ life[t] = "valid"
       THEN /\ acting' = [acting EXCEPT ![q] = Claims[t].establishment]
            /\ outcome' = [outcome EXCEPT ![q] = "none"]
            /\ Goto(q, "blacklist")
       ELSE /\ acting' = [acting EXCEPT ![q] = None]
            /\ Answer(q, "unauthorized")
    /\ UNCHANGED <<issuer, redis, faults, loggedOut>>

(* Variant: a refused request is answered but goes on to the next check.   *)
CheckBlacklist_GoesOn(q) ==
    /\ pc[q] = "blacklist" /\ redisUp
    /\ outcome' = IF token[q] \in blacklist THEN [outcome EXCEPT ![q] = "unauthorized"]
                                            ELSE outcome
    /\ Goto(q, "version")
    /\ UNCHANGED <<issuer, redis, token, route, acting, degraded, faults, history>>

CheckBlacklist(q) ==
    /\ pc[q] = "blacklist" /\ redisUp
    /\ IF token[q] \in blacklist THEN Answer(q, "unauthorized")
                                 ELSE Goto(q, "version") /\ UNCHANGED outcome
    /\ UNCHANGED <<issuer, redis, token, route, acting, degraded, faults, history>>

(* Variant: the failure is an error, which the middleware refuses. *)
BlacklistFails_Refuses(q) ==
    /\ pc[q] = "blacklist"
    /\ RedisFails
    /\ degraded' = [degraded EXCEPT ![q] = TRUE]
    /\ Answer(q, "unauthorized")
    /\ UNCHANGED <<issuer, redis, token, route, acting, history>>

BlacklistFails(q) ==
    /\ pc[q] = "blacklist"
    /\ RedisFails
    /\ degraded' = [degraded EXCEPT ![q] = TRUE]
    /\ Goto(q, "version")
    /\ UNCHANGED <<issuer, redis, token, route, outcome, acting, history>>

(* Variant: the version at which the revocation was made still passes. *)
Outdated_Late(q) == version[token[q]] + 1 < minimum[UserOf(q)]

Outdated(q) == version[token[q]] < minimum[UserOf(q)]

CheckVersion(q) ==
    /\ pc[q] = "version"
    /\ \/ ~Claims[token[q]].versioned /\ Answer(q, "unauthorized")
       \/ /\ Claims[token[q]].versioned /\ redisUp
          /\ IF Outdated(q) THEN Answer(q, "unauthorized")
                            ELSE Goto(q, "guards") /\ UNCHANGED outcome
    /\ UNCHANGED <<issuer, redis, token, route, acting, degraded, faults, history>>

(* Variant: the read waits for Redis to come back. *)
VersionFails_Waits(q) ==
    /\ pc[q] = "version" /\ Claims[token[q]].versioned /\ redisUp
    /\ Fault
    /\ degraded' = [degraded EXCEPT ![q] = TRUE]
    /\ Goto(q, "guards")
    /\ UNCHANGED <<issuer, redis, token, route, outcome, acting, history>>

VersionFails(q) ==
    /\ pc[q] = "version" /\ Claims[token[q]].versioned
    /\ RedisFails
    /\ degraded' = [degraded EXCEPT ![q] = TRUE]
    /\ Goto(q, "guards")
    /\ UNCHANGED <<issuer, redis, token, route, outcome, acting, history>>

Guard(q) ==
    /\ pc[q] = "guards"
    /\ Answer(q, Decision(token[q], route[q]))
    /\ acting' = IF route[q].establishment # None /\ InEstablishment(token[q], route[q])
                 THEN [acting EXCEPT ![q] = route[q].establishment] ELSE acting
    /\ UNCHANGED <<issuer, redis, token, route, degraded, faults, history>>

-----------------------------------------------------------------------------
(* The auth service and Redis.                                             *)

Issue(t) == /\ life[t] = "unissued"
            /\ life' = [life EXCEPT ![t] = "valid"]
            /\ version' = [version EXCEPT ![t] = current[Claims[t].user]]
            /\ UNCHANGED <<current, redis, requests, faults, history>>

TokenExpires(t) == /\ life[t] = "valid"
                   /\ life' = [life EXCEPT ![t] = "expired"]
                   /\ UNCHANGED <<version, current, redis, requests, faults, history>>

Logout(t) == /\ life[t] = "valid" /\ redisUp
             /\ blacklist' = blacklist \cup {t}
             /\ loggedOut' = loggedOut \cup {t}
             /\ UNCHANGED <<issuer, minimum, redisUp, requests, faults, revokedBefore>>

RevokeAll(u) == /\ redisUp /\ current[u] < MaxVersion
                /\ current' = [current EXCEPT ![u] = @ + 1]
                /\ minimum' = [minimum EXCEPT ![u] = current[u] + 1]
                /\ UNCHANGED <<life, version, blacklist, redisUp, requests, faults, history>>

(* Keys in Redis outlive the tokens they revoke. *)
BlacklistExpires(t) ==
    /\ t \in blacklist /\ life[t] = "expired"
    /\ blacklist' = blacklist \ {t}
    /\ UNCHANGED <<issuer, minimum, redisUp, requests, faults, history>>

MinimumExpires(u) ==
    /\ minimum[u] > 0
    /\ \A t \in Token :
           Claims[t].user = u /\ life[t] = "valid" => version[t] >= minimum[u]
    /\ minimum' = [minimum EXCEPT ![u] = 0]
    /\ UNCHANGED <<issuer, blacklist, redisUp, requests, faults, history>>

RedisGoesDown == /\ redisUp
                 /\ Fault
                 /\ redisUp' = FALSE
                 /\ UNCHANGED <<issuer, blacklist, minimum, requests, history>>

RedisComesUp == /\ ~redisUp
                /\ redisUp' = TRUE
                /\ UNCHANGED <<issuer, blacklist, minimum, requests, faults, history>>

-----------------------------------------------------------------------------
Step(q) == CheckBlacklist(q) \/ BlacklistFails(q) \/ CheckVersion(q) \/ VersionFails(q)
           \/ Guard(q)

Next == \/ \E q \in Request : \/ Step(q)
                              \/ \E t \in Token, r \in Route : Begin(q, t, r)
        \/ \E t \in Token : Issue(t) \/ TokenExpires(t) \/ Logout(t) \/ BlacklistExpires(t)
        \/ \E u \in User : RevokeAll(u) \/ MinimumExpires(u)
        \/ RedisGoesDown \/ RedisComesUp

Spec == Init /\ [][Next]_vars

(* A request that can go on does; Redis may stay away. *)
FairSpec == Spec /\ \A q \in Request : WF_vars(Step(q))

-----------------------------------------------------------------------------
(* Properties.                                                             *)

(* The values the variables range over; in particular a request that was   *)
(* answered goes no further (the returns after Abort in AuthMiddleware).   *)
TypeOK ==
    /\ life \in [Token -> {"unissued", "valid", "expired"}]
    /\ version \in [Token -> 0 .. MaxVersion]
    /\ current \in [User -> 0 .. MaxVersion]
    /\ blacklist \subseteq Token
    /\ minimum \in [User -> 0 .. MaxVersion]
    /\ redisUp \in BOOLEAN
    /\ pc \in [Request -> {"idle", "blacklist", "version", "guards"}]
    /\ token \in [Request -> Token]
    /\ route \in [Request -> Route]
    /\ outcome \in [Request -> {"none", "unauthorized", "forbidden",
                                "paymentRequired", "handled"}]
    /\ \A q \in Request : pc[q] # "idle" => outcome[q] = "none"
    /\ acting \in [Request -> Establishment \cup {None}]
    /\ degraded \in [Request -> BOOLEAN]
    /\ faults \in 0 .. MaxFaults
    /\ loggedOut \subseteq Token
    /\ revokedBefore \in [Request -> BOOLEAN]

(* A request with a token that was revoked before it began is not handled, *)
(* unless a check of it was counted as degraded: nothing is let through in *)
(* silence (IsTokenBlacklisted, GetUserTokenVersion).  Keys that expire do *)
(* not bring a token back.                                                 *)
RevokedIsRefused ==
    \A q \in Request : outcome[q] = "handled" /\ revokedBefore[q]
                         => degraded[q] \/ life[token[q]] = "expired"

(* Nobody with a good token loses the session to a Redis that fails: only  *)
(* a bad, expired or revoked token is refused (RedisRevocationChecker).    *)
UnrevokedIsServed ==
    \A q \in Request : LET t == token[q] IN
        outcome[q] = "unauthorized"
          => \/ ~Claims[t].proper \/ ~Claims[t].versioned \/ LacksRole(t, route[q])
             \/ life[t] = "expired" \/ Revoked(t)

(* A handled request acts on the establishment of its token or, with       *)
(* access to the platform, on the route's (RequireEstablishmentContext).   *)
ActsWithinEstablishment ==
    \A q \in Request : LET t == token[q] IN
        outcome[q] = "handled" /\ acting[q] # Claims[t].establishment
          => /\ {<<"*">>, <<"platform", "*">>} \cap Claims[t].permissions # {}
             /\ acting[q] = route[q].establishment

(* Every request is answered, whatever Redis does (revocationOpTimeout). *)
RequestsEnd == \A q \in Request : pc[q] # "idle" ~> pc[q] = "idle"
=============================================================================
