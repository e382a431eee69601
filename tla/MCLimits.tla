------------------------------ MODULE MCLimits ------------------------------
(***************************************************************************)
(* The limiters for TLC.  They share no state, so one behaviour exercises  *)
(* one of them, in one configuration: the variable part says which.        *)
(* The in-memory limiter itself is extended; the others are instances.     *)
(***************************************************************************)
EXTENDS RateLimit, FiniteSets, TLC

CONSTANTS
    Requests,               \* of one user for models, interchangeable
    Handlers, Handler,      \* requests of one client that run at once; one alone
    Limit, TotalLimit,      \* the number of requests, and of a model's in all
    Window, KeyLife,        \* the duration of the limits and of unused keys
    MaxInFlight, MaxFaults,
    BusyTime, BusyAdmitted  \* bounds where requests overlap

ASSUME LimitsAssumption ==
    /\ IsFiniteSet(Requests) /\ MaxInFlight \in Nat /\ MaxFaults \in Nat
    /\ Limit \in Nat \ {0} /\ TotalLimit \in Nat \ {0}
    /\ Window \in Nat \ {0} /\ KeyLife \in Nat
    /\ BusyTime \in Nat /\ BusyAdmitted \in Nat

(* As DurationFits, for the limits that are instances.                     *)
WindowFits == Window <= KeyLife

VARIABLES
    part,
    list, expireAt, pc, redisNow, redisFaults, redisLog,    \* RedisRateLimit
    count, countExpireAt, step, codeNow, codeFaults, codeLog,   \* VerificationLimit
    clock, status, successes, successesExpire, tokens, lastTime,    \* ModelRateLimit
    totalQueue, totalLog, checkQueue, checkLog

(* Requests of one client at once, with commands that fail.                *)
Redis == INSTANCE RedisRateLimit WITH
    maxRequestNum <- Limit, duration <- Window, expiration <- KeyLife,
    MaxTime <- BusyTime, MaxAdmitted <- BusyAdmitted, Prompt <- TRUE,
    now <- redisNow, faults <- redisFaults, log <- redisLog

(* One request at a time and no failure.                                   *)
RedisAlone == INSTANCE RedisRateLimit WITH
    Handlers <- {Handler}, maxRequestNum <- Limit, duration <- Window,
    expiration <- KeyLife, Prompt <- TRUE, MaxFaults <- 0,
    now <- redisNow, faults <- redisFaults, log <- redisLog

(* Requests for a verification code at once; an EXPIRE may be lost.        *)
Code == INSTANCE VerificationLimit WITH
    MaxRequests <- Limit, Duration <- Window,
    expireAt <- countExpireAt, pc <- step, now <- codeNow, faults <- codeFaults, log <- codeLog

(* Requests for a model at once, with Redis.                               *)
Model == INSTANCE ModelRateLimit WITH
    RedisEnabled <- TRUE, duration <- Window, totalMaxCount <- TotalLimit,
    successMaxCount <- Limit, expirationDuration <- KeyLife, MaxTime <- BusyTime, now <- clock

(* One request for a model at a time, with Redis and no total limit.       *)
ModelAlone == INSTANCE ModelRateLimit WITH
    RedisEnabled <- TRUE, duration <- Window, totalMaxCount <- 0,
    successMaxCount <- Limit, expirationDuration <- KeyLife, MaxInFlight <- 1, now <- clock

(* Requests for a model at once, without Redis.                            *)
ModelMemory == INSTANCE ModelRateLimit WITH
    RedisEnabled <- FALSE, duration <- Window, totalMaxCount <- TotalLimit,
    successMaxCount <- Limit, expirationDuration <- KeyLife, MaxTime <- BusyTime, now <- clock

redisVars == <<list, expireAt, pc, redisNow, redisFaults, redisLog>>
codeVars == <<count, countExpireAt, step, codeNow, codeFaults, codeLog>>
modelVars == <<clock, status, successes, successesExpire, tokens, lastTime,
               totalQueue, totalLog, checkQueue, checkLog>>
allVars == <<part, vars, redisVars, codeVars, modelVars>>

LimitsInit ==
    /\ part \in {"memory", "redis", "redisAlone", "code", "model", "modelAlone", "modelMemory"}
    /\ Init
    /\ IF part = "redis" THEN Redis!Init ELSE RedisAlone!Init
    /\ Code!Init
    /\ Model!Init

LimitsNext ==
    \/ part = "memory" /\ Next /\ UNCHANGED <<part, redisVars, codeVars, modelVars>>
    \/ part = "redis" /\ Redis!Next /\ UNCHANGED <<part, vars, codeVars, modelVars>>
    \/ part = "redisAlone" /\ RedisAlone!Next /\ UNCHANGED <<part, vars, codeVars, modelVars>>
    \/ part = "code" /\ Code!Next /\ UNCHANGED <<part, vars, redisVars, modelVars>>
    \/ part = "model" /\ Model!Next /\ UNCHANGED <<part, vars, redisVars, codeVars>>
    \/ part = "modelAlone" /\ ModelAlone!Next /\ UNCHANGED <<part, vars, redisVars, codeVars>>
    \/ part = "modelMemory" /\ ModelMemory!Next /\ UNCHANGED <<part, vars, redisVars, codeVars>>

LimitsSpec == LimitsInit /\ [][LimitsNext]_allVars

Symmetry == Permutations(Requests)

(* How far each limiter can be exceeded, and no further, and how long it   *)
(* refuses:                                                                *)
(*   redisRateLimitHandler holds requests that come one after another to   *)
(*     maxRequestNum in every window;                                      *)
(*   the fixed windows of redisEmailVerificationRateLimiter never let more *)
(*     than twice the limit through in one duration, also when requests    *)
(*     overlap and an EXPIRE is lost;                                      *)
(*   redisRateLimitHandler of the models admits fewer than twice the total *)
(*     limit in one duration, however many requests run at once;           *)
(*   the limit of the successes holds for requests made one after another  *)
(*     with Redis, and for requests made at once without it;               *)
(*   memoryRateLimitHandler holds the total limit as well;                 *)
(*   and redisEmailVerificationRateLimiter lets a client it refused in     *)
(*     again after waiting, unless an EXPIRE was lost.                     *)
LimitsHold ==
    /\ part = "redisAlone" => RedisAlone!WindowLimit
    /\ Code!AtMostTwiceInWindow
    /\ part = "model" => Model!TotalWithinTwice
    /\ part = "modelAlone" => ModelAlone!SuccessWithinWindow
    /\ part = "modelMemory" => ModelMemory!SuccessWithinWindow /\ ModelMemory!TotalWithinWindow
    /\ codeFaults = 0 => Code!RefusalHasAnEnd

(* Nobody is refused without cause, however the commands of concurrent     *)
(* requests interleave:                                                    *)
(*   redisRateLimitHandler refuses nobody before maxRequestNum requests    *)
(*     were admitted within the duration, whichever command is lost;       *)
(*   checkRedisRateLimit counts only successes against the limit of the    *)
(*     successes.                                                          *)
RefusalsAreJust ==
    [][/\ part = "redis" => Redis!RefusedOverLimit
       /\ part = "model" => Model!RefusedAfterSuccesses]_<<redisVars, modelVars>>
=============================================================================
