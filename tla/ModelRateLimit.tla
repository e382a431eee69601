------------------------------- MODULE ModelRateLimit -------------------------------
(***************************************************************************)
(* The limits on model requests of one user                                *)
(* (middleware/model-rate-limit.go): at most successMaxCount successful    *)
(* and totalMaxCount requests in all per duration.                         *)
(*                                                                         *)
(* With Redis the successes are a list of times, looked at before the      *)
(* request is served and extended after it succeeded, and the total is a   *)
(* token bucket (common/limiter/lua/rate_limit.lua).  Without Redis both   *)
(* are keys of the in-memory limiter: its module is instantiated for the   *)
(* total and for the key "_check" that stands for the successes.           *)
(***************************************************************************)
EXTENDS Integers, Sequences, FiniteSets, FiniteSetsExt

CONSTANTS
    Requests,               \* the user's requests, each made once
    RedisEnabled,
    duration, totalMaxCount, successMaxCount,   \* totalMaxCount 0: no limit
    expirationDuration,     \* of the in-memory limiter
    MaxInFlight,            \* how many requests are served at a time
    MaxTime                 \* bound of the clock

VARIABLES
    now,
    status,         \* of each request, and when it was counted, let in and ended
    successes, successesExpire,     \* Redis: the list of the user's successes
    tokens, lastTime,               \* Redis: the bucket; lastTime 0: no bucket
    totalQueue, totalLog,           \* memory: the key of the total
    checkQueue, checkLog            \* memory: the key successKey + "_check"

redisVars == <<successes, successesExpire, tokens, lastTime>>
memoryVars == <<totalQueue, totalLog, checkQueue, checkLog>>
vars == <<now, status, redisVars, memoryVars>>

total == INSTANCE RateLimit
    WITH queue <- totalQueue, log <- totalLog, MaxAdmitted <- Cardinality(Requests),
         maxRequestNum <- IF totalMaxCount = 0 THEN 1 ELSE totalMaxCount
check == INSTANCE RateLimit
    WITH queue <- checkQueue, log <- checkLog, MaxAdmitted <- Cardinality(Requests),
         maxRequestNum <- successMaxCount

At(r, stage) == status[r].stage = stage
InFlight == {r \in Requests : At(r, "checked") \/ At(r, "serving")}
Move(r, stage) == status' = [status EXCEPT ![r].stage = stage]
Count(r, stage) == status' = [status EXCEPT ![r].stage = stage, ![r].counted = now]
LetIn(r) ==
    status' = [status EXCEPT ![r].stage = "serving", ![r].start = now,
                             ![r].counted = IF @ = 0 THEN now ELSE @]

(***************************************************************************)
(* Redis                                                                   *)
(***************************************************************************)

(* checkRedisRateLimit: the list is full and its oldest is in the window.  *)
(* LLEN and LINDEX are one step: another request can only come between     *)
(* them with a success of its own, which is younger than the oldest.       *)
SuccessLimitReached ==
    /\ Len(successes) >= successMaxCount
    /\ now - successes[1] < duration

CheckSuccesses(r) ==
    /\ RedisEnabled /\ At(r, "new") /\ Cardinality(InFlight) < MaxInFlight
    /\ IF SuccessLimitReached
       THEN /\ Move(r, "overSuccess")
            /\ successesExpire' = now + duration
       ELSE /\ Move(r, "checked")
            /\ UNCHANGED successesExpire
    /\ UNCHANGED <<now, successes, tokens, lastTime, memoryVars>>

Capacity == totalMaxCount * duration

Refilled ==
    IF lastTime = 0 THEN Capacity
    ELSE Min({Capacity, tokens + (now - lastTime) * totalMaxCount})

(* The script: a request costs duration tokens, totalMaxCount come back    *)
(* per second.  A refused request is answered 429 and goes on to c.Next(), *)
(* which does nothing after the abort.                                     *)
Allow(r) ==
    /\ RedisEnabled /\ At(r, "checked")
    /\ IF totalMaxCount = 0
       THEN LetIn(r) /\ UNCHANGED <<tokens, lastTime>>
       ELSE /\ lastTime' = now
            /\ IF Refilled >= duration
               THEN LetIn(r) /\ tokens' = Refilled - duration
               ELSE Move(r, "overTotal") /\ tokens' = Refilled
    /\ UNCHANGED <<now, successes, successesExpire, memoryVars>>

(* recordRedisRequest: LPUSH, LTRIM, EXPIRE.                               *)
RecordSuccess ==
    LET s == Append(successes, now)
    IN  /\ successes' = IF Len(s) <= successMaxCount THEN s
                        ELSE SubSeq(s, Len(s) - successMaxCount + 1, Len(s))
        /\ successesExpire' = now + duration

(***************************************************************************)
(* Memory                                                                  *)
(***************************************************************************)

(* The total is taken first, then the key "_check" with the limit of the   *)
(* successes: each by a Request of the limiter, which records it.          *)
MemoryTotal(r) ==
    /\ ~RedisEnabled /\ At(r, "new") /\ Cardinality(InFlight) < MaxInFlight
    /\ \/ totalMaxCount = 0 /\ Move(r, "checked") /\ UNCHANGED <<totalQueue, totalLog>>
       \/ totalMaxCount > 0 /\ total!Request /\ Count(r, "checked")
       \/ totalMaxCount > 0 /\ total!Refuses /\ Move(r, "overTotal")
             /\ UNCHANGED <<totalQueue, totalLog>>
    /\ UNCHANGED <<now, redisVars, checkQueue, checkLog>>

MemoryCheck(r) ==
    /\ ~RedisEnabled /\ At(r, "checked")
    /\ \/ check!Request /\ LetIn(r)
       \/ check!Refuses /\ Move(r, "overSuccess") /\ UNCHANGED <<checkQueue, checkLog>>
    /\ UNCHANGED <<now, redisVars, totalQueue, totalLog>>

clearExpiredItems ==
    /\ ~RedisEnabled
    /\ \/ total!clearExpiredItems /\ UNCHANGED <<checkQueue, checkLog>>
       \/ check!clearExpiredItems /\ UNCHANGED <<totalQueue, totalLog>>
    /\ UNCHANGED <<status, redisVars>>

(***************************************************************************)
(* Both                                                                    *)
(***************************************************************************)

(* c.Next() returned.  Without Redis a success goes to a key nobody reads. *)
Finish(r) ==
    /\ At(r, "serving")
    /\ \E ok \in BOOLEAN :
          /\ status' = [status EXCEPT ![r].stage = IF ok THEN "success" ELSE "failure",
                                      ![r].end = now]
          /\ IF ok /\ RedisEnabled THEN RecordSuccess
             ELSE UNCHANGED <<successes, successesExpire>>
    /\ UNCHANGED <<now, tokens, lastTime, memoryVars>>

Tick ==
    /\ now < MaxTime
    /\ now' = now + 1
    /\ LET gone == successesExpire # 0 /\ now + 1 >= successesExpire
       IN  /\ successes' = IF gone THEN <<>> ELSE successes
           /\ successesExpire' = IF gone THEN 0 ELSE successesExpire
    /\ UNCHANGED <<status, tokens, lastTime, memoryVars>>

Init ==
    /\ now = 1
    /\ status = [r \in Requests |-> [stage |-> "new", counted |-> 0, start |-> 0, end |-> 0]]
    /\ successes = <<>> /\ successesExpire = 0 /\ tokens = 0 /\ lastTime = 0
    /\ totalQueue = <<>> /\ totalLog = <<>> /\ checkQueue = <<>> /\ checkLog = <<>>

Next ==
    \/ Tick \/ clearExpiredItems
    \/ \E r \in Requests :
          CheckSuccesses(r) \/ Allow(r) \/ MemoryTotal(r) \/ MemoryCheck(r) \/ Finish(r)

Spec == Init /\ [][Next]_vars

(***************************************************************************)
(* Properties                                                              *)
(***************************************************************************)

Succeeded == {r \in Requests : At(r, "success")}
Counted == {r \in Requests : status[r].counted # 0}

(* Of any n of these requests, two have times at least duration apart.     *)
SpreadOut(set, n, time(_)) ==
    \A W \in kSubset(n, set) : \E p, q \in W : time(q) - time(p) >= duration

start(r) == status[r].start
counted(r) == status[r].counted

(* At most successMaxCount successful requests per window, as the answer   *)
(* to a refused request says.                                              *)
SuccessWithinWindow == SpreadOut(Succeeded, successMaxCount + 1, start)

(* At most totalMaxCount requests per window, failed ones included, as the *)
(* answer to a refused request says.                                       *)
TotalWithinWindow ==
    totalMaxCount > 0 => SpreadOut(Counted, totalMaxCount + 1, counted)

(* What the token bucket gives: a window holds fewer than twice            *)
(* totalMaxCount requests, however they interleave.                        *)
TotalWithinTwice ==
    totalMaxCount > 0 => SpreadOut(Counted, 2 * totalMaxCount, counted)

(* Only successful requests count towards the limit of the successes: a    *)
(* request is refused for it only if successMaxCount requests succeeded    *)
(* within the duration before.                                             *)
RefusedAfterSuccesses ==
    \A r \in Requests :
        ~At(r, "overSuccess") /\ At(r, "overSuccess")' =>
            Cardinality({q \in Succeeded : now - status[q].end < duration}) >= successMaxCount
=====================================================================================
