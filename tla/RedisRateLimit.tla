------------------------------ MODULE RedisRateLimit ------------------------------
(***************************************************************************)
(* The rate limiter of the routes when Redis is on (redisRateLimiter and   *)
(* userRedisRateLimiter of middleware/rate-limit.go): a list of times per  *)
(* key, read and written by several commands that other requests of the    *)
(* same client may come between.  The list is kept old to new here: LPUSH  *)
(* appends, LINDEX -1 is the first, LTRIM keeps the end.  The results of   *)
(* LPUSH, LTRIM and EXPIRE are not looked at, so each may be lost.         *)
(***************************************************************************)
EXTENDS Integers, Sequences

CONSTANTS
    Handlers,               \* requests of one key that may run at once
    maxRequestNum, duration,
    expiration,             \* RateLimitKeyExpirationDuration
    MaxTime, MaxAdmitted,   \* bounds of the clock and of the history
    Prompt,                 \* do the commands of a request take no time?
    MaxFaults               \* bound on commands that fail and crashes

VARIABLES
    list, expireAt,     \* the key; expireAt 0: no time to live
    pc,                 \* the command each handler sends next
    now, faults,
    log                 \* history: the times of all admitted requests

vars == <<list, expireAt, pc, now, faults, log>>

Goto(h, command) == pc' = [pc EXCEPT ![h] = command]

Arrive(h) ==
    /\ pc[h] = "idle"
    /\ Goto(h, "LLEN")
    /\ UNCHANGED <<list, expireAt, now, faults, log>>

LLen(h) ==
    /\ pc[h] = "LLEN"
    /\ Goto(h, IF Len(list) < maxRequestNum THEN "LPUSH" ELSE "LINDEX")
    /\ UNCHANGED <<list, expireAt, now, faults, log>>

(* Fault: the youngest entry is compared.                                  *)
OldTimeYoungest == list[Len(list)]

OldTime == list[1]

(* The key may have expired since LLEN: the empty answer is no time, and   *)
(* the request ends with status 500.                                       *)
LIndex(h) ==
    /\ pc[h] = "LINDEX"
    /\ Goto(h, IF list = <<>> THEN "idle"
               ELSE IF now - OldTime < duration THEN "refuse" ELSE "LPUSH+LTRIM")
    /\ UNCHANGED <<list, expireAt, now, faults, log>>

(* The request is admitted by its LPUSH, even if that is lost.             *)
LPush(h) ==
    /\ pc[h] \in {"LPUSH", "LPUSH+LTRIM"} /\ Len(log) < MaxAdmitted
    /\ Goto(h, IF pc[h] = "LPUSH" THEN "EXPIRE" ELSE "LTRIM")
    /\ log' = Append(log, now)
    /\ \/ list' = Append(list, now) /\ UNCHANGED faults
       \/ faults < MaxFaults /\ faults' = faults + 1 /\ UNCHANGED list
    /\ UNCHANGED <<expireAt, now>>

(* Fault: one entry too many is kept.                                      *)
TrimmedLate(s) ==
    IF Len(s) <= maxRequestNum + 1 THEN s
    ELSE SubSeq(s, Len(s) - maxRequestNum, Len(s))

Trimmed(s) ==
    IF Len(s) <= maxRequestNum THEN s
    ELSE SubSeq(s, Len(s) - maxRequestNum + 1, Len(s))

LTrim(h) ==
    /\ pc[h] = "LTRIM"
    /\ Goto(h, "EXPIRE")
    /\ \/ list' = Trimmed(list) /\ UNCHANGED faults
       \/ faults < MaxFaults /\ faults' = faults + 1 /\ UNCHANGED list
    /\ UNCHANGED <<expireAt, now, log>>

(* EXPIRE has no effect on a key that is gone.  After it the request is    *)
(* passed on or, if it was refused, answered with 429.                     *)
Expire(h) ==
    /\ pc[h] \in {"EXPIRE", "refuse"}
    /\ Goto(h, "idle")
    /\ \/ /\ expireAt' = IF list = <<>> THEN expireAt ELSE now + expiration
          /\ UNCHANGED faults
       \/ faults < MaxFaults /\ faults' = faults + 1 /\ UNCHANGED expireAt
    /\ UNCHANGED <<list, now, log>>

(* LLEN fails (status 500), or the process dies.                           *)
Abandon(h) ==
    /\ pc[h] # "idle" /\ faults < MaxFaults
    /\ faults' = faults + 1
    /\ Goto(h, "idle")
    /\ UNCHANGED <<list, expireAt, now, log>>

(* Time passes; Redis drops the key when its time to live is over.  Unless *)
(* the instance is Prompt, that may be between two commands of a request.  *)
Tick ==
    /\ now < MaxTime
    /\ Prompt => \A h \in Handlers : pc[h] = "idle"
    /\ now' = now + 1
    /\ LET gone == expireAt # 0 /\ now + 1 >= expireAt
       IN  /\ list' = IF gone THEN <<>> ELSE list
           /\ expireAt' = IF gone THEN 0 ELSE expireAt
    /\ UNCHANGED <<pc, faults, log>>

Init ==
    /\ list = <<>> /\ expireAt = 0 /\ pc = [h \in Handlers |-> "idle"]
    /\ now = 1 /\ faults = 0 /\ log = <<>>

Next ==
    \/ Tick
    \/ \E h \in Handlers :
          \/ Arrive(h) \/ LLen(h) \/ LIndex(h) \/ LPush(h) \/ LTrim(h)
          \/ Expire(h) \/ Abandon(h)

Spec == Init /\ [][Next]_vars

(***************************************************************************)
(* Properties                                                              *)
(***************************************************************************)

(* No window of the limit's duration holds more than maxRequestNum         *)
(* admitted requests.                                                      *)
WindowLimit ==
    \A i \in 1..Len(log) :
        i + maxRequestNum <= Len(log) => log[i + maxRequestNum] - log[i] >= duration

(* However the commands of several requests interleave, and whatever of    *)
(* them is lost, a request is refused only if maxRequestNum requests were  *)
(* admitted within the duration before it.                                 *)
RefusedOverLimit ==
    \A h \in Handlers :
        pc[h] = "LINDEX" /\ pc'[h] = "refuse" =>
            /\ Len(log) >= maxRequestNum
            /\ now - log[Len(log) - maxRequestNum + 1] < duration
===================================================================================
