----------------------------- MODULE VerificationLimit -----------------------------
(***************************************************************************)
(* The limit on sending verification codes when Redis is on                *)
(* (middleware/email-verification-rate-limit.go; the limit for phones is   *)
(* the same): a counter per client, INCR by every request, and EXPIRE by   *)
(* the request that found it at one.  A request whose INCR fails is left   *)
(* to the in-memory limiter of module RateLimit and changes nothing here.  *)
(***************************************************************************)
EXTENDS Integers, Sequences

CONSTANTS
    Handlers,                   \* requests of one client that may run at once
    MaxRequests, Duration,      \* EmailVerificationMaxRequests, ...Duration
    MaxTime, MaxAdmitted,       \* bounds of the clock and of the history
    MaxFaults                   \* bound on lost EXPIREs and crashes

VARIABLES
    count, expireAt,    \* the key; expireAt 0: no time to live
    pc, now, faults,
    log                 \* history: the times of the requests that Redis admitted

vars == <<count, expireAt, pc, now, faults, log>>

Goto(h, command) == pc' = [pc EXCEPT ![h] = command]

(* INCR and the decision of a request that is not the first.  All counts   *)
(* above MaxRequests refuse alike and are not told apart.                  *)
Incr(h) ==
    /\ pc[h] = "idle" /\ Len(log) < MaxAdmitted
    /\ count' = IF count > MaxRequests THEN count ELSE count + 1
    /\ Goto(h, IF count = 0 THEN "EXPIRE" ELSE "idle")
    /\ log' = IF count + 1 <= MaxRequests THEN Append(log, now) ELSE log
    /\ UNCHANGED <<expireAt, now, faults>>

Expire(h) ==
    /\ pc[h] = "EXPIRE"
    /\ Goto(h, "idle")
    /\ expireAt' = IF count = 0 THEN expireAt ELSE now + Duration
    /\ UNCHANGED <<count, now, faults, log>>

(* EXPIRE fails and its error is dropped, or the process dies before it.   *)
ExpireLost(h) ==
    /\ pc[h] = "EXPIRE" /\ faults < MaxFaults
    /\ faults' = faults + 1
    /\ Goto(h, "idle")
    /\ UNCHANGED <<count, expireAt, now, log>>

Tick ==
    /\ now < MaxTime
    /\ now' = now + 1
    /\ LET gone == expireAt # 0 /\ now + 1 >= expireAt
       IN  /\ count' = IF gone THEN 0 ELSE count
           /\ expireAt' = IF gone THEN 0 ELSE expireAt
    /\ UNCHANGED <<pc, faults, log>>

Init ==
    /\ count = 0 /\ expireAt = 0 /\ pc = [h \in Handlers |-> "idle"]
    /\ now = 1 /\ faults = 0 /\ log = <<>>

Next == Tick \/ \E h \in Handlers : Incr(h) \/ Expire(h) \/ ExpireLost(h)

Spec == Init /\ [][Next]_vars

(***************************************************************************)
(* Properties                                                              *)
(***************************************************************************)

Spread(n) == \A i \in 1..Len(log) : i + n <= Len(log) => log[i + n] - log[i] >= Duration

(* At most MaxRequests codes are sent in any window of Duration.  It does  *)
(* not hold: two fixed windows meet in one of Duration.                    *)
AtMostInWindow == Spread(MaxRequests)

(* What the fixed windows do give: never 2 * MaxRequests + 1 codes in a    *)
(* window of Duration, however requests interleave and whatever is lost.   *)
AtMostTwiceInWindow == Spread(2 * MaxRequests)

(* A client that is refused has only to wait, as the answer tells it: a    *)
(* full counter has a time to live, or the request that will set it is     *)
(* still running.                                                          *)
RefusalHasAnEnd ==
    count >= MaxRequests => expireAt # 0 \/ \E h \in Handlers : pc[h] = "EXPIRE"
====================================================================================
