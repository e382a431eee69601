-------------------------------- MODULE RateLimit --------------------------------
(***************************************************************************)
(* The in-memory rate limiter (common/rate-limit.go) that every limit of   *)
(* the server shares when Redis is off (middleware/rate-limit.go and the   *)
(* limits of verification codes and models): one key of it, with the       *)
(* number of requests and the duration its limit passes.  Every operation  *)
(* runs under the limiter's mutex, so it is one step.  Keys do not affect  *)
(* one another.                                                            *)
(***************************************************************************)
EXTENDS Integers, Sequences

CONSTANTS
    maxRequestNum,
    duration,               \* of the limit, seconds
    expirationDuration,     \* of the limiter: the first Init decides, seconds
    MaxTime, MaxAdmitted    \* bounds of the clock and of the history

ASSUME RateLimitAssumption ==
    /\ maxRequestNum \in Nat \ {0} /\ duration \in Nat
    /\ expirationDuration \in Nat /\ MaxTime \in Nat /\ MaxAdmitted \in Nat

(* "Shouldn't larger then RateLimitKeyExpirationDuration"                  *)
(* (common/constants.go:217).                                              *)
DurationFits == duration <= expirationDuration

VARIABLES
    queue,      \* the key's times, old to new; empty: the key is absent
    now,
    log         \* history: the times of all admitted requests

vars == <<queue, now, log>>

Admit(q) == queue' = Append(q, now) /\ log' = Append(log, now)

(* Fault: one request too many fits.                                       *)
HasRoomForOneMore == queue = <<>> \/ Len(queue) <= maxRequestNum

HasRoom == queue = <<>> \/ Len(queue) < maxRequestNum

(* The oldest of the remembered requests has left the window.              *)
HasAged == now - queue[1] >= duration

Request ==
    /\ Len(log) < MaxAdmitted
    /\ \/ HasRoom /\ Admit(queue)
       \/ ~HasRoom /\ HasAged /\ Admit(Tail(queue))
    /\ UNCHANGED now

Refuses == ~HasRoom /\ ~HasAged

(* clearExpiredItems wakes up: a key not used for longer than the          *)
(* expiration is forgotten.  It may wake at any time.                      *)
clearExpiredItems ==
    /\ queue # <<>> /\ now - queue[Len(queue)] > expirationDuration
    /\ queue' = <<>>
    /\ UNCHANGED <<now, log>>

Tick ==
    /\ now < MaxTime
    /\ now' = now + 1
    /\ UNCHANGED <<queue, log>>

Init == queue = <<>> /\ now = 0 /\ log = <<>>

Next == Request \/ clearExpiredItems \/ Tick

Spec == Init /\ [][Next]_vars

(***************************************************************************)
(* Properties                                                              *)
(***************************************************************************)

RateLimitTypeOK ==
    queue \in Seq(Nat) /\ now \in Nat /\ log \in Seq(Nat)

(* No window of the limit's duration holds more than maxRequestNum         *)
(* admitted requests, also across the forgetting of an idle key: the       *)
(* request maxRequestNum after another comes at least duration later.      *)
WindowLimit ==
    \A i \in 1..Len(log) :
        i + maxRequestNum <= Len(log) => log[i + maxRequestNum] - log[i] >= duration

(* A request is refused only when the limit is used up: maxRequestNum      *)
(* requests were admitted within the duration before it.                   *)
RefusedRightly ==
    Refuses => /\ Len(log) >= maxRequestNum
               /\ now - log[Len(log) - maxRequestNum + 1] < duration

(* The limiter admits no more, and no fewer, than the limit says.          *)
LimitIsExact == WindowLimit /\ RefusedRightly

(* The inductive invariant.  The queue is the end of the history; when it  *)
(* is not full, everything older than it has left the window.              *)
Ordered ==
    /\ \A i \in 1..Len(log) : log[i] <= now
    /\ \A i, j \in 1..Len(log) : i <= j => log[i] <= log[j]

QueueEndsLog ==
    /\ Len(queue) <= maxRequestNum /\ Len(queue) <= Len(log)
    /\ \A i \in 1..Len(queue) : queue[i] = log[Len(log) - Len(queue) + i]

ForgottenIsOld ==
    Len(queue) < maxRequestNum =>
        \A i \in 1..(Len(log) - Len(queue)) : now - log[i] >= duration

RateLimitInv ==
    RateLimitTypeOK /\ Ordered /\ QueueEndsLog /\ ForgottenIsOld /\ WindowLimit
==================================================================================
