----------------------------- MODULE RateLimitProofs -----------------------------
(***************************************************************************)
(* The limiters keep their limits for every number of requests, every      *)
(* duration and every history, provided the duration of a limit is not     *)
(* longer than the life of an unused key.                                  *)
(***************************************************************************)
EXTENDS MCLimits, FiniteSetTheorems, SequenceTheorems, WellFoundedInduction, TLAPS

(* What Append does to a sequence of times.                                *)
LEMMA AppendFacts ==
    ASSUME NEW s \in Seq(Nat), NEW x \in Nat
    PROVE  /\ Append(s, x) \in Seq(Nat)
           /\ Len(Append(s, x)) = Len(s) + 1 /\ Len(s) \in Nat
           /\ \A i \in 1..Len(s) : Append(s, x)[i] = s[i]
           /\ Append(s, x)[Len(s) + 1] = x
  OBVIOUS

LEMMA OlderStill ==
    ASSUME NEW t \in Nat, NEW x \in Nat, NEW y \in Nat, NEW w \in Nat, x <= y, t - y >= w
    PROVE  t - x >= w
  OBVIOUS

(***************************************************************************)
(* What the lists of times of all limiters have in common: a list q of at  *)
(* most lim times is the end of the history lg, and when it is not full,   *)
(* everything older than it has left the window of dur before t.           *)
(***************************************************************************)

OrderedIn(t, lg) ==
    /\ \A i \in 1..Len(lg) : lg[i] <= t
    /\ \A i, j \in 1..Len(lg) : i <= j => lg[i] <= lg[j]

EndsLog(lim, q, lg) ==
    /\ Len(q) <= lim /\ Len(q) <= Len(lg)
    /\ \A i \in 1..Len(q) : q[i] = lg[Len(lg) - Len(q) + i]

GoneIsOld(lim, dur, q, t, lg) ==
    Len(q) < lim => \A i \in 1..(Len(lg) - Len(q)) : t - lg[i] >= dur

Spaced(lim, dur, lg) ==
    \A i \in 1..Len(lg) : i + lim <= Len(lg) => lg[i + lim] - lg[i] >= dur

LimiterInv(lim, dur, q, t, lg) ==
    /\ q \in Seq(Nat) /\ t \in Nat /\ lg \in Seq(Nat)
    /\ OrderedIn(t, lg) /\ EndsLog(lim, q, lg)
    /\ GoneIsOld(lim, dur, q, t, lg) /\ Spaced(lim, dur, lg)

LEMMA NothingYet ==
    ASSUME NEW lim \in Nat \ {0}, NEW dur \in Nat, NEW t \in Nat
    PROVE  LimiterInv(lim, dur, <<>>, t, <<>>)
  BY DEF LimiterInv, OrderedIn, EndsLog, GoneIsOld, Spaced

(* What every admission shares: the new entry is the youngest of the       *)
(* history, so the order is kept, and the window holds if the entry lim    *)
(* before it is old enough.                                                *)
LEMMA LogGrows ==
    ASSUME NEW lim \in Nat \ {0}, NEW dur \in Nat, NEW q, NEW t, NEW lg,
           LimiterInv(lim, dur, q, t, lg),
           Len(lg) + 1 > lim =>
               t - lg[Len(lg) + 1 - lim] >= dur
    PROVE  /\ OrderedIn(t, Append(lg, t)) /\ Spaced(lim, dur, Append(lg, t))
           /\ Append(lg, t) \in Seq(Nat)
<1> DEFINE lg2 == Append(lg, t)
           n == Len(lg)
<1>t. lg \in Seq(Nat) /\ t \in Nat  BY DEF LimiterInv
<1>a. /\ lg2 \in Seq(Nat) /\ Len(lg2) = n + 1 /\ n \in Nat
      /\ \A i \in 1..n : lg2[i] = lg[i]
      /\ lg2[n + 1] = t
  BY <1>t, AppendFacts
<1>b. \A i \in 1..n : lg[i] \in Nat  BY <1>t
<1> HIDE DEF lg2
<1>o. OrderedIn(t, lg2)
  <2>1. \A i \in 1..(n + 1) : i \in 1..n \/ i = n + 1  BY <1>a
  <2>2. \A i \in 1..n : lg[i] <= t  BY DEF LimiterInv, OrderedIn
  <2>3. \A i, j \in 1..n : i <= j => lg[i] <= lg[j]  BY DEF LimiterInv, OrderedIn
  <2>4. \A i \in 1..Len(lg2) : lg2[i] <= t
    BY <1>a, <1>t, <2>1, <2>2
  <2>5. \A i, j \in 1..Len(lg2) : i <= j => lg2[i] <= lg2[j]
    <3> HIDE DEF n
    <3> SUFFICES ASSUME NEW i \in 1..(n + 1), NEW j \in 1..(n + 1), i <= j
                 PROVE  lg2[i] <= lg2[j]
      BY <1>a
    <3>1. CASE j = n + 1  BY <1>a, <1>t, <1>b, <2>1, <2>2, <3>1
    <3>2. CASE j \in 1..n
      <4>1. i \in 1..n  BY <1>a, <3>2
      <4> QED  BY <1>a, <2>3, <3>2, <4>1
    <3> QED  BY <2>1, <3>1, <3>2
  <2> QED  BY <2>4, <2>5 DEF OrderedIn
<1>w. Spaced(lim, dur, lg2)
  <2> SUFFICES ASSUME NEW i \in 1..(n + 1), i + lim <= n + 1
               PROVE  lg2[i + lim] - lg2[i] >= dur
    BY <1>a DEF Spaced
  <2>0. i \in 1..n  BY <1>a
  <2>1. CASE i + lim <= n
    <3>1. i + lim \in 1..n  BY <2>1, <2>0, <1>a
    <3>2. lg[i + lim] - lg[i] >= dur
      BY <2>0, <2>1 DEF LimiterInv, Spaced
    <3> QED  BY <3>1, <3>2, <2>0, <1>a
  <2>2. CASE i + lim = n + 1
    <3>1. i = n + 1 - lim  BY <2>2, <2>0, <1>a
    <3>2. n + 1 > lim  BY <2>0, <2>2, <1>a
    <3>3. t - lg[i] >= dur  BY <3>1, <3>2
    <3> QED  BY <3>3, <2>0, <2>2, <1>a
  <2>3. i + lim <= n \/ i + lim = n + 1
    <3>1. i + lim \in Nat /\ n \in Nat  BY <2>0, <1>a
    <3> HIDE DEF n
    <3> QED  BY <3>1
  <2> QED  BY <2>1, <2>2, <2>3
<1> QED  BY <1>a, <1>o, <1>w DEF lg2

(* A request for which there is room.                                      *)
LEMMA RoomForRequest ==
    ASSUME NEW lim \in Nat \ {0}, NEW dur \in Nat, NEW q, NEW t, NEW lg,
           LimiterInv(lim, dur, q, t, lg),
           Len(q) < lim
    PROVE  LimiterInv(lim, dur, Append(q, t), t, Append(lg, t))
<1> DEFINE q2 == Append(q, t)
           lg2 == Append(lg, t)
           n == Len(lg)
           m == Len(q)
<1>t. q \in Seq(Nat) /\ lg \in Seq(Nat) /\ t \in Nat /\ n \in Nat /\ m \in Nat
  BY DEF LimiterInv
<1>q. /\ m <= lim /\ m <= n
      /\ \A i \in 1..m : q[i] = lg[n - m + i]
  BY DEF LimiterInv, EndsLog
<1>l. /\ Len(lg2) = n + 1 /\ lg2[n + 1] = t
      /\ \A i \in 1..n : lg2[i] = lg[i]
  BY <1>t, AppendFacts
<1>b0. m < lim  BY <1>t
<1>b1. /\ q2 \in Seq(Nat) /\ Len(q2) = m + 1 /\ q2[m + 1] = t
      /\ \A i \in 1..m : q2[i] = q[i]
  BY <1>t, AppendFacts
<1> HIDE DEF q2
<1>b2. \A i \in 1..(n - m) : t - lg[i] >= dur
  BY <1>b0 DEF LimiterInv, GoneIsOld
<1>b3. n + 1 > lim => t - lg[n + 1 - lim] >= dur
  BY <1>b0, <1>b2, <1>t
<1>b4. OrderedIn(t, lg2) /\ Spaced(lim, dur, lg2) /\ lg2 \in Seq(Nat)  BY <1>b3, LogGrows
<1> HIDE DEF n, m, lg2
<1>b5. EndsLog(lim, q2, lg2)
  <2> SUFFICES ASSUME NEW i \in 1..(m + 1)
               PROVE  q2[i] = lg2[(n + 1) - (m + 1) + i]
    BY <1>b0, <1>b1, <1>l, <1>q, <1>t DEF EndsLog
  <2>1. CASE i \in 1..m
    <3>1. n - m + i \in 1..n /\ (n + 1) - (m + 1) + i = n - m + i
      BY <2>1, <1>q, <1>t
    <3> QED  BY <3>1, <2>1, <1>b1, <1>l, <1>q
  <2>2. CASE i = m + 1
    BY <2>2, <1>b1, <1>l, <1>t
  <2> QED  BY <2>1, <2>2, <1>t
<1>b6. GoneIsOld(lim, dur, q2, t, lg2)
  <2>1. (n + 1) - (m + 1) = n - m  BY <1>t
  <2>2. \A i \in 1..(n - m) : i \in 1..n  BY <1>t, <1>q
  <2>3. \A i \in 1..(Len(lg2) - Len(q2)) : t - lg2[i] >= dur
    BY <2>1, <2>2, <1>b1, <1>b2, <1>l
  <2> QED  BY <2>3 DEF GoneIsOld
<1>7. LimiterInv(lim, dur, q2, t, lg2)
  BY <1>b1, <1>b4, <1>b5, <1>b6, <1>t DEF LimiterInv
<1> QED  BY <1>7 DEF q2, lg2
(* A request that takes the place of one that has left the window.         *)
LEMMA PlaceOfAged ==
    ASSUME NEW lim \in Nat \ {0}, NEW dur \in Nat, NEW q, NEW t, NEW lg,
           LimiterInv(lim, dur, q, t, lg),
           Len(q) = lim, t - q[1] >= dur
    PROVE  LimiterInv(lim, dur, Append(Tail(q), t), t, Append(lg, t))
<1> DEFINE q2 == Append(Tail(q), t)
           lg2 == Append(lg, t)
           n == Len(lg)
           m == Len(q)
<1>t. q \in Seq(Nat) /\ lg \in Seq(Nat) /\ t \in Nat /\ n \in Nat /\ m \in Nat
  BY DEF LimiterInv
<1>q. /\ m <= lim /\ m <= n
      /\ \A i \in 1..m : q[i] = lg[n - m + i]
  BY DEF LimiterInv, EndsLog
<1>l. /\ Len(lg2) = n + 1 /\ lg2[n + 1] = t
      /\ \A i \in 1..n : lg2[i] = lg[i]
  BY <1>t, AppendFacts
<1>b0. m = lim /\ m \in Nat \ {0}  BY <1>t
<1>bt. /\ Tail(q) \in Seq(Nat) /\ Len(Tail(q)) = m - 1
      /\ \A i \in 1..(m - 1) : Tail(q)[i] = q[i + 1]
  BY <1>b0, <1>t
<1>b1. /\ q2 \in Seq(Nat) /\ Len(q2) = m /\ q2[m] = t
      /\ \A i \in 1..(m - 1) : q2[i] = q[i + 1]
  <2>1. /\ q2 \in Seq(Nat) /\ Len(q2) = (m - 1) + 1
        /\ q2[(m - 1) + 1] = t
        /\ \A i \in 1..(m - 1) : q2[i] = Tail(q)[i]
    BY <1>bt, <1>t, AppendFacts
  <2>2. (m - 1) + 1 = m  BY <1>t
  <2> QED  BY <2>1, <2>2, <1>bt
<1> HIDE DEF q2
<1>b2. q[1] = lg[n - m + 1]  BY <1>b0, <1>q
<1>b3. n + 1 > lim => t - lg[n + 1 - lim] >= dur
  <2>1. n + 1 - lim = n - m + 1  BY <1>b0, <1>t
  <2> QED  BY <2>1, <1>b2
<1>b4. OrderedIn(t, lg2) /\ Spaced(lim, dur, lg2) /\ lg2 \in Seq(Nat)  BY <1>b3, LogGrows
<1> HIDE DEF n, m, lg2
<1>b5. EndsLog(lim, q2, lg2)
  <2> SUFFICES ASSUME NEW i \in 1..m
               PROVE  q2[i] = lg2[(n + 1) - m + i]
    BY <1>b0, <1>b1, <1>l, <1>q, <1>t DEF EndsLog
  <2>1. CASE i \in 1..(m - 1)
    <3>1. /\ n - m + (i + 1) \in 1..n /\ i + 1 \in 1..m
          /\ (n + 1) - m + i = n - m + (i + 1)
      BY <2>1, <1>q, <1>t
    <3> QED  BY <3>1, <2>1, <1>b1, <1>l, <1>q
  <2>2. CASE i = m
    <3>1. (n + 1) - m + i = n + 1  BY <2>2, <1>t
    <3> QED  BY <3>1, <2>2, <1>b1, <1>l
  <2> QED  BY <2>1, <2>2, <1>b0, <1>t
<1>b6. GoneIsOld(lim, dur, q2, t, lg2)  BY <1>b0, <1>b1 DEF GoneIsOld
<1>7. LimiterInv(lim, dur, q2, t, lg2)
  BY <1>b1, <1>b4, <1>b5, <1>b6, <1>t DEF LimiterInv
<1> QED  BY <1>7 DEF q2, lg2
(* Forgetting a list of which even the youngest has left the window.       *)
LEMMA AllForgotten ==
    ASSUME NEW lim \in Nat \ {0}, NEW dur \in Nat, NEW q, NEW t, NEW lg,
           LimiterInv(lim, dur, q, t, lg),
           q # <<>>, t - q[Len(q)] >= dur
    PROVE  LimiterInv(lim, dur, <<>>, t, lg)
<1> DEFINE n == Len(lg)
           m == Len(q)
<1>t. q \in Seq(Nat) /\ lg \in Seq(Nat) /\ t \in Nat /\ n \in Nat /\ m \in Nat
  BY DEF LimiterInv
<1>1. m \in Nat \ {0} /\ m <= n /\ q[m] = lg[n]
  <2>1. m \in Nat \ {0}  BY <1>t
  <2>2. m <= n /\ q[m] = lg[n - m + m]
    BY <2>1, <1>t DEF LimiterInv, EndsLog
  <2>3. n - m + m = n  BY <1>t
  <2> QED  BY <2>1, <2>2, <2>3
<1>3. \A i \in 1..n : lg[i] <= lg[n] /\ lg[i] \in Nat /\ lg[n] \in Nat
  BY <1>1, <1>t DEF LimiterInv, OrderedIn
<1>4. \A i \in 1..n : t - lg[i] >= dur
  <2>1. t - lg[n] >= dur  BY <1>1
  <2> HIDE DEF n
  <2> SUFFICES ASSUME NEW i \in 1..n PROVE t - lg[i] >= dur
    OBVIOUS
  <2>2. lg[i] <= lg[n] /\ lg[i] \in Nat /\ lg[n] \in Nat  BY <1>3
  <2>3. t \in Nat /\ t - lg[n] >= dur  BY <1>t, <2>1
  <2> QED  BY <2>2, <2>3, OlderStill, Zenon
<1>5. GoneIsOld(lim, dur, <<>>, t, lg)  BY <1>4, <1>t DEF GoneIsOld
<1>6. EndsLog(lim, <<>>, lg)  BY <1>t DEF EndsLog
<1> QED  BY <1>5, <1>6, <1>t DEF LimiterInv

LEMMA TimePasses ==
    ASSUME NEW lim \in Nat \ {0}, NEW dur \in Nat, NEW q, NEW t, NEW lg,
           LimiterInv(lim, dur, q, t, lg), NEW t2 \in Nat, t <= t2
    PROVE  LimiterInv(lim, dur, q, t2, lg)
<1>t. q \in Seq(Nat) /\ lg \in Seq(Nat) /\ t \in Nat
      /\ \A i \in 1..Len(lg) : lg[i] \in Nat
  BY DEF LimiterInv
<1>2. OrderedIn(t2, lg)  BY <1>t DEF LimiterInv, OrderedIn
<1>3. EndsLog(lim, q, lg) /\ Spaced(lim, dur, lg)  BY DEF LimiterInv
<1>4. GoneIsOld(lim, dur, q, t2, lg)
  <2>1. \A i \in 1..(Len(lg) - Len(q)) : i \in 1..Len(lg)  BY <1>t
  <2> QED  BY <2>1, <1>t DEF LimiterInv, GoneIsOld
<1> QED  BY <1>t, <1>2, <1>3, <1>4 DEF LimiterInv

(* A full list whose oldest is in the window: the limit is used up.        *)
LEMMA FullIsUsedUp ==
    ASSUME NEW lim \in Nat \ {0}, NEW dur \in Nat, NEW q, NEW t, NEW lg,
           LimiterInv(lim, dur, q, t, lg),
           Len(q) = lim, t - q[1] < dur
    PROVE  Len(lg) >= lim /\ t - lg[Len(lg) - lim + 1] < dur
<1>t. q \in Seq(Nat) /\ lg \in Seq(Nat) /\ Len(lg) \in Nat
  BY DEF LimiterInv
<1>1. Len(lg) >= lim /\ 1 \in 1..Len(q)
  BY <1>t DEF LimiterInv, EndsLog
<1>2. q[1] = lg[Len(lg) - Len(q) + 1]
  BY <1>1 DEF LimiterInv, EndsLog
<1> QED  BY <1>1, <1>2

(***************************************************************************)
(* The in-memory limiter                                                   *)
(***************************************************************************)

LEMMA InvIsLimiter == RateLimitInv <=> LimiterInv(maxRequestNum, duration, queue, now, log)
  BY DEF RateLimitInv, RateLimitTypeOK, Ordered, QueueEndsLog, ForgottenIsOld, WindowLimit,
     LimiterInv, OrderedIn, EndsLog, GoneIsOld, Spaced

LEMMA StepInv ==
    ASSUME DurationFits, RateLimitInv, [Next]_vars PROVE RateLimitInv'
<1> USE RateLimitAssumption
<1>0. LimiterInv(maxRequestNum, duration, queue, now, log)  BY InvIsLimiter
<1>t. queue \in Seq(Nat) /\ Len(queue) \in Nat /\ now \in Nat /\ Len(queue) <= maxRequestNum
  BY <1>0 DEF LimiterInv, EndsLog
<1> SUFFICES LimiterInv(maxRequestNum, duration, queue', now', log')
  BY DEF RateLimitInv, RateLimitTypeOK, Ordered, QueueEndsLog, ForgottenIsOld, WindowLimit,
     LimiterInv, OrderedIn, EndsLog, GoneIsOld, Spaced
<1>1. CASE Request
  <2>1. CASE HasRoom /\ Admit(queue)
    <3>1. Len(queue) < maxRequestNum  BY <2>1, <1>t DEF HasRoom
    <3>2. queue' = Append(queue, now) /\ log' = Append(log, now) /\ now' = now
      BY <1>1, <2>1 DEF Request, Admit
    <3> QED  BY <1>0, <3>1, <3>2, RoomForRequest
  <2>2. CASE ~HasRoom /\ HasAged /\ Admit(Tail(queue))
    <3>1. Len(queue) = maxRequestNum  BY <2>2, <1>t DEF HasRoom
    <3>2. /\ queue' = Append(Tail(queue), now) /\ log' = Append(log, now) /\ now' = now
          /\ now - queue[1] >= duration
      BY <1>1, <2>2 DEF Request, Admit, HasAged
    <3> QED  BY <1>0, <3>1, <3>2, PlaceOfAged
  <2> QED  BY <1>1, <2>1, <2>2 DEF Request
<1>2. CASE clearExpiredItems
  (* Here the duration has to fit the expiration.                          *)
  <2>1. queue # <<>> /\ now - queue[Len(queue)] >= duration
    <3>1. queue[Len(queue)] \in Nat  BY <1>2, <1>t DEF clearExpiredItems
    <3> QED  BY <1>2, <1>t, <3>1 DEF clearExpiredItems, DurationFits
  <2>2. queue' = <<>> /\ now' = now /\ log' = log  BY <1>2 DEF clearExpiredItems
  <2> QED  BY <1>0, <2>1, <2>2, AllForgotten
<1>3. CASE Tick
  <2>1. queue' = queue /\ now' = now + 1 /\ log' = log  BY <1>3 DEF Tick
  <2>2. now' \in Nat /\ now <= now'  BY <1>t, <2>1
  <2> QED  BY <1>0, <2>1, <2>2, TimePasses
<1>4. CASE UNCHANGED vars
  BY <1>0, <1>4 DEF vars
<1> QED  BY <1>1, <1>2, <1>3, <1>4 DEF Next

LEMMA InvRefuses == RateLimitInv => RefusedRightly
<1> SUFFICES ASSUME RateLimitInv, Refuses PROVE RefusedRightly
  BY DEF RefusedRightly
<1> USE RateLimitAssumption
<1>0. LimiterInv(maxRequestNum, duration, queue, now, log)  BY InvIsLimiter
<1>1. Len(queue) = maxRequestNum
  BY <1>0 DEF Refuses, HasRoom, LimiterInv, EndsLog
<1>2. now - queue[1] < duration
  <2>1. queue[1] \in Nat /\ now \in Nat  BY <1>0, <1>1 DEF LimiterInv
  <2> QED  BY <2>1 DEF Refuses, HasAged
<1> QED  BY <1>0, <1>1, <1>2, FullIsUsedUp DEF RefusedRightly

(* The limiter of common/rate-limit.go never admits more than              *)
(* maxRequestNum requests in a window of the limit's duration, and refuses *)
(* none before the limit is used up, if the duration fits the expiration.  *)
THEOREM MemoryLimitHolds == DurationFits => (Spec => []LimitIsExact)
<1> SUFFICES ASSUME DurationFits PROVE Spec => []LimitIsExact
  OBVIOUS
<1>1. Init => RateLimitInv  BY RateLimitAssumption, NothingYet, InvIsLimiter DEF Init
<1>2. RateLimitInv /\ [Next]_vars => RateLimitInv'  BY StepInv
<1>3. RateLimitInv => LimitIsExact
  BY InvRefuses DEF RateLimitInv, LimitIsExact
<1> QED  BY <1>1, <1>2, <1>3, PTL DEF Spec

(***************************************************************************)
(* The limiter of the routes on Redis                                      *)
(***************************************************************************)

Commands == {"idle", "LLEN", "LINDEX", "LPUSH", "LPUSH+LTRIM", "LTRIM", "EXPIRE", "refuse"}

(* The list s is a selection of the history lg, in order: its entries are  *)
(* no younger than those that are as far from the end of the history.      *)
Selected(s, t, lg) ==
    /\ s \in Seq(Nat) /\ lg \in Seq(Nat) /\ t \in Nat
    /\ OrderedIn(t, lg) /\ Len(s) <= Len(lg)
    /\ \A k \in 1..Len(s) : s[Len(s) + 1 - k] <= lg[Len(lg) + 1 - k]
    /\ \A i, j \in 1..Len(s) : i <= j => s[i] <= s[j]

(* The list of a key when requests overlap and commands are lost.  A       *)
(* request that found it full still finds it so: no time passes between    *)
(* its commands, and LTRIM leaves it full.                                 *)
RedisInv ==
    /\ Selected(list, redisNow, redisLog)
    /\ pc \in [Handlers -> Commands]
    /\ \A h \in Handlers : pc[h] = "LINDEX" => Len(list) >= Limit

LEMMA HistoryGrows ==
    ASSUME NEW t \in Nat, NEW lg \in Seq(Nat), OrderedIn(t, lg)
    PROVE  OrderedIn(t, Append(lg, t))
<1> DEFINE lg2 == Append(lg, t)
           n == Len(lg)
<1>a. /\ Len(lg2) = n + 1 /\ n \in Nat /\ lg2[n + 1] = t
      /\ \A i \in 1..n : lg2[i] = lg[i] /\ lg[i] \in Nat
  BY AppendFacts
<1>b. \A i \in 1..n : lg[i] <= t  BY DEF OrderedIn
<1>c. \A i, j \in 1..n : i <= j => lg[i] <= lg[j]  BY DEF OrderedIn
<1> HIDE DEF lg2, n
<1>1. \A i \in 1..(n + 1) : i \in 1..n \/ i = n + 1  BY <1>a
<1>2. \A i \in 1..(n + 1) : lg2[i] <= t  BY <1>a, <1>b, <1>1
<1>3. ASSUME NEW i \in 1..(n + 1), NEW j \in 1..(n + 1), i <= j PROVE lg2[i] <= lg2[j]
  <2>1. CASE j = n + 1  BY <2>1, <1>a, <1>2
  <2>2. CASE j \in 1..n
    <3>1. i \in 1..n  BY <1>a, <1>3, <2>2
    <3> QED  BY <1>a, <1>c, <1>3, <2>2, <3>1
  <2> QED  BY <1>1, <2>1, <2>2
<1> QED  BY <1>a, <1>2, <1>3 DEF OrderedIn, lg2

(* An LPUSH that is lost still admits the request.                         *)
LEMMA SelectedLoses ==
    ASSUME NEW s, NEW t, NEW lg, Selected(s, t, lg)
    PROVE  Selected(s, t, Append(lg, t))
<1> DEFINE lg2 == Append(lg, t)
           n == Len(lg)
           m == Len(s)
<1>t. s \in Seq(Nat) /\ lg \in Seq(Nat) /\ t \in Nat /\ OrderedIn(t, lg) /\ m <= n
      /\ n \in Nat /\ m \in Nat
  BY DEF Selected
<1>a. /\ Len(lg2) = n + 1 /\ lg2[n + 1] = t /\ lg2 \in Seq(Nat)
      /\ \A i \in 1..n : lg2[i] = lg[i] /\ lg[i] \in Nat
  BY <1>t, AppendFacts
<1>o. OrderedIn(t, lg2)  BY <1>t, HistoryGrows
<1>s. /\ \A k \in 1..m : s[m + 1 - k] <= lg[n + 1 - k]
      /\ \A i, j \in 1..m : i <= j => s[i] <= s[j]
  BY DEF Selected
<1>n. \A i \in 1..m : s[i] \in Nat  BY <1>t
<1> HIDE DEF lg2, n, m
<1>1. ASSUME NEW k \in 1..m PROVE s[m + 1 - k] <= lg2[(n + 1) + 1 - k]
  <2>1. n + 1 - k \in 1..(n + 1) /\ (n + 1) + 1 - k \in 1..(n + 1)
        /\ n + 1 - k <= (n + 1) + 1 - k /\ n + 1 - k \in 1..n /\ m + 1 - k \in 1..m
    BY <1>t
  <2>2. lg2[n + 1 - k] <= lg2[(n + 1) + 1 - k]  BY <1>a, <1>o, <2>1 DEF OrderedIn
  <2>3. s[m + 1 - k] <= lg[n + 1 - k] /\ lg[n + 1 - k] = lg2[n + 1 - k]
    BY <1>s, <1>a, <2>1
  <2>4. s[m + 1 - k] \in Nat /\ lg2[n + 1 - k] \in Nat /\ lg2[(n + 1) + 1 - k] \in Nat
    <3>1. \A i \in 1..(n + 1) : lg2[i] \in Nat  BY <1>a
    <3> QED  BY <1>n, <2>1, <3>1
  <2> QED  BY <2>2, <2>3, <2>4
<1>2. m <= n + 1  BY <1>t
<1> QED  BY <1>1, <1>2, <1>a, <1>o, <1>s, <1>t DEF Selected, lg2, m

LEMMA SelectedGrows ==
    ASSUME NEW s, NEW t, NEW lg, Selected(s, t, lg)
    PROVE  Selected(Append(s, t), t, Append(lg, t))
<1> DEFINE lg2 == Append(lg, t)
           s2 == Append(s, t)
           n == Len(lg)
           m == Len(s)
<1>t. s \in Seq(Nat) /\ lg \in Seq(Nat) /\ t \in Nat /\ OrderedIn(t, lg) /\ m <= n
      /\ n \in Nat /\ m \in Nat
  BY DEF Selected
<1>a. /\ Len(lg2) = n + 1 /\ lg2[n + 1] = t /\ lg2 \in Seq(Nat)
      /\ \A i \in 1..n : lg2[i] = lg[i] /\ lg[i] \in Nat
  BY <1>t, AppendFacts
<1>b. /\ Len(s2) = m + 1 /\ s2[m + 1] = t /\ s2 \in Seq(Nat)
      /\ \A i \in 1..m : s2[i] = s[i] /\ s[i] \in Nat
  BY <1>t, AppendFacts
<1>o. OrderedIn(t, lg2)  BY <1>t, HistoryGrows
<1>l. \A i \in 1..n : lg[i] <= t  BY <1>t DEF OrderedIn
<1>s. /\ \A k \in 1..m : s[m + 1 - k] <= lg[n + 1 - k]
      /\ \A i, j \in 1..m : i <= j => s[i] <= s[j]
  BY DEF Selected
<1> HIDE DEF lg2, s2, n, m
<1>1. ASSUME NEW k \in 1..(m + 1) PROVE s2[(m + 1) + 1 - k] <= lg2[(n + 1) + 1 - k]
  <2>1. CASE k = 1
    <3>1. (m + 1) + 1 - k = m + 1 /\ (n + 1) + 1 - k = n + 1  BY <2>1, <1>t
    <3> QED  BY <3>1, <1>a, <1>b, <1>t
  <2>2. CASE k # 1
    <3>1. /\ k - 1 \in 1..m
          /\ (m + 1) + 1 - k = m + 1 - (k - 1) /\ (n + 1) + 1 - k = n + 1 - (k - 1)
          /\ m + 1 - (k - 1) \in 1..m /\ n + 1 - (k - 1) \in 1..n
      BY <2>2, <1>t
    <3>2. s[m + 1 - (k - 1)] <= lg[n + 1 - (k - 1)]  BY <3>1, <1>s
    <3> QED  BY <3>1, <3>2, <1>a, <1>b
  <2> QED  BY <2>1, <2>2
<1>2. ASSUME NEW i \in 1..m PROVE s[i] <= t
  <2>1. m + 1 - i \in 1..m /\ m + 1 - (m + 1 - i) = i /\ n + 1 - (m + 1 - i) \in 1..n
    BY <1>t
  <2>2. s[i] <= lg[n + 1 - (m + 1 - i)]  BY <2>1, <1>s
  <2>3. lg[n + 1 - (m + 1 - i)] <= t /\ lg[n + 1 - (m + 1 - i)] \in Nat  BY <2>1, <1>l, <1>a
  <2> QED  BY <2>2, <2>3, <1>b, <1>t
<1>3. ASSUME NEW i \in 1..(m + 1), NEW j \in 1..(m + 1), i <= j PROVE s2[i] <= s2[j]
  <2>1. CASE j = m + 1
    <3>1. i = m + 1 \/ i \in 1..m  BY <1>t
    <3> QED  BY <2>1, <3>1, <1>2, <1>b, <1>t
  <2>2. CASE j # m + 1
    <3>1. i \in 1..m /\ j \in 1..m  BY <1>3, <2>2, <1>t
    <3> QED  BY <1>3, <3>1, <1>b, <1>s
  <2> QED  BY <2>1, <2>2
<1>4. m + 1 <= n + 1  BY <1>t
<1> QED  BY <1>1, <1>3, <1>4, <1>a, <1>b, <1>o, <1>t DEF Selected, lg2, s2

(* LTRIM keeps the end of the list.                                        *)
LEMMA TrimmedFacts ==
    ASSUME NEW s \in Seq(Nat), NEW lim \in Nat \ {0}, Len(s) > lim
    PROVE  LET z == SubSeq(s, Len(s) - lim + 1, Len(s))
           IN  /\ z \in Seq(Nat) /\ Len(z) = lim
               /\ \A i \in 1..lim : z[i] = s[Len(s) - lim + i]
<1> DEFINE m == Len(s)
           a == m - lim + 1
           z == SubSeq(s, a, m)
<1>1. m \in Nat /\ a \in 1..m /\ m - a + 1 = lim  OBVIOUS
<1>2. \A i \in a..m : s[i] \in Nat  BY <1>1
<1>3. z \in Seq(Nat) /\ Len(z) = m - a + 1 /\ \A i \in 1..(m - a + 1) : z[i] = s[a + i - 1]
  BY <1>1, <1>2, SubSeqProperties
<1>4. \A i \in 1..lim : a + i - 1 = m - lim + i  BY <1>1
<1> QED  BY <1>1, <1>3, <1>4

LEMMA SelectedTrims ==
    ASSUME NEW s, NEW t, NEW lg, Selected(s, t, lg), Limit \in Nat \ {0}
    PROVE  /\ Selected(Redis!Trimmed(s), t, lg)
           /\ Len(s) >= Limit => Len(Redis!Trimmed(s)) >= Limit
<1>1. CASE Len(s) <= Limit  BY <1>1 DEF Redis!Trimmed
<1>2. CASE ~(Len(s) <= Limit)
  <2> DEFINE z == Redis!Trimmed(s)
             n == Len(lg)
             m == Len(s)
  <2>t. /\ s \in Seq(Nat) /\ lg \in Seq(Nat) /\ t \in Nat /\ OrderedIn(t, lg)
        /\ m <= n /\ n \in Nat /\ m \in Nat /\ Limit < m
    BY <1>2 DEF Selected
  <2>z. /\ z \in Seq(Nat) /\ Len(z) = Limit
        /\ \A i \in 1..Limit : z[i] = s[m - Limit + i]
    BY <1>2, <2>t, TrimmedFacts DEF Redis!Trimmed
  <2>s. /\ \A k \in 1..m : s[m + 1 - k] <= lg[n + 1 - k]
        /\ \A i, j \in 1..m : i <= j => s[i] <= s[j]
    BY DEF Selected
  <2> HIDE DEF z, n, m
  <2>1. ASSUME NEW k \in 1..Limit PROVE z[Limit + 1 - k] <= lg[n + 1 - k]
    <3>1. /\ Limit + 1 - k \in 1..Limit /\ k \in 1..m
          /\ m - Limit + (Limit + 1 - k) = m + 1 - k
      BY <2>t
    <3> QED  BY <3>1, <2>z, <2>s
  <2>2. ASSUME NEW i \in 1..Limit, NEW j \in 1..Limit, i <= j PROVE z[i] <= z[j]
    <3>1. m - Limit + i \in 1..m /\ m - Limit + j \in 1..m /\ m - Limit + i <= m - Limit + j
      BY <2>t, <2>2
    <3> QED  BY <3>1, <2>z, <2>s
  <2>3. Limit <= n /\ Limit >= Limit  BY <2>t
  <2> QED  BY <2>1, <2>2, <2>3, <2>t, <2>z DEF Selected, z, n
<1> QED  BY <1>1, <1>2

LEMMA SelectedAges ==
    ASSUME NEW s, NEW t, NEW lg, Selected(s, t, lg)
    PROVE  Selected(s, t + 1, lg) /\ Selected(<<>>, t + 1, lg)
<1>1. s \in Seq(Nat) /\ lg \in Seq(Nat) /\ t \in Nat /\ OrderedIn(t, lg)
  BY DEF Selected
<1>2. \A i \in 1..Len(lg) : lg[i] \in Nat  BY <1>1
<1>3. OrderedIn(t + 1, lg)  BY <1>1, <1>2 DEF OrderedIn
<1>4. t + 1 \in Nat  BY <1>1
<1>5. <<>> \in Seq(Nat) /\ Len(<<>>) = 0 /\ 0 <= Len(lg)  BY <1>1
<1> QED  BY <1>1, <1>3, <1>4, <1>5 DEF Selected

(* A request is refused only after Limit requests within the window.       *)
LEMMA SelectedRefuses ==
    ASSUME NEW s, NEW t, NEW lg, Selected(s, t, lg), Limit \in Nat \ {0}, Window \in Nat,
           Len(s) >= Limit, t - s[1] < Window
    PROVE  Len(lg) >= Limit /\ t - lg[Len(lg) - Limit + 1] < Window
<1> DEFINE n == Len(lg)
           m == Len(s)
<1>t. s \in Seq(Nat) /\ lg \in Seq(Nat) /\ t \in Nat /\ m <= n /\ n \in Nat /\ m \in Nat
  BY DEF Selected
<1>1. m >= Limit /\ n >= Limit  BY <1>t
<1>2. s[m + 1 - Limit] <= lg[n + 1 - Limit]
  <2>1. Limit \in 1..m  BY <1>1, <1>t
  <2> QED  BY <2>1 DEF Selected
<1>3. s[1] <= s[m + 1 - Limit]
  <2>1. 1 \in 1..m /\ m + 1 - Limit \in 1..m /\ 1 <= m + 1 - Limit  BY <1>1, <1>t
  <2> QED  BY <2>1 DEF Selected
<1>4. s[1] \in Nat /\ s[m + 1 - Limit] \in Nat /\ lg[n + 1 - Limit] \in Nat
  <2>1. 1 \in 1..m /\ m + 1 - Limit \in 1..m /\ n + 1 - Limit \in 1..n  BY <1>1, <1>t
  <2>2. \A i \in 1..m : s[i] \in Nat  BY <1>t, ElementOfSeq
  <2>3. \A i \in 1..n : lg[i] \in Nat  BY <1>t, ElementOfSeq
  <2> HIDE DEF n, m
  <2> QED  BY <2>1, <2>2, <2>3
<1>5. n - Limit + 1 = n + 1 - Limit  BY <1>t
<1>6. t - s[1] < Window  OBVIOUS
<1> HIDE DEF n, m
<1>7. t - lg[n - Limit + 1] < Window
  <2>1. ASSUME NEW a \in Nat, NEW b \in Nat, NEW c \in Nat, a <= b, b <= c, t - a < Window
        PROVE  t - c < Window
    BY <2>1, <1>t
  <2> QED  BY <1>2, <1>3, <1>4, <1>5, <1>6, <2>1
<1> QED  BY <1>1, <1>7 DEF n

LEMMA RedisStarts == Redis!Init => RedisInv
<1> SUFFICES ASSUME Redis!Init PROVE RedisInv
  OBVIOUS
<1>1. list = <<>> /\ redisLog = <<>> /\ redisNow = 1 /\ pc = [h \in Handlers |-> "idle"]
  BY DEF Redis!Init
<1>2. Selected(<<>>, 1, <<>>)  BY DEF Selected, OrderedIn
<1> QED  BY <1>1, <1>2 DEF RedisInv, Commands

LEMMA RedisStep ==
    ASSUME RedisInv, Redis!Next
    PROVE  RedisInv' /\ Redis!RefusedOverLimit
<1> USE LimitsAssumption
<1>t. pc \in [Handlers -> Commands] /\ Selected(list, redisNow, redisLog)
  BY DEF RedisInv
<1>f. \A h \in Handlers : pc[h] = "LINDEX" => Len(list) >= Limit
  BY DEF RedisInv
<1>1. CASE Redis!Tick
  <2>1. pc' = pc /\ redisLog' = redisLog /\ redisNow' = redisNow + 1
        /\ list' \in {list, <<>>} /\ \A h \in Handlers : pc[h] = "idle"
    BY <1>1 DEF Redis!Tick
  <2>2. Selected(list', redisNow', redisLog')  BY <1>t, <2>1, SelectedAges
  <2>3. Redis!RefusedOverLimit  BY <2>1 DEF Redis!RefusedOverLimit
  <2> QED  BY <1>t, <2>1, <2>2, <2>3 DEF RedisInv
<1>2. ASSUME NEW g \in Handlers,
             \/ Redis!Arrive(g) \/ Redis!LLen(g) \/ Redis!LIndex(g) \/ Redis!LPush(g)
             \/ Redis!LTrim(g) \/ Redis!Expire(g) \/ Redis!Abandon(g)
      PROVE  RedisInv' /\ Redis!RefusedOverLimit
  <2>1. PICK c : pc' = [pc EXCEPT ![g] = c] /\ c \in Commands
    BY <1>2 DEF Redis!Arrive, Redis!LLen, Redis!LIndex, Redis!LPush, Redis!LTrim, Redis!Expire,
       Redis!Abandon, Redis!Goto, Commands
  <2>2. pc' \in [Handlers -> Commands] /\ pc'[g] = c /\ \A h \in Handlers : h # g => pc'[h] = pc[h]
    BY <1>t, <2>1
  <2>3. redisNow' = redisNow
    BY <1>2 DEF Redis!Arrive, Redis!LLen, Redis!LIndex, Redis!LPush, Redis!LTrim, Redis!Expire,
       Redis!Abandon
  <2>4. /\ Selected(list', redisNow, redisLog')
        /\ Len(list) >= Limit => Len(list') >= Limit
    <3>1. CASE list' = list /\ redisLog' = redisLog  BY <3>1, <1>t
    <3>2. CASE Redis!LPush(g)
      <4>1. redisLog' = Append(redisLog, redisNow) /\ list' \in {list, Append(list, redisNow)}
        BY <3>2 DEF Redis!LPush
      <4>2. Len(list) >= Limit => Len(Append(list, redisNow)) >= Limit
        <5>1. list \in Seq(Nat) /\ redisNow \in Nat  BY <1>t DEF Selected
        <5>2. Len(Append(list, redisNow)) = Len(list) + 1 /\ Len(list) \in Nat
          BY <5>1, AppendFacts
        <5> QED  BY <5>2
      <4> QED  BY <4>1, <4>2, <1>t, SelectedLoses, SelectedGrows
    <3>3. CASE Redis!LTrim(g)
      <4>1. redisLog' = redisLog /\ list' \in {list, Redis!Trimmed(list)}
        BY <3>3 DEF Redis!LTrim
      <4> QED  BY <4>1, <1>t, SelectedTrims
    <3> QED  BY <1>2, <3>1, <3>2, <3>3
         DEF Redis!Arrive, Redis!LLen, Redis!LIndex, Redis!Expire, Redis!Abandon
  <2>5. c = "LINDEX" => Len(list') >= Limit
    <3>1. Len(list) \in Nat  BY <1>t DEF Selected
    <3>2. CASE Redis!LLen(g)
      <4>1. c = IF Len(list) < Limit THEN "LPUSH" ELSE "LINDEX"
        BY <3>2, <2>2, <1>t DEF Redis!LLen, Redis!Goto
      <4>2. list' = list  BY <3>2 DEF Redis!LLen
      <4> QED  BY <3>1, <4>1, <4>2
    <3>3. CASE ~Redis!LLen(g)
      <4>1. c # "LINDEX"
        BY <1>2, <3>3, <2>2, <1>t DEF Redis!Arrive, Redis!LIndex, Redis!LPush, Redis!LTrim, Redis!Expire,
           Redis!Abandon, Redis!Goto
      <4> QED  BY <4>1
    <3> QED  BY <3>2, <3>3
  <2>6. RedisInv'  BY <2>2, <2>3, <2>4, <2>5, <1>f DEF RedisInv
  <2>7. ASSUME NEW h \in Handlers, pc[h] = "LINDEX", pc'[h] = "refuse"
        PROVE  /\ Len(redisLog) >= Limit
               /\ redisNow - redisLog[Len(redisLog) - Limit + 1] < Window
    <3>1. h = g  BY <2>2, <2>7
    <3>2. Redis!LIndex(g)
      BY <1>2, <2>7, <3>1, <2>2, <1>t DEF Redis!Arrive, Redis!LLen, Redis!LPush, Redis!LTrim,
         Redis!Expire, Redis!Abandon, Redis!Goto
    <3>3. redisNow - list[1] < Window
      BY <2>7, <3>1, <3>2, <1>t DEF Redis!LIndex, Redis!Goto, Redis!OldTime
    <3> QED  BY <1>t, <1>f, <2>7, <3>3, SelectedRefuses
  <2> QED  BY <2>6, <2>7 DEF Redis!RefusedOverLimit
<1> QED  BY <1>1, <1>2 DEF Redis!Next

(* Requests one after another: the list, once trimmed, is what the         *)
(* in-memory limiter keeps.  A list that no request is working on lives    *)
(* until its youngest entry is KeyLife old.                                *)
AloneInv ==
    /\ list \in Seq(Nat) /\ expireAt \in Nat /\ redisFaults = 0
    /\ pc \in [{Handler} -> Commands]
    /\ LimiterInv(Limit, Window, RedisAlone!Trimmed(list), redisNow, redisLog)
    /\ Len(list) <= IF pc[Handler] = "LTRIM" THEN Limit + 1 ELSE Limit
    /\ pc[Handler] = "LPUSH" => Len(list) < Limit
    /\ pc[Handler] = "LINDEX" => Len(list) = Limit
    /\ pc[Handler] = "LPUSH+LTRIM" => Len(list) = Limit /\ redisNow - list[1] >= Window
    /\ pc[Handler] = "idle" /\ list # <<>> => expireAt >= list[Len(list)] + KeyLife

LEMMA TrimmedShort ==
    ASSUME NEW s \in Seq(Nat), Len(s) <= Limit PROVE RedisAlone!Trimmed(s) = s
  BY DEF RedisAlone!Trimmed

LEMMA TrimmedLong ==
    ASSUME NEW s \in Seq(Nat), Limit \in Nat \ {0}, Len(s) > Limit
    PROVE  RedisAlone!Trimmed(s) \in Seq(Nat) /\ Len(RedisAlone!Trimmed(s)) = Limit
<1>1. ~(Len(s) <= Limit)  OBVIOUS
<1> QED  BY <1>1, TrimmedFacts DEF RedisAlone!Trimmed

(* LPUSH and LTRIM on a full list.                                         *)
LEMMA TrimmedPush ==
    ASSUME NEW s \in Seq(Nat), NEW x \in Nat, Limit \in Nat \ {0}, Len(s) = Limit
    PROVE  RedisAlone!Trimmed(Append(s, x)) = Append(Tail(s), x)
<1> DEFINE s2 == Append(s, x)
           z == RedisAlone!Trimmed(s2)
           y == Append(Tail(s), x)
<1>a. /\ s2 \in Seq(Nat) /\ Len(s2) = Limit + 1 /\ s2[Limit + 1] = x
      /\ \A i \in 1..Limit : s2[i] = s[i]
  BY AppendFacts
<1>t. /\ Tail(s) \in Seq(Nat) /\ Len(Tail(s)) = Limit - 1
      /\ \A i \in 1..(Limit - 1) : Tail(s)[i] = s[i + 1]
  OBVIOUS
<1>b. /\ y \in Seq(Nat) /\ Len(y) = (Limit - 1) + 1 /\ y[(Limit - 1) + 1] = x
      /\ \A i \in 1..(Limit - 1) : y[i] = Tail(s)[i]
  BY <1>t, AppendFacts
<1>z. /\ z \in Seq(Nat) /\ Len(z) = Limit
      /\ \A i \in 1..Limit : z[i] = s2[(Limit + 1) - Limit + i]
  <2>1. ~(Len(s2) <= Limit) /\ Len(s2) > Limit  BY <1>a
  <2> QED  BY <2>1, <1>a, TrimmedFacts DEF RedisAlone!Trimmed
<1>n. (Limit - 1) + 1 = Limit  OBVIOUS
<1> HIDE DEF s2, z, y
<1>1. ASSUME NEW i \in 1..Limit PROVE z[i] = y[i]
  <2>1. (Limit + 1) - Limit + i = i + 1  OBVIOUS
  <2>2. z[i] = s2[i + 1]  BY <1>z, <2>1
  <2>3. CASE i = Limit  BY <2>2, <2>3, <1>a, <1>b, <1>n
  <2>4. CASE i # Limit
    <3>1. i \in 1..(Limit - 1) /\ i + 1 \in 1..Limit  BY <2>4
    <3>2. s2[i + 1] = s[i + 1]  BY <3>1, <1>a
    <3>3. y[i] = s[i + 1]  BY <3>1, <1>b, <1>t
    <3> QED  BY <2>2, <3>2, <3>3
  <2> QED  BY <2>3, <2>4
<1>2. z = y
  <2>1. Len(z) = Len(y)  BY <1>z, <1>b, <1>n
  <2> QED  BY <1>1, <1>z, <1>b, <2>1, SeqEqual
<1> QED  BY <1>2 DEF z, y, s2

(* The youngest entry of a list is not in the future.                      *)
LEMMA YoungestIsPast ==
    ASSUME NEW lim \in Nat \ {0}, NEW dur \in Nat, NEW q, NEW t, NEW lg,
           LimiterInv(lim, dur, q, t, lg), q # <<>>
    PROVE  q[Len(q)] \in Nat /\ q[Len(q)] <= t
<1> DEFINE n == Len(lg)
           m == Len(q)
<1>t. q \in Seq(Nat) /\ lg \in Seq(Nat) /\ t \in Nat /\ n \in Nat /\ m \in Nat \ {0} /\ m <= n
  BY DEF LimiterInv, EndsLog
<1>1. q[m] = lg[n - m + m] /\ n - m + m = n
  BY <1>t DEF LimiterInv, EndsLog
<1>2. n \in 1..n /\ m \in 1..m  BY <1>t
<1>3. lg[n] <= t  BY <1>2 DEF LimiterInv, OrderedIn
<1>4. q[m] \in Nat  BY <1>2, <1>t, ElementOfSeq
<1> QED  BY <1>1, <1>3, <1>4

LEMMA AloneStarts == RedisAlone!Init => AloneInv
<1> USE LimitsAssumption
<1> SUFFICES ASSUME RedisAlone!Init PROVE AloneInv
  OBVIOUS
<1>1. /\ list = <<>> /\ expireAt = 0 /\ redisLog = <<>> /\ redisNow = 1 /\ redisFaults = 0
      /\ pc = [h \in {Handler} |-> "idle"]
  BY DEF RedisAlone!Init
<1>2. list \in Seq(Nat) /\ Len(list) = 0 /\ Len(list) <= Limit  BY <1>1
<1>3. RedisAlone!Trimmed(list) = <<>>  BY <1>1, <1>2, TrimmedShort
<1>4. LimiterInv(Limit, Window, <<>>, 1, <<>>)  BY NothingYet
<1> QED  BY <1>1, <1>2, <1>3, <1>4 DEF AloneInv, Commands

LEMMA AloneStep ==
    ASSUME WindowFits, AloneInv, RedisAlone!Next PROVE AloneInv'
<1> USE LimitsAssumption
<1> DEFINE q == RedisAlone!Trimmed(list)
<1>t. /\ list \in Seq(Nat) /\ expireAt \in Nat /\ redisFaults = 0
      /\ pc \in [{Handler} -> Commands] /\ Len(list) \in Nat
  BY DEF AloneInv
<1>i. LimiterInv(Limit, Window, q, redisNow, redisLog)  BY DEF AloneInv
<1>n. redisNow \in Nat  BY <1>i DEF LimiterInv
<1>s. pc[Handler] # "LTRIM" => q = list /\ Len(list) <= Limit
  BY <1>t, TrimmedShort DEF AloneInv
<1> HIDE DEF q
<1>1. CASE RedisAlone!Tick
  <2>1. /\ pc' = pc /\ redisLog' = redisLog /\ redisNow' = redisNow + 1 /\ pc[Handler] = "idle"
        /\ redisFaults' = redisFaults
    BY <1>1 DEF RedisAlone!Tick
  <2>2. redisNow' \in Nat /\ redisNow <= redisNow'  BY <1>n, <2>1
  <2>3. LimiterInv(Limit, Window, list, redisNow', redisLog')
    BY <1>i, <1>s, <2>1, <2>2, TimePasses
  <2>4. CASE list' = list /\ expireAt' = expireAt
    <3>1. RedisAlone!Trimmed(list') = list /\ Len(list') <= Limit  BY <2>1, <2>4, <1>s DEF q
    <3> QED  BY <1>t, <2>1, <2>3, <2>4, <3>1 DEF AloneInv
  <2>5. CASE list' = <<>> /\ expireAt' = 0 /\ list # <<>> /\ redisNow + 1 >= expireAt
    <3>1. list[Len(list)] \in Nat  BY <2>3, <2>5, YoungestIsPast
    <3>2. expireAt >= list[Len(list)] + KeyLife  BY <2>1, <2>5 DEF AloneInv
    <3>3. redisNow' - list[Len(list)] >= Window
      BY <1>t, <1>n, <2>1, <2>5, <3>1, <3>2 DEF WindowFits
    <3>4. LimiterInv(Limit, Window, <<>>, redisNow', redisLog')
      BY <2>3, <2>5, <3>3, AllForgotten
    <3>5. list' \in Seq(Nat) /\ Len(list') = 0 /\ Len(list') <= Limit  BY <2>5
    <3>6. RedisAlone!Trimmed(list') = <<>>  BY <2>5, <3>5, TrimmedShort
    <3> QED  BY <1>t, <2>1, <2>5, <3>4, <3>5, <3>6 DEF AloneInv
  <2>6. CASE list' = <<>> /\ expireAt' = 0 /\ list = <<>>
    <3>1. RedisAlone!Trimmed(list') = list /\ Len(list') <= Limit /\ list' = list
      BY <2>1, <2>6, <1>s DEF q
    <3> QED  BY <1>t, <2>1, <2>3, <2>6, <3>1 DEF AloneInv
  <2> QED  BY <1>1, <2>4, <2>5, <2>6 DEF RedisAlone!Tick
<1>2. ASSUME NEW g \in {Handler},
             \/ RedisAlone!Arrive(g) \/ RedisAlone!LLen(g) \/ RedisAlone!LIndex(g)
             \/ RedisAlone!Abandon(g)
      PROVE  AloneInv'
  <2>1. /\ list' = list /\ expireAt' = expireAt /\ redisNow' = redisNow
        /\ redisLog' = redisLog /\ redisFaults' = redisFaults
    BY <1>2, <1>t DEF RedisAlone!Arrive, RedisAlone!LLen, RedisAlone!LIndex, RedisAlone!Abandon
  <2>2. PICK c \in Commands :
           /\ pc' = [pc EXCEPT ![Handler] = c]
           /\ c \in {"LLEN", "LPUSH", "LINDEX", "LPUSH+LTRIM", "refuse", "idle"}
           /\ c = "LPUSH" => Len(list) < Limit
           /\ c = "LINDEX" => ~(Len(list) < Limit)
           /\ c = "LPUSH+LTRIM" => pc[Handler] = "LINDEX" /\ ~(redisNow - list[1] < Window)
           /\ c = "idle" => list = <<>>
           /\ pc[Handler] # "LTRIM"
    BY <1>2, <1>t DEF RedisAlone!Arrive, RedisAlone!LLen, RedisAlone!LIndex, RedisAlone!Abandon,
       RedisAlone!Goto, RedisAlone!OldTime, Commands
  <2>3. pc' \in [{Handler} -> Commands] /\ pc'[Handler] = c  BY <1>t, <2>2
  <2>4. Len(list) <= Limit /\ q = list  BY <1>s, <2>2
  <2>5. c = "LINDEX" => Len(list) = Limit  BY <2>2, <2>4, <1>t
  <2>6. c = "LPUSH+LTRIM" => Len(list) = Limit /\ redisNow - list[1] >= Window
    <3> SUFFICES ASSUME c = "LPUSH+LTRIM" PROVE Len(list) = Limit /\ redisNow - list[1] >= Window
      OBVIOUS
    <3>1. Len(list) = Limit  BY <2>2 DEF AloneInv
    <3>2. list[1] \in Nat  BY <1>t, <3>1, ElementOfSeq
    <3> QED  BY <2>2, <3>1, <3>2, <1>n
  <2>7. c # "LTRIM"  BY <2>2
  <2>8. LimiterInv(Limit, Window, RedisAlone!Trimmed(list'), redisNow', redisLog')
    BY <1>i, <2>1 DEF q
  <2> QED  BY <1>t, <2>1, <2>2, <2>3, <2>4, <2>5, <2>6, <2>7, <2>8 DEF AloneInv
<1>3. ASSUME NEW g \in {Handler}, RedisAlone!LPush(g) PROVE AloneInv'
  <2>1. /\ list' = Append(list, redisNow) /\ redisLog' = Append(redisLog, redisNow)
        /\ expireAt' = expireAt /\ redisNow' = redisNow /\ redisFaults' = redisFaults
        /\ pc' = [pc EXCEPT ![Handler] = IF pc[Handler] = "LPUSH" THEN "EXPIRE" ELSE "LTRIM"]
        /\ pc[Handler] \in {"LPUSH", "LPUSH+LTRIM"}
    BY <1>3, <1>t DEF RedisAlone!LPush, RedisAlone!Goto
  <2>2. list' \in Seq(Nat) /\ Len(list') = Len(list) + 1  BY <1>t, <1>n, <2>1, AppendFacts
  <2>3. q = list  BY <2>1, <1>s
  <2>4. CASE pc[Handler] = "LPUSH"
    <3>1. Len(list) < Limit  BY <2>4 DEF AloneInv
    <3>2. LimiterInv(Limit, Window, list', redisNow, redisLog')
      BY <1>i, <2>1, <2>3, <3>1, RoomForRequest
    <3>3. Len(list') <= Limit  BY <1>t, <2>2, <3>1
    <3>4. RedisAlone!Trimmed(list') = list'  BY <2>2, <3>3, TrimmedShort
    <3>5. pc' \in [{Handler} -> Commands] /\ pc'[Handler] = "EXPIRE"
      BY <1>t, <2>1, <2>4 DEF Commands
    <3> QED  BY <1>t, <2>1, <2>2, <3>2, <3>3, <3>4, <3>5 DEF AloneInv
  <2>5. CASE pc[Handler] = "LPUSH+LTRIM"
    <3>1. Len(list) = Limit /\ redisNow - list[1] >= Window  BY <2>5 DEF AloneInv
    <3>2. LimiterInv(Limit, Window, Append(Tail(list), redisNow), redisNow, redisLog')
      BY <1>i, <2>1, <2>3, <3>1, PlaceOfAged
    <3>3. RedisAlone!Trimmed(list') = Append(Tail(list), redisNow)
      BY <1>t, <1>n, <2>1, <3>1, TrimmedPush
    <3>4. Len(list') <= Limit + 1  BY <2>2, <3>1
    <3>5. pc' \in [{Handler} -> Commands] /\ pc'[Handler] = "LTRIM"
      BY <1>t, <2>1, <2>5 DEF Commands
    <3> QED  BY <1>t, <2>1, <2>2, <3>2, <3>3, <3>4, <3>5 DEF AloneInv
  <2> QED  BY <2>1, <2>4, <2>5
<1>4. ASSUME NEW g \in {Handler}, RedisAlone!LTrim(g) PROVE AloneInv'
  <2>1. /\ list' = q /\ redisLog' = redisLog
        /\ expireAt' = expireAt /\ redisNow' = redisNow /\ redisFaults' = redisFaults
        /\ pc' = [pc EXCEPT ![Handler] = "EXPIRE"]
    BY <1>4, <1>t DEF RedisAlone!LTrim, RedisAlone!Goto, q
  <2>2. list' \in Seq(Nat) /\ Len(list') <= Limit
    BY <1>i, <2>1 DEF LimiterInv, EndsLog
  <2>3. RedisAlone!Trimmed(list') = list'  BY <2>2, TrimmedShort
  <2>4. pc' \in [{Handler} -> Commands] /\ pc'[Handler] = "EXPIRE"
    BY <1>t, <2>1 DEF Commands
  <2>5. LimiterInv(Limit, Window, RedisAlone!Trimmed(list'), redisNow', redisLog')
    BY <1>i, <2>1, <2>3
  <2> QED  BY <1>t, <2>1, <2>2, <2>4, <2>5 DEF AloneInv
<1>5. ASSUME NEW g \in {Handler}, RedisAlone!Expire(g) PROVE AloneInv'
  <2>1. /\ list' = list /\ redisLog' = redisLog /\ redisNow' = redisNow
        /\ redisFaults' = redisFaults /\ pc' = [pc EXCEPT ![Handler] = "idle"]
        /\ expireAt' = (IF list = <<>> THEN expireAt ELSE redisNow + KeyLife)
        /\ pc[Handler] # "LTRIM"
    BY <1>5, <1>t DEF RedisAlone!Expire, RedisAlone!Goto
  <2>2. pc' \in [{Handler} -> Commands] /\ pc'[Handler] = "idle"
    BY <1>t, <2>1 DEF Commands
  <2>3. q = list /\ Len(list) <= Limit  BY <1>s, <2>1
  <2>4. list # <<>> => list[Len(list)] \in Nat /\ list[Len(list)] <= redisNow
    BY <1>i, <2>3, YoungestIsPast
  <2>5. expireAt' \in Nat /\ (list # <<>> => expireAt' >= list[Len(list)] + KeyLife)
    BY <1>t, <1>n, <2>1, <2>4
  <2>6. LimiterInv(Limit, Window, RedisAlone!Trimmed(list'), redisNow', redisLog')
    BY <1>i, <2>1 DEF q
  <2> QED  BY <1>t, <2>1, <2>2, <2>3, <2>5, <2>6 DEF AloneInv
<1> QED  BY <1>1, <1>2, <1>3, <1>4, <1>5 DEF RedisAlone!Next

LEMMA AloneHolds == AloneInv => RedisAlone!WindowLimit
  BY DEF AloneInv, LimiterInv, Spaced, RedisAlone!WindowLimit

(***************************************************************************)
(* The limit of verification codes                                         *)
(***************************************************************************)

(* The codes that were sent since the counter was last at zero are the     *)
(* last ones of the history.                                               *)
Sent == IF count > Limit THEN Limit ELSE count
Before == Len(codeLog) - Sent

CodeTypeOK ==
    /\ count \in 0..(Limit + 1) /\ countExpireAt \in Nat /\ codeNow \in Nat
    /\ step \in [Handlers -> {"idle", "EXPIRE"}] /\ codeFaults \in Nat
    /\ codeLog \in Seq(Nat) /\ OrderedIn(codeNow, codeLog) /\ Sent <= Len(codeLog)

(* One request, the first of a counter, sends EXPIRE, and until then the   *)
(* counter has no time to live.  The time to live is counted from the      *)
(* first request or later.                                                 *)
CounterExpires ==
    /\ countExpireAt # 0 => /\ count > 0 /\ \A h \in Handlers : step[h] = "idle"
                            /\ countExpireAt >= codeLog[Before + 1] + Window
    /\ count = 0 => \A h \in Handlers : step[h] = "idle"
    /\ \A g, h \in Handlers : step[g] = "EXPIRE" /\ step[h] = "EXPIRE" => g = h
    /\ codeFaults = 0 /\ count > 0 =>
          countExpireAt # 0 \/ \E h \in Handlers : step[h] = "EXPIRE"

(* What came at least Limit codes before the present counter came at least *)
(* Window before it: the counter in between has lived as long.             *)
OneCounterBetween ==
    \A i \in 1..Before : i + Limit <= Before =>
        (IF count = 0 THEN codeNow ELSE codeLog[Before + 1]) - codeLog[i] >= Window

CodeInv == CodeTypeOK /\ CounterExpires /\ OneCounterBetween /\ Code!AtMostTwiceInWindow

LEMMA CodeStarts == Code!Init => CodeInv
<1> USE LimitsAssumption
<1> SUFFICES ASSUME Code!Init PROVE CodeInv
  OBVIOUS
<1>1. /\ count = 0 /\ countExpireAt = 0 /\ step = [h \in Handlers |-> "idle"]
      /\ codeNow = 1 /\ codeFaults = 0 /\ codeLog = <<>>
  BY DEF Code!Init
<1>2. codeLog \in Seq(Nat) /\ Len(codeLog) = 0 /\ Sent = 0 /\ Before = 0
  BY <1>1 DEF Sent, Before
<1>3. CodeTypeOK  BY <1>1, <1>2 DEF CodeTypeOK, OrderedIn
<1>4. CounterExpires  BY <1>1 DEF CounterExpires
<1>5. OneCounterBetween  BY <1>2 DEF OneCounterBetween
<1>6. Code!AtMostTwiceInWindow  BY <1>2 DEF Code!AtMostTwiceInWindow, Code!Spread
<1> QED  BY <1>3, <1>4, <1>5, <1>6 DEF CodeInv

LEMMA LivedOut ==
    ASSUME NEW t \in Nat, NEW x \in Nat, NEW y \in Nat, NEW e \in Nat, NEW w \in Nat,
           x <= y, e >= y + w, t >= e
    PROVE  t - x >= w
  OBVIOUS

LEMMA CodeTick == ASSUME CodeInv, Code!Tick PROVE CodeInv'
<1> USE LimitsAssumption
<1>t. /\ count \in 0..(Limit + 1) /\ countExpireAt \in Nat /\ codeNow \in Nat
      /\ step \in [Handlers -> {"idle", "EXPIRE"}] /\ codeFaults \in Nat
      /\ codeLog \in Seq(Nat) /\ OrderedIn(codeNow, codeLog) /\ Sent <= Len(codeLog)
      /\ Len(codeLog) \in Nat /\ Sent \in 0..Limit
  BY DEF CodeInv, CodeTypeOK, Sent
<1>n. \A i \in 1..Len(codeLog) : codeLog[i] \in Nat /\ codeLog[i] <= codeNow
  BY <1>t, ElementOfSeq DEF OrderedIn
<1>o. \A i, j \in 1..Len(codeLog) : i <= j => codeLog[i] <= codeLog[j]
  BY <1>t DEF OrderedIn
<1>b. Before \in 0..Len(codeLog) /\ Before = Len(codeLog) - Sent  BY <1>t DEF Before
<1>1. codeNow' = codeNow + 1 /\ step' = step /\ codeFaults' = codeFaults /\ codeLog' = codeLog
  BY DEF Code!Tick
<1>2. OrderedIn(codeNow', codeLog')  BY <1>1, <1>n, <1>o, <1>t DEF OrderedIn
<1>3. Code!AtMostTwiceInWindow'
  BY <1>1 DEF CodeInv, Code!AtMostTwiceInWindow, Code!Spread
<1>4. CASE count' = count /\ countExpireAt' = countExpireAt
  <2>1. Sent' = Sent /\ Before' = Before  BY <1>1, <1>4 DEF Sent, Before
  <2>2. CodeTypeOK'  BY <1>t, <1>1, <1>2, <1>4, <2>1 DEF CodeTypeOK
  <2>3. CounterExpires'  BY <1>1, <1>4, <2>1 DEF CodeInv, CounterExpires
  <2>4. OneCounterBetween'
    <3> SUFFICES ASSUME NEW i \in 1..Before, i + Limit <= Before
                 PROVE  (IF count = 0 THEN codeNow + 1 ELSE codeLog[Before + 1]) - codeLog[i] >= Window
      BY <1>1, <1>4, <2>1 DEF OneCounterBetween
    <3>1. (IF count = 0 THEN codeNow ELSE codeLog[Before + 1]) - codeLog[i] >= Window
      BY DEF CodeInv, OneCounterBetween
    <3>2. codeLog[i] \in Nat  BY <1>b, <1>n
    <3> QED  BY <3>1, <3>2, <1>t
  <2> QED  BY <1>3, <2>2, <2>3, <2>4 DEF CodeInv
<1>5. CASE count' = 0 /\ countExpireAt' = 0 /\ countExpireAt # 0 /\ codeNow + 1 >= countExpireAt
  <2>1. /\ count > 0 /\ \A h \in Handlers : step[h] = "idle"
        /\ countExpireAt >= codeLog[Before + 1] + Window
    BY <1>5 DEF CodeInv, CounterExpires
  <2>2. Sent \in 1..Limit  BY <2>1, <1>t DEF Sent
  <2>3. Sent' = 0 /\ Before' = Len(codeLog)  BY <1>1, <1>5, <1>t DEF Sent, Before
  <2>4. CodeTypeOK'  BY <1>t, <1>1, <1>2, <1>5, <2>3 DEF CodeTypeOK
  <2>5. CounterExpires'  BY <1>1, <1>5, <2>1 DEF CounterExpires
  <2>6. OneCounterBetween'
    <3> SUFFICES ASSUME NEW i \in 1..Len(codeLog), i + Limit <= Len(codeLog)
                 PROVE  codeNow' - codeLog[i] >= Window
      <4>1. count' = 0 /\ codeLog' = codeLog /\ Before' = Len(codeLog)  BY <1>1, <1>5, <2>3
      <4> QED  BY <4>1 DEF OneCounterBetween
    <3>1. Before + 1 \in 1..Len(codeLog) /\ i <= Before + 1  BY <1>b, <1>t, <2>2
    <3>2. codeLog[i] <= codeLog[Before + 1] /\ codeLog[i] \in Nat /\ codeLog[Before + 1] \in Nat
      BY <1>n, <1>o, <3>1
    <3>3. codeNow' \in Nat /\ codeNow' >= countExpireAt  BY <1>1, <1>5, <1>t
    <3> QED  BY <1>t, <2>1, <3>2, <3>3, LivedOut
  <2> QED  BY <1>3, <2>4, <2>5, <2>6 DEF CodeInv
<1> QED  BY <1>4, <1>5 DEF Code!Tick

LEMMA CodeExpire ==
    ASSUME CodeInv, NEW g \in Handlers, Code!Expire(g) \/ Code!ExpireLost(g) PROVE CodeInv'
<1> USE LimitsAssumption
<1>t. /\ count \in 0..(Limit + 1) /\ countExpireAt \in Nat /\ codeNow \in Nat
      /\ step \in [Handlers -> {"idle", "EXPIRE"}] /\ codeFaults \in Nat
      /\ codeLog \in Seq(Nat) /\ OrderedIn(codeNow, codeLog) /\ Sent <= Len(codeLog)
      /\ Len(codeLog) \in Nat /\ Sent \in 0..Limit
  BY DEF CodeInv, CodeTypeOK, Sent
<1>1. /\ count' = count /\ codeNow' = codeNow /\ codeLog' = codeLog
      /\ step[g] = "EXPIRE" /\ step' = [step EXCEPT ![g] = "idle"]
  BY DEF Code!Expire, Code!ExpireLost, Code!Goto
<1>2. Sent' = Sent /\ Before' = Before  BY <1>1 DEF Sent, Before
<1>3. OneCounterBetween' /\ Code!AtMostTwiceInWindow'
  BY <1>1, <1>2 DEF CodeInv, OneCounterBetween, Code!AtMostTwiceInWindow, Code!Spread
<1>4. count > 0 /\ countExpireAt = 0
  <2>1. count # 0 /\ countExpireAt = 0  BY <1>1 DEF CodeInv, CounterExpires
  <2> QED  BY <2>1, <1>t
<1>5. step' \in [Handlers -> {"idle", "EXPIRE"}] /\ \A h \in Handlers : step'[h] = "idle"
  <2>1. \A h \in Handlers : step[h] = "EXPIRE" => h = g
    BY <1>1 DEF CodeInv, CounterExpires
  <2> QED  BY <1>t, <1>1, <2>1
<1>6. CASE Code!Expire(g)
  <2>1. countExpireAt' = codeNow + Window /\ codeFaults' = codeFaults
    BY <1>4, <1>6 DEF Code!Expire
  <2>2. countExpireAt' >= codeLog[Before + 1] + Window /\ countExpireAt' \in Nat \ {0}
    <3>1. Sent \in 1..Limit  BY <1>4, <1>t DEF Sent
    <3>2. Before + 1 \in 1..Len(codeLog)  BY <1>t, <3>1 DEF Before
    <3>3. codeLog[Before + 1] <= codeNow  BY <1>t, <3>2 DEF OrderedIn
    <3>4. codeLog[Before + 1] \in Nat  BY <1>t, <3>2, ElementOfSeq
    <3> QED  BY <1>t, <2>1, <3>3, <3>4
  <2>3. CodeTypeOK'  BY <1>t, <1>1, <1>2, <1>5, <2>1, <2>2 DEF CodeTypeOK
  <2>4. CounterExpires'  BY <1>1, <1>2, <1>4, <1>5, <2>2 DEF CounterExpires
  <2> QED  BY <1>3, <2>3, <2>4 DEF CodeInv
<1>7. CASE Code!ExpireLost(g)
  <2>1. countExpireAt' = countExpireAt /\ codeFaults' = codeFaults + 1
    BY <1>7 DEF Code!ExpireLost
  <2>2. codeFaults' \in Nat \ {0}  BY <1>t, <2>1
  <2>3. CodeTypeOK'  BY <1>t, <1>1, <1>2, <1>5, <2>1, <2>2 DEF CodeTypeOK
  <2>4. CounterExpires'  BY <1>4, <1>5, <2>1, <2>2 DEF CounterExpires
  <2> QED  BY <1>3, <2>3, <2>4 DEF CodeInv
<1> QED  BY <1>6, <1>7

LEMMA CodeIncr == ASSUME CodeInv, NEW g \in Handlers, Code!Incr(g) PROVE CodeInv'
<1> USE LimitsAssumption
<1> DEFINE n == Len(codeLog)
<1>t. /\ count \in 0..(Limit + 1) /\ countExpireAt \in Nat /\ codeNow \in Nat
      /\ step \in [Handlers -> {"idle", "EXPIRE"}] /\ codeFaults \in Nat
      /\ codeLog \in Seq(Nat) /\ OrderedIn(codeNow, codeLog) /\ Sent <= n
      /\ n \in Nat /\ Sent \in 0..Limit
  BY DEF CodeInv, CodeTypeOK, Sent
<1>1. /\ step[g] = "idle" /\ countExpireAt' = countExpireAt /\ codeNow' = codeNow
      /\ codeFaults' = codeFaults
      /\ count' = (IF count > Limit THEN count ELSE count + 1)
      /\ step' = [step EXCEPT ![g] = IF count = 0 THEN "EXPIRE" ELSE "idle"]
      /\ codeLog' = (IF count + 1 <= Limit THEN Append(codeLog, codeNow) ELSE codeLog)
  BY DEF Code!Incr, Code!Goto
<1>2. /\ count' \in 1..(Limit + 1) /\ step' \in [Handlers -> {"idle", "EXPIRE"}]
      /\ \A h \in Handlers : h # g => step'[h] = step[h]
      /\ step'[g] = IF count = 0 THEN "EXPIRE" ELSE "idle"
  BY <1>1, <1>t
<1>3. CASE ~(count + 1 <= Limit)
  <2>1. codeLog' = codeLog /\ Sent' = Sent /\ Before' = Before /\ count # 0
    BY <1>1, <1>3, <1>t DEF Sent, Before
  <2>2. CodeTypeOK'  BY <1>t, <1>1, <1>2, <2>1 DEF CodeTypeOK
  <2>3. \A h \in Handlers : step'[h] = step[h]  BY <1>1, <1>2, <2>1
  <2>4. CounterExpires'
    BY <1>1, <1>2, <1>t, <2>1, <2>3 DEF CodeInv, CounterExpires
  <2>5. OneCounterBetween'
    BY <1>1, <1>2, <2>1 DEF CodeInv, OneCounterBetween
  <2>6. Code!AtMostTwiceInWindow'
    BY <2>1 DEF CodeInv, Code!AtMostTwiceInWindow, Code!Spread
  <2> QED  BY <2>2, <2>4, <2>5, <2>6 DEF CodeInv
<1>4. CASE count + 1 <= Limit
  <2> DEFINE lg2 == Append(codeLog, codeNow)
  <2>1. codeLog' = lg2 /\ count' = count + 1 /\ Sent = count /\ Sent' = count + 1
    BY <1>1, <1>4, <1>t DEF Sent
  <2>a. /\ lg2 \in Seq(Nat) /\ Len(lg2) = n + 1 /\ lg2[n + 1] = codeNow
        /\ \A i \in 1..n : lg2[i] = codeLog[i]
    BY <1>t, AppendFacts
  <2>o. OrderedIn(codeNow, lg2)  BY <1>t, HistoryGrows
  <2>n. \A i \in 1..(n + 1) : lg2[i] \in Nat  BY <2>a, ElementOfSeq
  <2> HIDE DEF lg2
  <2>b. Before' = Before /\ Before \in 0..n /\ Before = n - count
    BY <2>1, <2>a, <1>t DEF Before
  <2> HIDE DEF n
  <2>2. CodeTypeOK'
    <3>1. count + 1 <= n + 1 /\ count' \in 0..(Limit + 1)  BY <1>t, <1>2, <2>1
    <3> QED  BY <3>1, <1>t, <1>1, <1>2, <2>1, <2>a, <2>o DEF CodeTypeOK
  <2>3. CounterExpires'
    <3>1. countExpireAt # 0 => countExpireAt >= lg2[Before + 1] + Window
      <4> SUFFICES ASSUME countExpireAt # 0 PROVE countExpireAt >= lg2[Before + 1] + Window
        OBVIOUS
      <4>1. count > 0 /\ countExpireAt >= codeLog[Before + 1] + Window
        BY DEF CodeInv, CounterExpires
      <4>2. Before + 1 \in 1..n  BY <4>1, <2>b, <1>t
      <4> QED  BY <4>1, <4>2, <2>a
    <3>2. countExpireAt # 0 => \A h \in Handlers : step'[h] = "idle"
      <4>1. countExpireAt # 0 => count # 0 /\ \A h \in Handlers : step[h] = "idle"
        BY <1>t DEF CodeInv, CounterExpires
      <4> QED  BY <4>1, <1>2
    <3>3. \A f, h \in Handlers : step'[f] = "EXPIRE" /\ step'[h] = "EXPIRE" => f = h
      <4>1. CASE count = 0
        <5>1. \A h \in Handlers : step[h] = "idle"  BY <4>1 DEF CodeInv, CounterExpires
        <5> QED  BY <5>1, <1>2
      <4>2. CASE count # 0  BY <4>2, <1>2 DEF CodeInv, CounterExpires
      <4> QED  BY <4>1, <4>2
    <3>4. codeFaults = 0 => countExpireAt # 0 \/ \E h \in Handlers : step'[h] = "EXPIRE"
      <4>1. CASE count = 0  BY <4>1, <1>2
      <4>2. CASE count # 0
        <5>1. codeFaults = 0 => countExpireAt # 0 \/ \E h \in Handlers : step[h] = "EXPIRE"
          BY <4>2, <1>t DEF CodeInv, CounterExpires
        <5> QED  BY <5>1, <1>1, <1>2
      <4> QED  BY <4>1, <4>2
    <3>5. count' > 0 /\ count' # 0  BY <1>2
    <3> QED  BY <3>1, <3>2, <3>3, <3>4, <3>5, <1>1, <2>1, <2>b DEF CounterExpires
  <2>4. \A i \in 1..Before : i + Limit <= Before => lg2[Before + 1] - lg2[i] >= Window
    <3> SUFFICES ASSUME NEW i \in 1..Before, i + Limit <= Before
                 PROVE  lg2[Before + 1] - lg2[i] >= Window
      OBVIOUS
    <3>1. (IF count = 0 THEN codeNow ELSE codeLog[Before + 1]) - codeLog[i] >= Window
      BY DEF CodeInv, OneCounterBetween
    <3>2. i \in 1..n  BY <2>b, <1>t
    <3>3. CASE count = 0
      <4>1. Before + 1 = n + 1  BY <3>3, <2>b, <1>t
      <4> QED  BY <3>1, <3>2, <3>3, <4>1, <2>a
    <3>4. CASE count # 0
      <4>1. Before + 1 \in 1..n  BY <3>4, <2>b, <1>t
      <4> QED  BY <3>1, <3>2, <3>4, <4>1, <2>a
    <3> QED  BY <3>3, <3>4
  <2>5. OneCounterBetween'
    <3>1. count' # 0  BY <1>2
    <3> QED  BY <2>1, <2>4, <2>b, <3>1 DEF OneCounterBetween
  <2>6. Code!AtMostTwiceInWindow'
    <3> SUFFICES ASSUME NEW i \in 1..(n + 1), i + 2 * Limit <= n + 1
                 PROVE  lg2[i + 2 * Limit] - lg2[i] >= Window
      BY <2>1, <2>a DEF Code!AtMostTwiceInWindow, Code!Spread
    <3>1. CASE i + 2 * Limit <= n
      <4>1. i \in 1..n /\ i + 2 * Limit \in 1..n  BY <3>1, <1>t
      <4>2. codeLog[i + 2 * Limit] - codeLog[i] >= Window
        BY <3>1, <4>1 DEF CodeInv, Code!AtMostTwiceInWindow, Code!Spread, n
      <4> QED  BY <4>1, <4>2, <2>a
    <3>2. CASE i + 2 * Limit = n + 1
      <4>1. /\ i \in 1..Before /\ i + Limit <= Before /\ i \in 1..(n + 1)
            /\ Before + 1 \in 1..(n + 1) /\ Before + 1 <= n + 1
        BY <3>2, <1>t, <1>4, <2>b
      <4>2. lg2[Before + 1] - lg2[i] >= Window  BY <2>4, <4>1
      <4>3. lg2[Before + 1] <= codeNow  BY <2>o, <2>a, <4>1 DEF OrderedIn
      <4>4. lg2[i + 2 * Limit] = codeNow  BY <3>2, <2>a
      <4>5. lg2[Before + 1] \in Nat /\ lg2[i] \in Nat  BY <2>n, <4>1
      <4> QED  BY <4>2, <4>3, <4>4, <4>5, <1>t
    <3>3. i + 2 * Limit \in Nat  BY <1>t
    <3> QED  BY <3>1, <3>2, <3>3, <1>t
  <2> QED  BY <2>2, <2>3, <2>5, <2>6 DEF CodeInv
<1> QED  BY <1>3, <1>4

LEMMA CodeStep == ASSUME CodeInv, Code!Next PROVE CodeInv'
  BY CodeTick, CodeExpire, CodeIncr DEF Code!Next

LEMMA CodeHolds ==
    CodeInv => Code!AtMostTwiceInWindow /\ (codeFaults = 0 => Code!RefusalHasAnEnd)
<1> USE LimitsAssumption
<1> SUFFICES ASSUME CodeInv PROVE codeFaults = 0 => Code!RefusalHasAnEnd
  BY DEF CodeInv
<1>1. count \in 0..(Limit + 1)  BY DEF CodeInv, CodeTypeOK
<1>2. count >= Limit => count > 0  BY <1>1
<1> QED  BY <1>2 DEF CodeInv, CounterExpires, Code!RefusalHasAnEnd

(***************************************************************************)
(* The limits of the models.  A key is a list q of at most lim times that  *)
(* remembers the times f of a set S of requests, at the time t.  For the   *)
(* limit it is enough to count: from the i-th entry on there are not more  *)
(* younger requests than entries, and a list that is not full holds all    *)
(* requests of the window.                                                 *)
(***************************************************************************)

LEMMA CardMono ==
    ASSUME NEW S, IsFiniteSet(S), NEW T, T \subseteq S
    PROVE  /\ IsFiniteSet(T) /\ Cardinality(T) \in Nat /\ Cardinality(S) \in Nat
           /\ Cardinality(T) <= Cardinality(S)
  BY FS_Subset, FS_CardinalityType

LEMMA CardOneMore ==
    ASSUME NEW S, IsFiniteSet(S), NEW T, NEW r, T \subseteq S \cup {r}
    PROVE  /\ IsFiniteSet(T) /\ Cardinality(T) \in Nat /\ Cardinality(S) \in Nat
           /\ Cardinality(T) <= Cardinality(S) + 1
<1>1. IsFiniteSet(S \cup {r}) /\ Cardinality(S) \in Nat
      /\ (Cardinality(S \cup {r}) = Cardinality(S) \/ Cardinality(S \cup {r}) = Cardinality(S) + 1)
  <2>1. CASE r \in S
    <3>1. S \cup {r} = S  BY <2>1
    <3> QED  BY <3>1, FS_CardinalityType
  <2>2. CASE r \notin S
    BY <2>2, FS_AddElement, FS_CardinalityType
  <2> QED  BY <2>1, <2>2
<1>2. IsFiniteSet(T) /\ Cardinality(T) \in Nat /\ Cardinality(T) <= Cardinality(S \cup {r})
  BY <1>1, CardMono
<1> QED  BY <1>1, <1>2

Younger(S, f, x) == {r \in S : f[r] > x}
Within(S, f, a, b) == {r \in S : a <= f[r] /\ f[r] < b}

Times(S, f, t) ==
    /\ S \subseteq Requests /\ f \in [Requests -> Nat] /\ t \in Nat
    /\ \A r \in S : f[r] <= t

KeyInv(lim, dur, q, t, S, f) ==
    /\ Times(S, f, t) /\ q \in Seq(Nat) /\ Len(q) <= lim
    /\ \A i \in 1..Len(q) : Cardinality(Younger(S, f, q[i])) <= Len(q) - i
    /\ Len(q) < lim => Cardinality(Younger(S, f, t - dur)) <= Len(q)

WindowHolds(lim, dur, S, f) ==
    \A a \in Nat : Cardinality(Within(S, f, a, a + dur)) <= lim

(* The request r is added at the time t.                                   *)
Adds(S, f, t, r, S2, f2) ==
    /\ r \in Requests /\ S2 = S \cup {r} /\ f2 \in [Requests -> Nat] /\ f2[r] = t
    /\ \A s \in S \ {r} : f2[s] = f[s]

LEMMA YoungerIsFinite ==
    ASSUME NEW S, S \subseteq Requests, NEW f, NEW x
    PROVE  IsFiniteSet(Younger(S, f, x)) /\ Cardinality(Younger(S, f, x)) \in Nat
<1>1. Younger(S, f, x) \subseteq Requests  BY DEF Younger
<1> QED  BY <1>1, LimitsAssumption, CardMono

LEMMA YoungerAdds ==
    ASSUME NEW S, NEW f, NEW t, NEW r, NEW S2, NEW f2, NEW x,
           S \subseteq Requests, Adds(S, f, t, r, S2, f2)
    PROVE  /\ Cardinality(Younger(S2, f2, x)) <= Cardinality(Younger(S, f, x)) + 1
           /\ Cardinality(Younger(S2, f2, x)) \in Nat /\ Cardinality(Younger(S, f, x)) \in Nat
<1>1. Younger(S2, f2, x) \subseteq Younger(S, f, x) \cup {r}  BY DEF Younger, Adds
<1>2. IsFiniteSet(Younger(S, f, x))  BY YoungerIsFinite
<1> QED  BY <1>1, <1>2, CardOneMore

LEMMA YoungerShrinks ==
    ASSUME NEW S, NEW f, NEW x \in Int, NEW y \in Int, NEW t, x <= y, Times(S, f, t)
    PROVE  Cardinality(Younger(S, f, y)) <= Cardinality(Younger(S, f, x))
<1>1. Younger(S, f, y) \subseteq Younger(S, f, x)
  <2>1. \A r \in S : f[r] \in Nat  BY DEF Times
  <2> QED  BY <2>1 DEF Younger
<1>2. IsFiniteSet(Younger(S, f, x))  BY YoungerIsFinite DEF Times
<1> QED  BY <1>1, <1>2, CardMono

LEMMA NoneYounger ==
    ASSUME NEW S, NEW f, NEW t, NEW x \in Int, Times(S, f, t), \A r \in S : f[r] <= x
    PROVE  Cardinality(Younger(S, f, x)) = 0
<1>1. \A r \in S : f[r] \in Nat  BY DEF Times
<1>2. Younger(S, f, x) = {}  BY <1>1 DEF Younger
<1> QED  BY <1>2, FS_EmptySet

LEMMA AddsTimes ==
    ASSUME NEW S, NEW f, NEW t, NEW r, NEW S2, NEW f2,
           Times(S, f, t), Adds(S, f, t, r, S2, f2)
    PROVE  Times(S2, f2, t)
<1>1. S2 \subseteq Requests /\ f2 \in [Requests -> Nat] /\ t \in Nat  BY DEF Times, Adds
<1>2. \A s \in S2 : f2[s] <= t  BY DEF Times, Adds
<1> QED  BY <1>1, <1>2 DEF Times

LEMMA KeyStarts ==
    ASSUME NEW lim \in Nat \ {0}, NEW dur \in Nat, NEW t \in Nat, NEW f \in [Requests -> Nat]
    PROVE  KeyInv(lim, dur, <<>>, t, {}, f)
<1>1. Times({}, f, t)  BY DEF Times
<1>2. t - dur \in Int  OBVIOUS
<1>3. Cardinality(Younger({}, f, t - dur)) = 0  BY <1>1, <1>2, NoneYounger
<1> QED  BY <1>1, <1>3 DEF KeyInv

(* A request is remembered, for which there is room.                       *)
LEMMA KeyPush ==
    ASSUME NEW lim \in Nat \ {0}, NEW dur \in Nat, NEW q, NEW t, NEW S, NEW f,
           NEW r, NEW S2, NEW f2,
           KeyInv(lim, dur, q, t, S, f), Adds(S, f, t, r, S2, f2), Len(q) < lim
    PROVE  KeyInv(lim, dur, Append(q, t), t, S2, f2)
<1> DEFINE q2 == Append(q, t)
           m == Len(q)
<1>t. q \in Seq(Nat) /\ t \in Nat /\ m \in Nat /\ Times(S, f, t)  BY DEF KeyInv, Times
<1>u. Times(S2, f2, t)  BY <1>t, AddsTimes
<1>q. /\ q2 \in Seq(Nat) /\ Len(q2) = m + 1 /\ q2[m + 1] = t
      /\ \A i \in 1..m : q2[i] = q[i]
  BY <1>t, AppendFacts
<1>y. \A x : /\ Cardinality(Younger(S2, f2, x)) <= Cardinality(Younger(S, f, x)) + 1
             /\ Cardinality(Younger(S2, f2, x)) \in Nat /\ Cardinality(Younger(S, f, x)) \in Nat
  BY <1>t, YoungerAdds DEF Times
<1>k. /\ \A i \in 1..m : Cardinality(Younger(S, f, q[i])) <= m - i
      /\ Cardinality(Younger(S, f, t - dur)) <= m
  BY DEF KeyInv
<1>l. m + 1 <= lim  BY <1>t
<1> HIDE DEF q2, m
<1>1. ASSUME NEW i \in 1..(m + 1) PROVE Cardinality(Younger(S2, f2, q2[i])) <= m + 1 - i
  <2>1. CASE i = m + 1
    <3>1. Cardinality(Younger(S2, f2, t)) = 0
      <4>1. t \in Int /\ \A s \in S2 : f2[s] <= t  BY <1>t, <1>u DEF Times
      <4> QED  BY <1>u, <4>1, NoneYounger
    <3> QED  BY <1>t, <1>q, <2>1, <3>1
  <2>2. CASE i \in 1..m
    <3>1. q2[i] = q[i] /\ Cardinality(Younger(S, f, q[i])) <= m - i  BY <2>2, <1>q, <1>k
    <3> DEFINE a == Cardinality(Younger(S2, f2, q[i]))
               b == Cardinality(Younger(S, f, q[i]))
    <3>2. a <= b + 1 /\ a \in Nat /\ b \in Nat /\ b <= m - i  BY <1>y, <3>1
    <3> HIDE DEF a, b
    <3>3. a <= m + 1 - i  BY <1>t, <3>2
    <3> QED  BY <3>1, <3>3 DEF a
  <2> QED  BY <1>t, <2>1, <2>2
<1>2. Cardinality(Younger(S2, f2, t - dur)) <= m + 1
  <2> DEFINE a == Cardinality(Younger(S2, f2, t - dur))
             b == Cardinality(Younger(S, f, t - dur))
  <2>1. a <= b + 1 /\ a \in Nat /\ b \in Nat /\ b <= m  BY <1>y, <1>k
  <2> HIDE DEF a, b
  <2>2. a <= m + 1  BY <1>t, <2>1
  <2> QED  BY <2>2 DEF a
<1>3. KeyInv(lim, dur, q2, t, S2, f2)
  <2>1. \A i \in 1..Len(q2) : Cardinality(Younger(S2, f2, q2[i])) <= Len(q2) - i
    <3>1. Len(q2) = m + 1  BY <1>q
    <3> QED  BY <3>1, <1>1, <1>t
  <2>2. Cardinality(Younger(S2, f2, t - dur)) <= Len(q2) /\ Len(q2) <= lim
    BY <1>q, <1>l, <1>2
  <2> QED  BY <1>u, <1>q, <2>1, <2>2 DEF KeyInv
<1> QED  BY <1>3 DEF q2

(* A request is remembered, and the oldest of a full list forgotten.       *)
LEMMA KeyShift ==
    ASSUME NEW lim \in Nat \ {0}, NEW dur \in Nat, NEW q, NEW t, NEW S, NEW f,
           NEW r, NEW S2, NEW f2,
           KeyInv(lim, dur, q, t, S, f), Adds(S, f, t, r, S2, f2), Len(q) = lim
    PROVE  KeyInv(lim, dur, Append(Tail(q), t), t, S2, f2)
<1> DEFINE q2 == Append(Tail(q), t)
           m == Len(q)
<1>t. q \in Seq(Nat) /\ t \in Nat /\ m \in Nat \ {0} /\ Times(S, f, t)  BY DEF KeyInv, Times
<1>u. Times(S2, f2, t)  BY <1>t, AddsTimes
<1>bt. /\ Tail(q) \in Seq(Nat) /\ Len(Tail(q)) = m - 1
       /\ \A i \in 1..(m - 1) : Tail(q)[i] = q[i + 1]
  BY <1>t
<1>q. /\ q2 \in Seq(Nat) /\ Len(q2) = m /\ q2[m] = t
      /\ \A i \in 1..(m - 1) : q2[i] = q[i + 1]
  <2>1. /\ q2 \in Seq(Nat) /\ Len(q2) = (m - 1) + 1
        /\ q2[(m - 1) + 1] = t
        /\ \A i \in 1..(m - 1) : q2[i] = Tail(q)[i]
    BY <1>bt, <1>t, AppendFacts
  <2>2. (m - 1) + 1 = m  BY <1>t
  <2> QED  BY <2>1, <2>2, <1>bt
<1>y. \A x : /\ Cardinality(Younger(S2, f2, x)) <= Cardinality(Younger(S, f, x)) + 1
             /\ Cardinality(Younger(S2, f2, x)) \in Nat /\ Cardinality(Younger(S, f, x)) \in Nat
  BY <1>t, YoungerAdds DEF Times
<1>k. \A i \in 1..m : Cardinality(Younger(S, f, q[i])) <= m - i
  BY DEF KeyInv
<1>l. m = lim  OBVIOUS
<1> HIDE DEF q2, m
<1>1. ASSUME NEW i \in 1..m PROVE Cardinality(Younger(S2, f2, q2[i])) <= m - i
  <2>1. CASE i = m
    <3>1. Cardinality(Younger(S2, f2, t)) = 0
      <4>1. t \in Int /\ \A s \in S2 : f2[s] <= t  BY <1>t, <1>u DEF Times
      <4> QED  BY <1>u, <4>1, NoneYounger
    <3> QED  BY <1>t, <1>q, <2>1, <3>1
  <2>2. CASE i \in 1..(m - 1)
    <3> DEFINE j == i + 1
    <3>0. j \in 1..m /\ q2[i] = q[j]  BY <1>t, <1>q, <2>2
    <3>1. Cardinality(Younger(S, f, q[j])) <= m - j  BY <3>0, <1>k
    <3> DEFINE a == Cardinality(Younger(S2, f2, q[j]))
               b == Cardinality(Younger(S, f, q[j]))
    <3>2. a <= b + 1 /\ a \in Nat /\ b \in Nat /\ b <= m - j  BY <1>y, <3>1
    <3> HIDE DEF a, b
    <3>3. a <= m - i  BY <1>t, <3>2
    <3> QED  BY <3>0, <3>3 DEF a
  <2> QED  BY <1>t, <2>1, <2>2
<1>3. KeyInv(lim, dur, q2, t, S2, f2)
  BY <1>t, <1>u, <1>q, <1>l, <1>1 DEF KeyInv
<1> QED  BY <1>3 DEF q2

LEMMA KeyTime ==
    ASSUME NEW lim \in Nat \ {0}, NEW dur \in Nat, NEW q, NEW t, NEW S, NEW f,
           KeyInv(lim, dur, q, t, S, f), NEW t2 \in Nat, t <= t2
    PROVE  KeyInv(lim, dur, q, t2, S, f)
<1>t. q \in Seq(Nat) /\ t \in Nat /\ Len(q) \in Nat /\ Times(S, f, t)  BY DEF KeyInv, Times
<1>1. Times(S, f, t2)
  <2>1. \A r \in S : f[r] \in Nat /\ f[r] <= t  BY <1>t DEF Times
  <2> QED  BY <1>t, <2>1 DEF Times
<1>2. ASSUME Len(q) < lim PROVE Cardinality(Younger(S, f, t2 - dur)) <= Len(q)
  <2>1. t - dur \in Int /\ t2 - dur \in Int /\ t - dur <= t2 - dur  BY <1>t
  <2> DEFINE x == t - dur
             y == t2 - dur
             a == Cardinality(Younger(S, f, x))
             b == Cardinality(Younger(S, f, y))
  <2>2. a <= Len(q)  BY <1>2 DEF KeyInv
  <2>3. a \in Nat /\ b \in Nat  BY <1>t, YoungerIsFinite DEF Times
  <2> HIDE DEF x, y
  <2>4. b <= a  BY <1>t, <2>1, YoungerShrinks DEF x, y
  <2> HIDE DEF a, b
  <2>5. b <= Len(q)  BY <1>t, <2>2, <2>3, <2>4
  <2> QED  BY <2>5 DEF b, y
<1> QED  BY <1>t, <1>1, <1>2 DEF KeyInv

(* A list is forgotten when all requests have left the window.             *)
LEMMA KeyForgets ==
    ASSUME NEW lim \in Nat \ {0}, NEW dur \in Nat, NEW t, NEW S, NEW f,
           Times(S, f, t), \A r \in S : t - f[r] >= dur
    PROVE  KeyInv(lim, dur, <<>>, t, S, f)
<1>1. t - dur \in Int /\ \A r \in S : f[r] <= t - dur
  BY DEF Times
<1>2. Cardinality(Younger(S, f, t - dur)) = 0  BY <1>1, NoneYounger
<1> QED  BY <1>2 DEF KeyInv

LEMMA KeyIdle ==
    ASSUME NEW lim \in Nat \ {0}, NEW dur \in Nat, NEW q, NEW t, NEW S, NEW f,
           KeyInv(lim, dur, q, t, S, f), q # <<>>, t - q[Len(q)] >= dur
    PROVE  KeyInv(lim, dur, <<>>, t, S, f)
<1>t. q \in Seq(Nat) /\ Len(q) \in Nat \ {0} /\ t \in Nat /\ Times(S, f, t)
  BY DEF KeyInv, Times
<1>1. q[Len(q)] \in Nat  BY <1>t, ElementOfSeq
<1>2. Cardinality(Younger(S, f, q[Len(q)])) <= Len(q) - Len(q)  BY <1>t DEF KeyInv
<1>3. Younger(S, f, q[Len(q)]) = {}
  <2>1. IsFiniteSet(Younger(S, f, q[Len(q)])) /\ Cardinality(Younger(S, f, q[Len(q)])) \in Nat
    BY <1>t, YoungerIsFinite DEF Times
  <2>2. Cardinality(Younger(S, f, q[Len(q)])) = 0  BY <1>t, <1>2, <2>1
  <2> QED  BY <2>1, <2>2, FS_EmptySet
<1>4. ASSUME NEW r \in S PROVE t - f[r] >= dur
  <2>1. f[r] \in Nat /\ ~(f[r] > q[Len(q)])  BY <1>t, <1>3 DEF Younger, Times
  <2> QED  BY <1>t, <1>1, <2>1
<1> QED  BY <1>t, <1>4, KeyForgets

(* The list has room, or its oldest has left the window: fewer than lim    *)
(* requests are in it.                                                     *)
LEMMA KeyAdmits ==
    ASSUME NEW lim \in Nat \ {0}, NEW dur \in Nat, NEW q, NEW t, NEW S, NEW f,
           KeyInv(lim, dur, q, t, S, f),
           Len(q) < lim \/ t - q[1] >= dur
    PROVE  Cardinality(Younger(S, f, t - dur)) < lim
<1> DEFINE a == Cardinality(Younger(S, f, t - dur))
<1>t. q \in Seq(Nat) /\ Len(q) \in Nat /\ Len(q) <= lim /\ t \in Nat /\ Times(S, f, t)
  BY DEF KeyInv, Times
<1>a. a \in Nat  BY <1>t, YoungerIsFinite DEF Times
<1>1. CASE Len(q) < lim
  <2>1. a <= Len(q)  BY <1>1 DEF KeyInv
  <2> HIDE DEF a
  <2>2. a < lim  BY <1>1, <1>t, <1>a, <2>1
  <2> QED  BY <2>2 DEF a
<1>2. CASE Len(q) = lim /\ t - q[1] >= dur
  <2>1. q[1] \in Nat /\ 1 \in 1..Len(q)  BY <1>2, <1>t, ElementOfSeq
  <2>2. q[1] \in Int /\ t - dur \in Int /\ q[1] <= t - dur  BY <1>2, <1>t, <2>1
  <2> DEFINE b == Cardinality(Younger(S, f, q[1]))
  <2>3. a <= b  BY <1>t, <2>2, YoungerShrinks
  <2>4. b <= lim - 1  BY <1>2, <2>1 DEF KeyInv
  <2>5. b \in Nat  BY <1>t, YoungerIsFinite DEF Times
  <2> HIDE DEF a, b
  <2>6. a < lim  BY <1>a, <2>3, <2>4, <2>5
  <2> QED  BY <2>6 DEF a
<1> QED  BY <1>1, <1>2, <1>t

(* A request joins fewer than lim of the window before it.                 *)
LEMMA WindowGrows ==
    ASSUME NEW lim \in Nat \ {0}, NEW dur \in Nat, NEW t, NEW S, NEW f,
           NEW r, NEW S2, NEW f2,
           Times(S, f, t), Adds(S, f, t, r, S2, f2), WindowHolds(lim, dur, S, f),
           Cardinality(Younger(S, f, t - dur)) < lim
    PROVE  WindowHolds(lim, dur, S2, f2)
<1> SUFFICES ASSUME NEW a \in Nat PROVE Cardinality(Within(S2, f2, a, a + dur)) <= lim
  BY DEF WindowHolds
<1> DEFINE N == Within(S2, f2, a, a + dur)
           O == Within(S, f, a, a + dur)
<1>t. t \in Nat /\ \A s \in S : f[s] \in Nat /\ f[s] <= t  BY DEF Times
<1>f. IsFiniteSet(O) /\ Cardinality(O) <= lim
  <2>1. O \subseteq Requests  BY DEF Times, Within
  <2> QED  BY <2>1, LimitsAssumption, CardMono DEF WindowHolds
<1>1. CASE r \in N
  <2>1. t < a + dur  BY <1>1 DEF Within, Adds
  <2>2. N \subseteq Younger(S, f, t - dur) \cup {r}
    <3> SUFFICES ASSUME NEW s \in N, s # r PROVE s \in Younger(S, f, t - dur)
      OBVIOUS
    <3>1. s \in S /\ f2[s] = f[s] /\ a <= f[s]  BY DEF Within, Adds
    <3>2. f[s] > t - dur  BY <1>t, <2>1, <3>1
    <3> QED  BY <3>1, <3>2 DEF Younger
  <2> HIDE DEF N
  <2> DEFINE y == Cardinality(Younger(S, f, t - dur))
  <2>3. IsFiniteSet(Younger(S, f, t - dur))  BY YoungerIsFinite DEF Times
  <2>4. Cardinality(N) <= y + 1 /\ Cardinality(N) \in Nat /\ y \in Nat
    BY <2>2, <2>3, CardOneMore
  <2>5. y < lim  OBVIOUS
  <2> HIDE DEF y
  <2>6. Cardinality(N) <= lim  BY <2>4, <2>5
  <2> QED  BY <2>6 DEF N
<1>2. CASE r \notin N
  <2>1. N \subseteq O  BY <1>2 DEF Within, Adds
  <2> HIDE DEF N, O
  <2>2. Cardinality(N) <= Cardinality(O) /\ Cardinality(N) \in Nat /\ Cardinality(O) \in Nat
    BY <2>1, <1>f, CardMono
  <2>3. Cardinality(N) <= lim  BY <1>f, <2>2
  <2> QED  BY <2>3 DEF N
<1> QED  BY <1>1, <1>2

LEMMA WindowShrinks ==
    ASSUME NEW lim \in Nat, NEW dur \in Nat, NEW S, NEW f, NEW S2, NEW f2,
           S \subseteq Requests, S2 \subseteq S, \A r \in S2 : f2[r] = f[r],
           WindowHolds(lim, dur, S, f)
    PROVE  WindowHolds(lim, dur, S2, f2)
<1> SUFFICES ASSUME NEW a \in Nat PROVE Cardinality(Within(S2, f2, a, a + dur)) <= lim
  BY DEF WindowHolds
<1> DEFINE N == Within(S2, f2, a, a + dur)
           O == Within(S, f, a, a + dur)
<1>1. N \subseteq O /\ O \subseteq Requests  BY DEF Within
<1>2. Cardinality(O) <= lim  BY DEF WindowHolds
<1> HIDE DEF N, O
<1>3. IsFiniteSet(O)  BY <1>1, LimitsAssumption, CardMono
<1>4. Cardinality(N) <= Cardinality(O) /\ Cardinality(N) \in Nat /\ Cardinality(O) \in Nat
  BY <1>1, <1>3, CardMono
<1>5. Cardinality(N) <= lim  BY <1>2, <1>4
<1> QED  BY <1>5 DEF N

LEMMA EarliestOf ==
    ASSUME NEW W, W # {}, NEW f, \A r \in W : f[r] \in Nat
    PROVE  \E p \in W : \A r \in W : f[p] <= f[r]
<1> DEFINE T == {f[r] : r \in W}
<1>1. T \subseteq Nat /\ T # {}  OBVIOUS
<1>2. IsWellFoundedOn(OpToRel(<, Nat), Nat)  BY NatLessThanWellFounded
<1>3. \E x \in T : \A y \in T : ~(<<y, x>> \in OpToRel(<, Nat))
  BY <1>1, <1>2, WFMin
<1>4. PICK x \in T : \A y \in T : ~(<<y, x>> \in OpToRel(<, Nat))  BY <1>3
<1>5. \A y \in T : x <= y
  <2> SUFFICES ASSUME NEW y \in T PROVE x <= y  OBVIOUS
  <2>1. ~(y < x)  BY <1>1, <1>4 DEF OpToRel
  <2> QED  BY <1>1, <2>1
<1>6. PICK p \in W : f[p] = x  BY <1>4
<1> QED  BY <1>5, <1>6

(* Of more requests than a window holds, two are further apart.            *)
LEMMA WindowSpreads ==
    ASSUME NEW lim \in Nat, NEW dur \in Nat, NEW S, NEW f, NEW k \in Nat,
           S \subseteq Requests, f \in [Requests -> Nat], k > lim,
           WindowHolds(lim, dur, S, f), NEW W, W \subseteq S, Cardinality(W) = k
    PROVE  \E p, q \in W : f[q] - f[p] >= dur
<1>w. W \subseteq S /\ Cardinality(W) = k  OBVIOUS
<1>n. \A r \in W : f[r] \in Nat  BY <1>w
<1>e. W # {}
  <2>1. Cardinality({}) = 0  BY FS_EmptySet
  <2>2. k # 0  OBVIOUS
  <2> QED  BY <1>w, <2>1, <2>2
<1>1. PICK p \in W : \A r \in W : f[p] <= f[r]  BY <1>n, <1>e, EarliestOf
<1> SUFFICES ASSUME \A q \in W : ~(f[q] - f[p] >= dur) PROVE FALSE
  OBVIOUS
<1>a. f[p] \in Nat  BY <1>n
<1> DEFINE a == f[p]
           O == Within(S, f, a, a + dur)
<1>2. W \subseteq O
  <2> SUFFICES ASSUME NEW q \in W PROVE q \in O
    OBVIOUS
  <2>1. f[q] \in Nat /\ f[p] <= f[q] /\ ~(f[q] - f[p] >= dur) /\ q \in S  BY <1>1, <1>n, <1>w
  <2>2. f[q] < f[p] + dur  BY <1>a, <2>1
  <2> QED  BY <2>1, <2>2 DEF Within
<1>3. O \subseteq Requests  BY DEF Within
<1>4. Cardinality(O) <= lim  BY <1>a DEF WindowHolds
<1> HIDE DEF O
<1>5. IsFiniteSet(O)  BY <1>3, LimitsAssumption, CardMono
<1>6. Cardinality(W) <= Cardinality(O) /\ Cardinality(O) \in Nat  BY <1>2, <1>5, CardMono
<1> QED  BY <1>w, <1>4, <1>6

(* The limiter's Request: the key remembers it and the window holds.       *)
LEMMA KeyRequest ==
    ASSUME NEW lim \in Nat \ {0}, NEW dur \in Nat, NEW q, NEW t, NEW S, NEW f,
           NEW r, NEW S2, NEW f2, NEW q2,
           KeyInv(lim, dur, q, t, S, f), WindowHolds(lim, dur, S, f),
           Adds(S, f, t, r, S2, f2),
           \/ (q = <<>> \/ Len(q) < lim) /\ q2 = Append(q, t)
           \/ ~(q = <<>> \/ Len(q) < lim) /\ t - q[1] >= dur /\ q2 = Append(Tail(q), t)
    PROVE  KeyInv(lim, dur, q2, t, S2, f2) /\ WindowHolds(lim, dur, S2, f2)
<1>t. q \in Seq(Nat) /\ Len(q) \in Nat /\ Len(q) <= lim /\ Times(S, f, t)  BY DEF KeyInv
<1>1. CASE (q = <<>> \/ Len(q) < lim) /\ q2 = Append(q, t)
  <2>1. Len(q) < lim  BY <1>1, <1>t
  <2>2. KeyInv(lim, dur, Append(q, t), t, S2, f2)  BY <2>1, KeyPush
  <2>3. Cardinality(Younger(S, f, t - dur)) < lim  BY <2>1, KeyAdmits
  <2> QED  BY <1>1, <1>t, <2>2, <2>3, WindowGrows
<1>2. CASE ~(q = <<>> \/ Len(q) < lim) /\ t - q[1] >= dur /\ q2 = Append(Tail(q), t)
  <2>1. Len(q) = lim  BY <1>2, <1>t
  <2>2. KeyInv(lim, dur, Append(Tail(q), t), t, S2, f2)  BY <2>1, KeyShift
  <2>3. Cardinality(Younger(S, f, t - dur)) < lim  BY <1>2, KeyAdmits
  <2> QED  BY <1>2, <1>t, <2>2, <2>3, WindowGrows
<1> QED  BY <1>1, <1>2

(***************************************************************************)
(* The requests for models and what a step does to one of them.            *)
(***************************************************************************)

Stages == {"new", "checked", "serving", "success", "failure", "overSuccess", "overTotal"}

StatusOK ==
    /\ clock \in Nat \ {0}
    /\ status \in [Requests -> [stage : Stages, counted : Nat, start : Nat, end : Nat]]

(* The request r gets this stage and these times.                          *)
Becomes(r, s, c, b, e) ==
    /\ StatusOK'
    /\ status'[r].stage = s /\ status'[r].counted = c
    /\ status'[r].start = b /\ status'[r].end = e
    /\ \A u \in Requests : u # r => status'[u] = status[u]

LEMMA Moved ==
    ASSUME StatusOK, NEW r \in Requests, NEW s \in Stages, UNCHANGED clock,
           status' = [status EXCEPT ![r].stage = s]
    PROVE  Becomes(r, s, status[r].counted, status[r].start, status[r].end)
  BY DEF StatusOK, Becomes

LEMMA GetsIn ==
    ASSUME StatusOK, NEW r \in Requests, UNCHANGED clock,
           status' = [status EXCEPT ![r].stage = "serving", ![r].start = clock,
                                    ![r].counted = IF @ = 0 THEN clock ELSE @]
    PROVE  Becomes(r, "serving", IF status[r].counted = 0 THEN clock ELSE status[r].counted,
                   clock, status[r].end)
<1> DEFINE c == IF status[r].counted = 0 THEN clock ELSE status[r].counted
<1>1. status[r] \in [stage : Stages, counted : Nat, start : Nat, end : Nat]  BY DEF StatusOK
<1>2. c \in Nat  BY <1>1 DEF StatusOK
<1>3. "serving" \in Stages  BY DEF Stages
<1> DEFINE x == [stage |-> "serving", counted |-> c, start |-> clock, end |-> status[r].end]
<1>4. x \in [stage : Stages, counted : Nat, start : Nat, end : Nat]
  BY <1>1, <1>2, <1>3 DEF StatusOK
<1>5. status'[r] = x
  BY <1>1 DEF StatusOK
<1>6. /\ \A u \in Requests : u # r => status'[u] = status[u]
      /\ DOMAIN status' = Requests /\ status' = [u \in Requests |-> status'[u]]
  BY DEF StatusOK
<1>7. x.stage = "serving" /\ x.counted = c /\ x.start = clock /\ x.end = status[r].end
  OBVIOUS
<1> HIDE DEF c, x
<1>8. status' \in [Requests -> [stage : Stages, counted : Nat, start : Nat, end : Nat]]
  BY <1>4, <1>5, <1>6 DEF StatusOK
<1>9. Becomes(r, "serving", c, clock, status[r].end)
  BY <1>5, <1>6, <1>7, <1>8 DEF StatusOK, Becomes
<1> QED  BY <1>9 DEF c

LEMMA GetsCounted ==
    ASSUME StatusOK, NEW r \in Requests, NEW s \in Stages, UNCHANGED clock,
           status' = [status EXCEPT ![r].stage = s, ![r].counted = clock]
    PROVE  Becomes(r, s, clock, status[r].start, status[r].end)
  BY DEF StatusOK, Becomes

LEMMA Finished ==
    ASSUME StatusOK, NEW r \in Requests, NEW s \in Stages, UNCHANGED clock,
           status' = [status EXCEPT ![r].stage = s, ![r].end = clock]
    PROVE  Becomes(r, s, status[r].counted, status[r].start, clock)
  BY DEF StatusOK, Becomes

CountedAt == [r \in Requests |-> status[r].counted]
StartedAt == [r \in Requests |-> status[r].start]
EndedAt == [r \in Requests |-> status[r].end]

CountedOnes == {r \in Requests : status[r].counted # 0}
StartedOnes == {r \in Requests : status[r].start # 0}
Successful == {r \in Requests : status[r].stage = "success"}
Served == {r \in Requests : status[r].stage \in {"serving", "success"}}

LEMMA TimesAreNat ==
    ASSUME StatusOK
    PROVE  /\ CountedAt \in [Requests -> Nat] /\ StartedAt \in [Requests -> Nat]
           /\ EndedAt \in [Requests -> Nat]
           /\ \A r \in Requests : /\ CountedAt[r] = status[r].counted
                                  /\ StartedAt[r] = status[r].start
                                  /\ EndedAt[r] = status[r].end
  BY DEF StatusOK, CountedAt, StartedAt, EndedAt

(***************************************************************************)
(* Without Redis                                                           *)
(***************************************************************************)

MemoryInv ==
    /\ StatusOK
    /\ \A r \in Requests :
          /\ status[r].stage = "new" => status[r].counted = 0
          /\ status[r].stage = "checked" => status[r].counted # 0
          /\ status[r].stage \in {"new", "checked"} => status[r].start = 0
          /\ status[r].stage = "success" \/ status[r].stage = "serving" => status[r].start # 0
    /\ KeyInv(TotalLimit, Window, totalQueue, clock, CountedOnes, CountedAt)
    /\ WindowHolds(TotalLimit, Window, CountedOnes, CountedAt)
    /\ KeyInv(Limit, Window, checkQueue, clock, StartedOnes, StartedAt)
    /\ WindowHolds(Limit, Window, StartedOnes, StartedAt)

LEMMA NoRequestsYet ==
    ASSUME Model!Init
    PROVE  /\ StatusOK /\ clock = 1
           /\ \A r \in Requests : /\ status[r].stage = "new" /\ status[r].counted = 0
                                  /\ status[r].start = 0 /\ status[r].end = 0
           /\ CountedOnes = {} /\ StartedOnes = {} /\ Successful = {} /\ Served = {}
<1>1. /\ clock = 1
      /\ status = [r \in Requests |-> [stage |-> "new", counted |-> 0, start |-> 0, end |-> 0]]
  BY DEF Model!Init
<1>2. StatusOK  BY <1>1 DEF StatusOK, Stages
<1>3. \A r \in Requests : /\ status[r].stage = "new" /\ status[r].counted = 0
                          /\ status[r].start = 0 /\ status[r].end = 0
  BY <1>1
<1>4. CountedOnes = {} /\ StartedOnes = {} /\ Successful = {} /\ Served = {}
  BY <1>3 DEF CountedOnes, StartedOnes, Successful, Served
<1> QED  BY <1>1, <1>2, <1>3, <1>4

LEMMA NobodyInWindow ==
    ASSUME NEW lim \in Nat, NEW dur, NEW f PROVE WindowHolds(lim, dur, {}, f)
<1>1. \A a \in Nat : Within({}, f, a, a + dur) = {}  BY DEF Within
<1>2. Cardinality({}) = 0  BY FS_EmptySet
<1> QED  BY <1>1, <1>2 DEF WindowHolds

LEMMA MemoryStarts == Model!Init => MemoryInv
<1> USE LimitsAssumption
<1> SUFFICES ASSUME Model!Init PROVE MemoryInv
  OBVIOUS
<1>1. totalQueue = <<>> /\ checkQueue = <<>>  BY DEF Model!Init
<1>2. /\ StatusOK /\ clock = 1 /\ CountedOnes = {} /\ StartedOnes = {}
      /\ \A r \in Requests : /\ status[r].stage = "new" /\ status[r].counted = 0
                             /\ status[r].start = 0
  BY NoRequestsYet
<1>3. CountedAt \in [Requests -> Nat] /\ StartedAt \in [Requests -> Nat]
  BY <1>2, TimesAreNat
<1>4. /\ KeyInv(TotalLimit, Window, <<>>, 1, {}, CountedAt)
      /\ KeyInv(Limit, Window, <<>>, 1, {}, StartedAt)
  BY <1>3, KeyStarts
<1>5. /\ WindowHolds(TotalLimit, Window, {}, CountedAt)
      /\ WindowHolds(Limit, Window, {}, StartedAt)
  BY NobodyInWindow
<1> QED  BY <1>1, <1>2, <1>4, <1>5 DEF MemoryInv

(* The instances count as this module does.                                *)
LEMMA SameCardinality ==
    \A S : /\ ModelMemory!Cardinality(S) = Cardinality(S)
           /\ ModelAlone!Cardinality(S) = Cardinality(S)
           /\ Model!Cardinality(S) = Cardinality(S)
  BY Zenon DEF ModelMemory!Cardinality, ModelAlone!Cardinality, Model!Cardinality, Cardinality

(* A request whose counting time, or whose start, does not change leaves   *)
(* the sets as they are.                                                   *)
LEMMA CountedStays ==
    ASSUME StatusOK, StatusOK', \A r \in Requests : status'[r].counted = status[r].counted
    PROVE  CountedAt' = CountedAt /\ CountedOnes' = CountedOnes
  BY DEF CountedAt, CountedOnes

LEMMA StartedStays ==
    ASSUME StatusOK, StatusOK', \A r \in Requests : status'[r].start = status[r].start
    PROVE  StartedAt' = StartedAt /\ StartedOnes' = StartedOnes
  BY DEF StartedAt, StartedOnes

LEMMA CountedGrows ==
    ASSUME StatusOK, NEW r \in Requests, NEW s, NEW b, NEW e, status[r].counted = 0,
           Becomes(r, s, clock, b, e)
    PROVE  Adds(CountedOnes, CountedAt, clock, r, CountedOnes', CountedAt')
<1>1. CountedAt' \in [Requests -> Nat] /\ \A u \in Requests : CountedAt'[u] = status'[u].counted
  BY DEF Becomes, StatusOK, CountedAt
<1>2. \A u \in Requests : CountedAt[u] = status[u].counted  BY DEF CountedAt
<1>3. CountedOnes' = CountedOnes \cup {r}  BY DEF CountedOnes, Becomes, StatusOK
<1>4. CountedOnes \subseteq Requests  BY DEF CountedOnes
<1> QED  BY <1>1, <1>2, <1>3, <1>4 DEF Adds, Becomes

LEMMA StartedGrows ==
    ASSUME StatusOK, NEW r \in Requests, NEW s, NEW c, NEW e,
           Becomes(r, s, c, clock, e)
    PROVE  Adds(StartedOnes, StartedAt, clock, r, StartedOnes', StartedAt')
<1>1. StartedAt' \in [Requests -> Nat] /\ \A u \in Requests : StartedAt'[u] = status'[u].start
  BY DEF Becomes, StatusOK, StartedAt
<1>2. \A u \in Requests : StartedAt[u] = status[u].start  BY DEF StartedAt
<1>3. StartedOnes' = StartedOnes \cup {r}  BY DEF StartedOnes, Becomes, StatusOK
<1>4. StartedOnes \subseteq Requests  BY DEF StartedOnes
<1> QED  BY <1>1, <1>2, <1>3, <1>4 DEF Adds, Becomes

LEMMA MemoryStep ==
    ASSUME WindowFits, MemoryInv, ModelMemory!Next PROVE MemoryInv'
<1> USE LimitsAssumption
<1>s. StatusOK /\ clock \in Nat \ {0}  BY DEF MemoryInv, StatusOK
<1>t. /\ KeyInv(TotalLimit, Window, totalQueue, clock, CountedOnes, CountedAt)
      /\ WindowHolds(TotalLimit, Window, CountedOnes, CountedAt)
  BY DEF MemoryInv
<1>c. /\ KeyInv(Limit, Window, checkQueue, clock, StartedOnes, StartedAt)
      /\ WindowHolds(Limit, Window, StartedOnes, StartedAt)
  BY DEF MemoryInv
<1>g. \A r \in Requests :
          /\ status[r].stage = "new" => status[r].counted = 0
          /\ status[r].stage = "checked" => status[r].counted # 0
          /\ status[r].stage \in {"new", "checked"} => status[r].start = 0
          /\ status[r].stage = "success" \/ status[r].stage = "serving" => status[r].start # 0
  BY DEF MemoryInv
<1>1. CASE ModelMemory!Tick
  <2>1. /\ clock' = clock + 1 /\ status' = status
        /\ totalQueue' = totalQueue /\ checkQueue' = checkQueue
    BY <1>1 DEF ModelMemory!Tick, ModelMemory!memoryVars
  <2>2. clock' \in Nat \ {0} /\ clock <= clock' /\ StatusOK'  BY <1>s, <2>1 DEF StatusOK
  <2>3. CountedAt' = CountedAt /\ CountedOnes' = CountedOnes
        /\ StartedAt' = StartedAt /\ StartedOnes' = StartedOnes
    BY <2>1 DEF CountedAt, CountedOnes, StartedAt, StartedOnes
  <2>4. /\ KeyInv(TotalLimit, Window, totalQueue, clock', CountedOnes, CountedAt)
        /\ KeyInv(Limit, Window, checkQueue, clock', StartedOnes, StartedAt)
    BY <1>s, <1>t, <1>c, <2>2, KeyTime
  <2> QED  BY <1>t, <1>c, <1>g, <2>1, <2>2, <2>3, <2>4 DEF MemoryInv
<1>2. CASE ModelMemory!clearExpiredItems
  <2>1. status' = status /\ clock' = clock
    BY <1>2 DEF ModelMemory!clearExpiredItems, ModelMemory!total!clearExpiredItems,
       ModelMemory!check!clearExpiredItems
  <2>2. StatusOK'  BY <1>s, <2>1 DEF StatusOK
  <2>3. CountedAt' = CountedAt /\ CountedOnes' = CountedOnes
        /\ StartedAt' = StartedAt /\ StartedOnes' = StartedOnes
    BY <2>1 DEF CountedAt, CountedOnes, StartedAt, StartedOnes
  <2>4. CASE ModelMemory!total!clearExpiredItems /\ checkQueue' = checkQueue
    <3>1. /\ totalQueue # <<>> /\ totalQueue' = <<>>
          /\ clock - totalQueue[Len(totalQueue)] > KeyLife
      BY <2>4 DEF ModelMemory!total!clearExpiredItems
    <3>2. totalQueue[Len(totalQueue)] \in Nat
      <4>1. totalQueue \in Seq(Nat)  BY <1>t DEF KeyInv
      <4> QED  BY <4>1, <3>1, ElementOfSeq
    <3>3. clock - totalQueue[Len(totalQueue)] >= Window  BY <1>s, <3>1, <3>2 DEF WindowFits
    <3>4. KeyInv(TotalLimit, Window, <<>>, clock, CountedOnes, CountedAt)
      BY <1>t, <3>1, <3>3, KeyIdle
    <3> QED  BY <1>t, <1>c, <1>g, <2>1, <2>2, <2>3, <2>4, <3>1, <3>4 DEF MemoryInv
  <2>5. CASE ModelMemory!check!clearExpiredItems /\ totalQueue' = totalQueue
    <3>1. /\ checkQueue # <<>> /\ checkQueue' = <<>>
          /\ clock - checkQueue[Len(checkQueue)] > KeyLife
      BY <2>5 DEF ModelMemory!check!clearExpiredItems
    <3>2. checkQueue[Len(checkQueue)] \in Nat
      <4>1. checkQueue \in Seq(Nat)  BY <1>c DEF KeyInv
      <4> QED  BY <4>1, <3>1, ElementOfSeq
    <3>3. clock - checkQueue[Len(checkQueue)] >= Window  BY <1>s, <3>1, <3>2 DEF WindowFits
    <3>4. KeyInv(Limit, Window, <<>>, clock, StartedOnes, StartedAt)
      BY <1>c, <3>1, <3>3, KeyIdle
    <3> QED  BY <1>t, <1>c, <1>g, <2>1, <2>2, <2>3, <2>5, <3>1, <3>4 DEF MemoryInv
  <2> QED  BY <1>2, <2>4, <2>5 DEF ModelMemory!clearExpiredItems
<1>3. ASSUME NEW r \in Requests, ModelMemory!MemoryTotal(r) PROVE MemoryInv'
  <2>1. /\ status[r].stage = "new" /\ clock' = clock /\ checkQueue' = checkQueue
        /\ \/ ModelMemory!total!Request /\ ModelMemory!Count(r, "checked")
           \/ ModelMemory!Move(r, "overTotal") /\ totalQueue' = totalQueue
    BY <1>3 DEF ModelMemory!MemoryTotal, ModelMemory!At
  <2>2. status[r].counted = 0 /\ status[r].start = 0  BY <1>g, <2>1
  <2>3. CASE ModelMemory!total!Request /\ ModelMemory!Count(r, "checked")
    <3>1. Becomes(r, "checked", clock, status[r].start, status[r].end)
      <4>1. status' = [status EXCEPT ![r].stage = "checked", ![r].counted = clock]
        BY <2>3 DEF ModelMemory!Count
      <4>2. "checked" \in Stages  BY DEF Stages
      <4> QED  BY <1>s, <2>1, <4>1, <4>2, GetsCounted
    <3>2. Adds(CountedOnes, CountedAt, clock, r, CountedOnes', CountedAt')
      BY <1>s, <2>2, <3>1, CountedGrows
    <3>3. StartedAt' = StartedAt /\ StartedOnes' = StartedOnes
      <4>1. StatusOK' /\ \A u \in Requests : status'[u].start = status[u].start
        BY <3>1 DEF Becomes
      <4> QED  BY <1>s, <4>1, StartedStays
    <3>4. /\ KeyInv(TotalLimit, Window, totalQueue', clock, CountedOnes', CountedAt')
          /\ WindowHolds(TotalLimit, Window, CountedOnes', CountedAt')
      <4>1. \/ (totalQueue = <<>> \/ Len(totalQueue) < TotalLimit)
                  /\ totalQueue' = Append(totalQueue, clock)
            \/ ~(totalQueue = <<>> \/ Len(totalQueue) < TotalLimit)
                  /\ clock - totalQueue[1] >= Window
                  /\ totalQueue' = Append(Tail(totalQueue), clock)
        BY <2>3 DEF ModelMemory!total!Request, ModelMemory!total!HasRoom,
           ModelMemory!total!HasAged, ModelMemory!total!Admit
      <4> QED  BY <1>t, <3>2, <4>1, KeyRequest
    <3>5. \A u \in Requests :
              /\ status'[u].stage = "new" => status'[u].counted = 0
              /\ status'[u].stage = "checked" => status'[u].counted # 0
              /\ status'[u].stage \in {"new", "checked"} => status'[u].start = 0
              /\ status'[u].stage = "success" \/ status'[u].stage = "serving"
                     => status'[u].start # 0
      BY <1>s, <1>g, <2>2, <3>1 DEF Becomes
    <3>6. StatusOK'  BY <3>1 DEF Becomes
    <3> QED  BY <1>c, <2>1, <3>3, <3>4, <3>5, <3>6 DEF MemoryInv
  <2>4. CASE ModelMemory!Move(r, "overTotal") /\ totalQueue' = totalQueue
    <3>1. Becomes(r, "overTotal", status[r].counted, status[r].start, status[r].end)
      <4>1. status' = [status EXCEPT ![r].stage = "overTotal"]
        BY <2>4 DEF ModelMemory!Move
      <4>2. "overTotal" \in Stages  BY DEF Stages
      <4> QED  BY <1>s, <2>1, <4>1, <4>2, Moved
    <3>2. /\ StatusOK' /\ \A u \in Requests : status'[u].start = status[u].start
          /\ \A u \in Requests : status'[u].counted = status[u].counted
      BY <3>1 DEF Becomes
    <3>3. StartedAt' = StartedAt /\ StartedOnes' = StartedOnes
          /\ CountedAt' = CountedAt /\ CountedOnes' = CountedOnes
      BY <1>s, <3>2, StartedStays, CountedStays
    <3>5. \A u \in Requests :
              /\ status'[u].stage = "new" => status'[u].counted = 0
              /\ status'[u].stage = "checked" => status'[u].counted # 0
              /\ status'[u].stage \in {"new", "checked"} => status'[u].start = 0
              /\ status'[u].stage = "success" \/ status'[u].stage = "serving"
                     => status'[u].start # 0
      BY <1>g, <3>1 DEF Becomes
    <3> QED  BY <1>t, <1>c, <2>1, <2>4, <3>2, <3>3, <3>5 DEF MemoryInv
  <2> QED  BY <2>1, <2>3, <2>4
<1>4. ASSUME NEW r \in Requests, ModelMemory!MemoryCheck(r) PROVE MemoryInv'
  <2>1. /\ status[r].stage = "checked" /\ clock' = clock /\ totalQueue' = totalQueue
        /\ \/ ModelMemory!check!Request /\ ModelMemory!LetIn(r)
           \/ ModelMemory!Move(r, "overSuccess") /\ checkQueue' = checkQueue
    BY <1>4 DEF ModelMemory!MemoryCheck, ModelMemory!At, ModelMemory!redisVars
  <2>2. status[r].counted # 0 /\ status[r].start = 0  BY <1>g, <2>1
  <2>3. CASE ModelMemory!check!Request /\ ModelMemory!LetIn(r)
    <3>1. Becomes(r, "serving", status[r].counted, clock, status[r].end)
      <4>1. status' = [status EXCEPT ![r].stage = "serving", ![r].start = clock,
                                     ![r].counted = IF @ = 0 THEN clock ELSE @]
        BY <2>3 DEF ModelMemory!LetIn
      <4>2. Becomes(r, "serving", IF status[r].counted = 0 THEN clock ELSE status[r].counted,
                    clock, status[r].end)
        BY <1>s, <2>1, <4>1, GetsIn
      <4> QED  BY <2>2, <4>2
    <3>2. Adds(StartedOnes, StartedAt, clock, r, StartedOnes', StartedAt')
      BY <1>s, <3>1, StartedGrows
    <3>3. CountedAt' = CountedAt /\ CountedOnes' = CountedOnes
      <4>1. StatusOK' /\ \A u \in Requests : status'[u].counted = status[u].counted
        BY <3>1 DEF Becomes
      <4> QED  BY <1>s, <4>1, CountedStays
    <3>4. /\ KeyInv(Limit, Window, checkQueue', clock, StartedOnes', StartedAt')
          /\ WindowHolds(Limit, Window, StartedOnes', StartedAt')
      <4>1. \/ (checkQueue = <<>> \/ Len(checkQueue) < Limit)
                  /\ checkQueue' = Append(checkQueue, clock)
            \/ ~(checkQueue = <<>> \/ Len(checkQueue) < Limit)
                  /\ clock - checkQueue[1] >= Window
                  /\ checkQueue' = Append(Tail(checkQueue), clock)
        BY <2>3 DEF ModelMemory!check!Request, ModelMemory!check!HasRoom,
           ModelMemory!check!HasAged, ModelMemory!check!Admit
      <4> QED  BY <1>c, <3>2, <4>1, KeyRequest
    <3>5. \A u \in Requests :
              /\ status'[u].stage = "new" => status'[u].counted = 0
              /\ status'[u].stage = "checked" => status'[u].counted # 0
              /\ status'[u].stage \in {"new", "checked"} => status'[u].start = 0
              /\ status'[u].stage = "success" \/ status'[u].stage = "serving"
                     => status'[u].start # 0
      BY <1>s, <1>g, <3>1 DEF Becomes
    <3>6. StatusOK'  BY <3>1 DEF Becomes
    <3> QED  BY <1>t, <2>1, <3>3, <3>4, <3>5, <3>6 DEF MemoryInv
  <2>4. CASE ModelMemory!Move(r, "overSuccess") /\ checkQueue' = checkQueue
    <3>1. Becomes(r, "overSuccess", status[r].counted, status[r].start, status[r].end)
      <4>1. status' = [status EXCEPT ![r].stage = "overSuccess"]
        BY <2>4 DEF ModelMemory!Move
      <4>2. "overSuccess" \in Stages  BY DEF Stages
      <4> QED  BY <1>s, <2>1, <4>1, <4>2, Moved
    <3>2. /\ StatusOK' /\ \A u \in Requests : status'[u].start = status[u].start
          /\ \A u \in Requests : status'[u].counted = status[u].counted
      BY <3>1 DEF Becomes
    <3>3. StartedAt' = StartedAt /\ StartedOnes' = StartedOnes
          /\ CountedAt' = CountedAt /\ CountedOnes' = CountedOnes
      BY <1>s, <3>2, StartedStays, CountedStays
    <3>5. \A u \in Requests :
              /\ status'[u].stage = "new" => status'[u].counted = 0
              /\ status'[u].stage = "checked" => status'[u].counted # 0
              /\ status'[u].stage \in {"new", "checked"} => status'[u].start = 0
              /\ status'[u].stage = "success" \/ status'[u].stage = "serving"
                     => status'[u].start # 0
      BY <1>g, <3>1 DEF Becomes
    <3> QED  BY <1>t, <1>c, <2>1, <2>4, <3>2, <3>3, <3>5 DEF MemoryInv
  <2> QED  BY <2>1, <2>3, <2>4
<1>5. ASSUME NEW r \in Requests, ModelMemory!Finish(r) PROVE MemoryInv'
  <2>1. /\ status[r].stage = "serving" /\ clock' = clock
        /\ totalQueue' = totalQueue /\ checkQueue' = checkQueue
    BY <1>5 DEF ModelMemory!Finish, ModelMemory!At, ModelMemory!memoryVars
  <2>2. PICK s \in {"success", "failure"} :
            status' = [status EXCEPT ![r].stage = s, ![r].end = clock]
    BY <1>5 DEF ModelMemory!Finish
  <2>3. s \in Stages  BY DEF Stages
  <2>4. Becomes(r, s, status[r].counted, status[r].start, clock)
    BY <1>s, <2>1, <2>2, <2>3, Finished
  <2>5. /\ StatusOK' /\ \A u \in Requests : status'[u].start = status[u].start
        /\ \A u \in Requests : status'[u].counted = status[u].counted
    BY <2>4 DEF Becomes
  <2>6. StartedAt' = StartedAt /\ StartedOnes' = StartedOnes
        /\ CountedAt' = CountedAt /\ CountedOnes' = CountedOnes
    BY <1>s, <2>5, StartedStays, CountedStays
  <2>7. \A u \in Requests :
            /\ status'[u].stage = "new" => status'[u].counted = 0
            /\ status'[u].stage = "checked" => status'[u].counted # 0
            /\ status'[u].stage \in {"new", "checked"} => status'[u].start = 0
            /\ status'[u].stage = "success" \/ status'[u].stage = "serving"
                   => status'[u].start # 0
    BY <1>g, <2>1, <2>4 DEF Becomes
  <2> QED  BY <1>t, <1>c, <2>1, <2>5, <2>6, <2>7 DEF MemoryInv
<1>6. ASSUME NEW r \in Requests, ModelMemory!CheckSuccesses(r) \/ ModelMemory!Allow(r)
      PROVE  FALSE
  BY <1>6 DEF ModelMemory!CheckSuccesses, ModelMemory!Allow
<1> QED  BY <1>1, <1>2, <1>3, <1>4, <1>5, <1>6 DEF ModelMemory!Next

LEMMA MemoryHolds ==
    MemoryInv => ModelMemory!SuccessWithinWindow /\ ModelMemory!TotalWithinWindow
<1> USE LimitsAssumption
<1> SUFFICES ASSUME MemoryInv
             PROVE  ModelMemory!SuccessWithinWindow /\ ModelMemory!TotalWithinWindow
  OBVIOUS
<1>s. StatusOK  BY DEF MemoryInv
<1>t. /\ StartedOnes \subseteq Requests /\ CountedOnes \subseteq Requests
      /\ StartedAt \in [Requests -> Nat] /\ CountedAt \in [Requests -> Nat]
      /\ \A r \in Requests : StartedAt[r] = status[r].start /\ CountedAt[r] = status[r].counted
  BY <1>s, TimesAreNat DEF StartedOnes, CountedOnes
<1>1. ModelMemory!SuccessWithinWindow
  <2> SUFFICES ASSUME NEW W \in SUBSET ModelMemory!Succeeded, Cardinality(W) = Limit + 1
               PROVE  \E p, q \in W : status[q].start - status[p].start >= Window
    BY SameCardinality DEF ModelMemory!SuccessWithinWindow, ModelMemory!SpreadOut, ModelMemory!kSubset,
       ModelMemory!start
  <2>1. W \subseteq StartedOnes
    BY DEF MemoryInv, ModelMemory!Succeeded, ModelMemory!At, StartedOnes
  <2>2. WindowHolds(Limit, Window, StartedOnes, StartedAt)  BY DEF MemoryInv
  <2>3. Limit \in Nat /\ Limit + 1 \in Nat /\ Limit + 1 > Limit  OBVIOUS
  <2>4. \E p, q \in W : StartedAt[q] - StartedAt[p] >= Window
    BY <1>t, <2>1, <2>2, <2>3, WindowSpreads
  <2> QED  BY <1>t, <2>1, <2>4
<1>2. ModelMemory!TotalWithinWindow
  <2> SUFFICES ASSUME NEW W \in SUBSET ModelMemory!Counted, Cardinality(W) = TotalLimit + 1
               PROVE  \E p, q \in W : status[q].counted - status[p].counted >= Window
    BY SameCardinality DEF ModelMemory!TotalWithinWindow, ModelMemory!SpreadOut, ModelMemory!kSubset,
       ModelMemory!counted
  <2>1. W \subseteq CountedOnes  BY DEF ModelMemory!Counted, CountedOnes
  <2>2. WindowHolds(TotalLimit, Window, CountedOnes, CountedAt)  BY DEF MemoryInv
  <2>3. TotalLimit \in Nat /\ TotalLimit + 1 \in Nat /\ TotalLimit + 1 > TotalLimit  OBVIOUS
  <2>4. \E p, q \in W : CountedAt[q] - CountedAt[p] >= Window
    BY <1>t, <2>1, <2>2, <2>3, WindowSpreads
  <2> QED  BY <1>t, <2>1, <2>4
<1> QED  BY <1>1, <1>2

(***************************************************************************)
(* With Redis, one request at a time and no limit of the total             *)
(***************************************************************************)

(* The requests that succeeded after the time x.                           *)
SucceededAfter(x) == Cardinality(Younger(Successful, EndedAt, x))

(* The list outlives the window of every success.                          *)
ListLives ==
    /\ successesExpire \in Nat
    /\ \A r \in Successful :
          IF successesExpire = 0 THEN clock - status[r].end >= Window
          ELSE successesExpire >= status[r].end + Window

(* One request at a time: what it found before it was let in still holds   *)
(* then.                                                                   *)
Flying == {r \in Requests : status[r].stage = "checked" \/ status[r].stage = "serving"}

OneByOne ==
    /\ \A p, q \in Flying : p = q
    /\ \A r \in Requests :
          /\ status[r].stage \in {"serving", "success"} => status[r].start <= clock
          /\ status[r].stage = "success" => status[r].start <= status[r].end
          /\ status[r].stage = "checked" => SucceededAfter(clock - Window) < Limit

SerialInv ==
    /\ StatusOK /\ ListLives /\ OneByOne
    /\ KeyInv(Limit, Window, successes, clock, Successful, EndedAt)
    /\ WindowHolds(Limit, Window, Served, StartedAt)

LEMMA SerialStarts == Model!Init => SerialInv
<1> USE LimitsAssumption
<1> SUFFICES ASSUME Model!Init PROVE SerialInv
  OBVIOUS
<1>1. successes = <<>> /\ successesExpire = 0  BY DEF Model!Init
<1>2. /\ StatusOK /\ clock = 1 /\ Successful = {} /\ Served = {}
      /\ \A r \in Requests : status[r].stage = "new"
  BY NoRequestsYet
<1>3. EndedAt \in [Requests -> Nat]  BY <1>2, TimesAreNat
<1>4. KeyInv(Limit, Window, <<>>, 1, {}, EndedAt)  BY <1>3, KeyStarts
<1>5. WindowHolds(Limit, Window, {}, StartedAt)  BY NobodyInWindow
<1>6. ListLives  BY <1>1, <1>2 DEF ListLives
<1>7. OneByOne  BY <1>2 DEF OneByOne, Flying
<1> QED  BY <1>1, <1>2, <1>4, <1>5, <1>6, <1>7 DEF SerialInv

(* A step that leaves the successes and their times alone.                 *)
LEMMA SuccessesStay ==
    ASSUME StatusOK, NEW r \in Requests, NEW s \in Stages, NEW c, NEW b, NEW e,
           s # "success", status[r].stage # "success", Becomes(r, s, c, b, e)
    PROVE  /\ Successful' = Successful
           /\ \A x : Younger(Successful', EndedAt', x) = Younger(Successful, EndedAt, x)
           /\ \A u \in Successful : EndedAt'[u] = EndedAt[u] /\ status'[u] = status[u]
           /\ EndedAt' \in [Requests -> Nat]
<1>1. Successful' = Successful  BY DEF Becomes, Successful
<1>2. \A u \in Successful : u # r /\ u \in Requests  BY DEF Successful
<1>3. \A u \in Successful : status'[u] = status[u]  BY <1>2 DEF Becomes
<1>4. \A u \in Successful : EndedAt'[u] = EndedAt[u]  BY <1>2, <1>3 DEF EndedAt
<1>5. EndedAt' \in [Requests -> Nat]  BY DEF Becomes, StatusOK, EndedAt
<1>6. \A x : Younger(Successful', EndedAt', x) = Younger(Successful, EndedAt, x)
  BY <1>1, <1>4 DEF Younger
<1> QED  BY <1>1, <1>3, <1>4, <1>5, <1>6

LEMMA KeySame ==
    ASSUME NEW lim, NEW dur, NEW q, NEW t, NEW S, NEW f, NEW f2,
           KeyInv(lim, dur, q, t, S, f), f2 \in [Requests -> Nat], \A r \in S : f2[r] = f[r]
    PROVE  KeyInv(lim, dur, q, t, S, f2)
<1>1. Times(S, f2, t)  BY DEF KeyInv, Times
<1>2. \A x : Younger(S, f2, x) = Younger(S, f, x)  BY DEF Younger
<1> QED  BY <1>1, <1>2 DEF KeyInv

(* recordRedisRequest.                                                     *)
LEMMA SuccessRecorded ==
    ASSUME NEW q \in Seq(Nat), NEW t \in Nat, Limit \in Nat \ {0}, Len(q) <= Limit,
           NEW q2,
           q2 = IF Len(Append(q, t)) <= Limit THEN Append(q, t)
                ELSE SubSeq(Append(q, t), Len(Append(q, t)) - Limit + 1, Len(Append(q, t)))
    PROVE  IF Len(q) < Limit THEN q2 = Append(q, t)
           ELSE Len(q) = Limit /\ q2 = Append(Tail(q), t)
<1>1. Len(Append(q, t)) = Len(q) + 1 /\ Len(q) \in Nat  BY AppendFacts
<1>2. CASE Len(q) < Limit
  <2>1. Len(q) + 1 <= Limit  BY <1>1, <1>2
  <2> QED  BY <1>1, <1>2, <2>1
<1>3. CASE Len(q) = Limit
  <2>1. q2 = RedisAlone!Trimmed(Append(q, t))  BY DEF RedisAlone!Trimmed
  <2>2. q2 = Append(Tail(q), t)  BY <1>3, <2>1, TrimmedPush
  <2>3. ~(Len(q) < Limit)  BY <1>1, <1>3
  <2> QED  BY <1>3, <2>2, <2>3, Zenon
<1>4. Len(q) < Limit \/ Len(q) = Limit  BY <1>1
<1> QED  BY <1>2, <1>3, <1>4, Zenon

LEMMA SuccessAdds ==
    ASSUME StatusOK, NEW r \in Requests, NEW c, NEW b,
           status[r].stage # "success", Becomes(r, "success", c, b, clock)
    PROVE  Adds(Successful, EndedAt, clock, r, Successful', EndedAt')
<1>1. EndedAt' \in [Requests -> Nat] /\ \A u \in Requests : EndedAt'[u] = status'[u].end
  BY DEF Becomes, StatusOK, EndedAt
<1>2. \A u \in Requests : EndedAt[u] = status[u].end  BY DEF EndedAt
<1>3. Successful' = Successful \cup {r}  BY DEF Successful, Becomes
<1>4. Successful \subseteq Requests  BY DEF Successful
<1> QED  BY <1>1, <1>2, <1>3, <1>4 DEF Adds, Becomes

(* The list after a success.                                               *)
LEMMA KeyRecords ==
    ASSUME NEW q2, NEW S2, NEW f2, NEW S, NEW f, NEW t, NEW q, NEW r,
           KeyInv(Limit, Window, q, t, S, f), Adds(S, f, t, r, S2, f2),
           q2 = IF Len(Append(q, t)) <= Limit THEN Append(q, t)
                ELSE SubSeq(Append(q, t), Len(Append(q, t)) - Limit + 1, Len(Append(q, t)))
    PROVE  KeyInv(Limit, Window, q2, t, S2, f2)
<1> USE LimitsAssumption
<1>1. q \in Seq(Nat) /\ t \in Nat /\ Len(q) <= Limit  BY DEF KeyInv, Times
<1>2. IF Len(q) < Limit THEN q2 = Append(q, t) ELSE Len(q) = Limit /\ q2 = Append(Tail(q), t)
  BY <1>1, SuccessRecorded
<1>3. CASE Len(q) < Limit  BY <1>2, <1>3, KeyPush
<1>4. CASE Len(q) = Limit /\ q2 = Append(Tail(q), t)  BY <1>4, KeyShift
<1> QED  BY <1>2, <1>3, <1>4

(* Seen from a later time, fewer requests succeeded lately.                *)
LEMMA FewerLately ==
    ASSUME NEW S, NEW f, NEW t \in Nat, NEW t2 \in Nat, t <= t2, Times(S, f, t),
           Cardinality(Younger(S, f, t - Window)) < Limit
    PROVE  Cardinality(Younger(S, f, t2 - Window)) < Limit
<1> USE LimitsAssumption
<1> DEFINE x == t - Window
           y == t2 - Window
           a == Cardinality(Younger(S, f, x))
           b == Cardinality(Younger(S, f, y))
<1>1. x \in Int /\ y \in Int /\ x <= y  OBVIOUS
<1>2. a < Limit  OBVIOUS
<1>3. a \in Nat /\ b \in Nat  BY YoungerIsFinite DEF Times
<1> HIDE DEF x, y
<1>4. b <= a  BY <1>1, YoungerShrinks
<1> HIDE DEF a, b
<1>5. b < Limit  BY <1>2, <1>3, <1>4
<1> QED  BY <1>5 DEF b, y

LEMMA SerialStep ==
    ASSUME SerialInv, ModelAlone!Next PROVE SerialInv'
<1> USE LimitsAssumption
<1>s. StatusOK /\ clock \in Nat \ {0} /\ successesExpire \in Nat
  BY DEF SerialInv, StatusOK, ListLives
<1>k. KeyInv(Limit, Window, successes, clock, Successful, EndedAt)  BY DEF SerialInv
<1>w. WindowHolds(Limit, Window, Served, StartedAt)  BY DEF SerialInv
<1>i. Times(Successful, EndedAt, clock)  BY <1>k DEF KeyInv
<1>f. \A p, q \in Flying : p = q  BY DEF SerialInv, OneByOne
<1>o. \A r \in Requests :
          /\ status[r].stage \in {"serving", "success"} => status[r].start <= clock
          /\ status[r].stage = "success" => status[r].start <= status[r].end
          /\ status[r].stage = "checked" => SucceededAfter(clock - Window) < Limit
  BY DEF SerialInv, OneByOne
<1>n. \A r \in Requests : /\ status[r].start \in Nat /\ status[r].end \in Nat
                          /\ StartedAt[r] = status[r].start /\ EndedAt[r] = status[r].end
  BY <1>s DEF StatusOK, StartedAt, EndedAt
<1>l. \A r \in Successful :
          IF successesExpire = 0 THEN clock - status[r].end >= Window
          ELSE successesExpire >= status[r].end + Window
  BY DEF SerialInv, ListLives
<1>e. \A r \in Successful : r \in Requests /\ status[r].end <= clock
  BY <1>i, <1>n DEF Times, Successful
<1>1. CASE ModelAlone!Tick
  <2> DEFINE gone == successesExpire # 0 /\ clock + 1 >= successesExpire
  <2>1. /\ clock' = clock + 1 /\ status' = status
        /\ successes' = (IF gone THEN <<>> ELSE successes)
        /\ successesExpire' = (IF gone THEN 0 ELSE successesExpire)
    BY <1>1 DEF ModelAlone!Tick
  <2>2. clock' \in Nat \ {0} /\ clock <= clock' /\ StatusOK'  BY <1>s, <2>1 DEF StatusOK
  <2>3. /\ EndedAt' = EndedAt /\ StartedAt' = StartedAt /\ Successful' = Successful
        /\ Served' = Served /\ Flying' = Flying
    BY <2>1 DEF EndedAt, StartedAt, Successful, Served, Flying
  <2>4. KeyInv(Limit, Window, successes, clock', Successful, EndedAt)
    BY <1>s, <1>k, <2>2, KeyTime
  <2>5. OneByOne'
    <3>1. ASSUME SucceededAfter(clock - Window) < Limit
          PROVE  Cardinality(Younger(Successful, EndedAt, clock' - Window)) < Limit
      <4>1. clock \in Nat /\ clock' \in Nat /\ clock <= clock'  BY <1>s, <2>2
      <4> QED  BY <1>i, <3>1, <4>1, FewerLately DEF SucceededAfter
    <3>2. \A r \in Requests :
              /\ status[r].stage \in {"serving", "success"} => status[r].start <= clock'
              /\ status[r].stage = "checked" =>
                    Cardinality(Younger(Successful, EndedAt, clock' - Window)) < Limit
      BY <1>s, <1>n, <1>o, <2>1, <3>1
    <3> QED  BY <1>f, <1>o, <2>1, <2>3, <3>2 DEF OneByOne, SucceededAfter
  <2>6. ASSUME NEW r \in Successful
        PROVE  /\ gone => clock' - status[r].end >= Window
               /\ successesExpire = 0 => clock' - status[r].end >= Window
    <3>1. /\ status[r].end \in Nat
          /\ successesExpire = 0 => clock - status[r].end >= Window
          /\ successesExpire # 0 => successesExpire >= status[r].end + Window
      BY <1>l, <1>e, <1>n
    <3> QED  BY <1>s, <2>1, <3>1
  <2>7. CASE gone
    <3>1. successes' = <<>> /\ successesExpire' = 0  BY <2>1, <2>7
    <3>2. \A r \in Successful : clock' - status[r].end >= Window  BY <2>6, <2>7
    <3>3. ListLives'  BY <2>1, <2>3, <3>1, <3>2 DEF ListLives
    <3>4. KeyInv(Limit, Window, <<>>, clock', Successful, EndedAt)
      <4>1. Times(Successful, EndedAt, clock')  BY <2>4 DEF KeyInv
      <4>2. \A r \in Successful : clock' - EndedAt[r] >= Window  BY <1>e, <1>n, <3>2
      <4> QED  BY <4>1, <4>2, KeyForgets
    <3> QED  BY <1>w, <2>2, <2>3, <2>5, <3>1, <3>3, <3>4 DEF SerialInv
  <2>8. CASE ~gone
    <3>1. successes' = successes /\ successesExpire' = successesExpire  BY <2>1, <2>8
    <3>2. ListLives'  BY <1>s, <1>l, <2>1, <2>3, <2>6, <3>1 DEF ListLives
    <3> QED  BY <1>w, <2>2, <2>3, <2>4, <2>5, <3>1, <3>2 DEF SerialInv
  <2> QED  BY <2>7, <2>8
<1>2. ASSUME NEW r \in Requests, ModelAlone!CheckSuccesses(r) PROVE SerialInv'
  <2>1. /\ status[r].stage = "new" /\ clock' = clock /\ successes' = successes
        /\ ModelAlone!Cardinality(ModelAlone!InFlight) < 1
    BY <1>2 DEF ModelAlone!CheckSuccesses, ModelAlone!At
  <2>2. Flying = {}
    <3>1. ModelAlone!InFlight = Flying  BY DEF ModelAlone!InFlight, ModelAlone!At, Flying
    <3>2. IsFiniteSet(Flying) /\ Cardinality(Flying) \in Nat
      <4>1. Flying \subseteq Requests  BY DEF Flying
      <4> QED  BY <4>1, CardMono
    <3>3. Cardinality(Flying) < 1  BY <2>1, <3>1, SameCardinality
    <3>4. Cardinality(Flying) = 0  BY <3>2, <3>3
    <3> QED  BY <3>2, <3>4, FS_EmptySet
  <2>3. ASSUME NEW s \in {"overSuccess", "checked"}, ModelAlone!Move(r, s),
               s = "checked" => SucceededAfter(clock - Window) < Limit,
               \/ successesExpire' = successesExpire
               \/ successesExpire' = clock + Window
        PROVE  SerialInv'
    <3>0. s \in Stages  BY DEF Stages
    <3>1. Becomes(r, s, status[r].counted, status[r].start, status[r].end)
      <4>1. status' = [status EXCEPT ![r].stage = s]  BY <2>3 DEF ModelAlone!Move
      <4> QED  BY <1>s, <2>1, <3>0, <4>1, Moved
    <3>2. /\ Successful' = Successful
          /\ \A x : Younger(Successful', EndedAt', x) = Younger(Successful, EndedAt, x)
          /\ \A u \in Successful : EndedAt'[u] = EndedAt[u] /\ status'[u] = status[u]
          /\ EndedAt' \in [Requests -> Nat]
      BY <1>s, <2>1, <3>0, <3>1, SuccessesStay
    <3>3. KeyInv(Limit, Window, successes, clock, Successful, EndedAt')
      BY <1>k, <3>2, KeySame
    <3>4. /\ StatusOK' /\ status'[r].stage = s
          /\ \A u \in Requests : u # r => status'[u] = status[u]
      BY <3>1 DEF Becomes
    <3>5. Served' = Served  BY <2>1, <3>4 DEF Served
    <3>6. StartedAt' = StartedAt  BY <3>1 DEF Becomes, StartedAt
    <3>7. \A u \in Flying' : u = r
      <4>1. \A u \in Requests : u # r => ~(status[u].stage = "checked" \/ status[u].stage = "serving")
        BY <2>2 DEF Flying
      <4> QED  BY <3>4, <4>1 DEF Flying
    <3>8. OneByOne'
      <4>1. \A p, q \in Flying' : p = q  BY <3>7
      <4>2. SucceededAfter(clock - Window)' = SucceededAfter(clock - Window)
        BY <2>1, <3>2 DEF SucceededAfter
      <4>3. \A u \in Requests :
                /\ status'[u].stage \in {"serving", "success"} => status'[u].start <= clock
                /\ status'[u].stage = "success" => status'[u].start <= status'[u].end
                /\ status'[u].stage = "checked" => SucceededAfter(clock - Window) < Limit
        BY <1>o, <2>3, <3>4
      <4> QED  BY <2>1, <4>1, <4>2, <4>3 DEF OneByOne
    <3>9. ListLives'
      <4>1. successesExpire' \in Nat  BY <1>s, <2>3
      <4>2. ASSUME NEW u \in Successful
            PROVE  IF successesExpire' = 0 THEN clock - status[u].end >= Window
                   ELSE successesExpire' >= status[u].end + Window
        <5>1. status[u].end \in Nat /\ status[u].end <= clock  BY <1>e, <1>n
        <5>2. CASE successesExpire' = clock + Window
          <6>1. successesExpire' # 0 /\ successesExpire' >= status[u].end + Window
            BY <1>s, <5>1, <5>2
          <6> QED  BY <6>1
        <5> QED  BY <1>l, <2>3, <5>2
      <4> QED  BY <2>1, <3>2, <4>1, <4>2 DEF ListLives
    <3> QED  BY <1>w, <2>1, <3>2, <3>3, <3>4, <3>5, <3>6, <3>8, <3>9 DEF SerialInv
  <2>4. CASE ModelAlone!SuccessLimitReached
    <3>1. ModelAlone!Move(r, "overSuccess") /\ successesExpire' = clock + Window
      BY <1>2, <2>4 DEF ModelAlone!CheckSuccesses
    <3> QED  BY <2>3, <3>1
  <2>5. CASE ~ModelAlone!SuccessLimitReached
    <3>1. ModelAlone!Move(r, "checked") /\ successesExpire' = successesExpire
      BY <1>2, <2>5 DEF ModelAlone!CheckSuccesses
    <3>2. Len(successes) < Limit \/ clock - successes[1] >= Window
      <4>1. successes \in Seq(Nat) /\ Len(successes) \in Nat  BY <1>k DEF KeyInv
      <4>2. CASE Len(successes) >= Limit
        <5>1. successes[1] \in Nat  BY <4>1, <4>2, ElementOfSeq
        <5> QED  BY <1>s, <2>5, <4>2, <5>1 DEF ModelAlone!SuccessLimitReached
      <4> QED  BY <4>1, <4>2
    <3>3. SucceededAfter(clock - Window) < Limit  BY <1>k, <3>2, KeyAdmits DEF SucceededAfter
    <3> QED  BY <2>3, <3>1, <3>3
  <2> QED  BY <2>4, <2>5
<1>3. ASSUME NEW r \in Requests, ModelAlone!Allow(r) PROVE SerialInv'
  <2>1. /\ status[r].stage = "checked" /\ clock' = clock /\ successes' = successes
        /\ successesExpire' = successesExpire /\ ModelAlone!LetIn(r)
    BY <1>3 DEF ModelAlone!Allow, ModelAlone!At
  <2> DEFINE c == IF status[r].counted = 0 THEN clock ELSE status[r].counted
  <2>2. Becomes(r, "serving", c, clock, status[r].end)
    <3>1. status' = [status EXCEPT ![r].stage = "serving", ![r].start = clock,
                                   ![r].counted = IF @ = 0 THEN clock ELSE @]
      BY <2>1 DEF ModelAlone!LetIn
    <3> QED  BY <1>s, <2>1, <3>1, GetsIn
  <2> HIDE DEF c
  <2>3. /\ Successful' = Successful
        /\ \A x : Younger(Successful', EndedAt', x) = Younger(Successful, EndedAt, x)
        /\ \A u \in Successful : EndedAt'[u] = EndedAt[u] /\ status'[u] = status[u]
        /\ EndedAt' \in [Requests -> Nat]
    <3>1. "serving" \in Stages  BY DEF Stages
    <3> QED  BY <1>s, <2>1, <2>2, <3>1, SuccessesStay
  <2>4. KeyInv(Limit, Window, successes, clock, Successful, EndedAt')
    BY <1>k, <2>3, KeySame
  <2>5. /\ StatusOK' /\ status'[r].stage = "serving" /\ status'[r].start = clock
        /\ \A u \in Requests : u # r => status'[u] = status[u]
    BY <2>2 DEF Becomes
  <2>6. r \in Flying /\ Flying' = Flying  BY <2>1, <2>5 DEF Flying
  <2>7. Served = Successful
    <3>1. \A u \in Requests : status[u].stage = "serving" => u = r
      BY <1>f, <2>6 DEF Flying
    <3> QED  BY <2>1, <3>1 DEF Served, Successful
  <2>8. Adds(Served, StartedAt, clock, r, Served', StartedAt')
    <3>1. StartedAt' \in [Requests -> Nat] /\ \A u \in Requests : StartedAt'[u] = status'[u].start
      BY <2>5 DEF StatusOK, StartedAt
    <3>2. Served' = Served \cup {r} /\ Served \subseteq Requests  BY <2>5 DEF Served
    <3> QED  BY <1>n, <2>5, <3>1, <3>2 DEF Adds
  <2>9. Times(Served, StartedAt, clock)
    <3>1. \A u \in Served : u \in Requests /\ status[u].start <= clock
      BY <1>o DEF Served
    <3>2. StartedAt \in [Requests -> Nat]  BY <1>s, TimesAreNat
    <3> QED  BY <1>s, <1>n, <3>1, <3>2 DEF Times
  <2>10. Cardinality(Younger(Served, StartedAt, clock - Window)) < Limit
    <3> DEFINE A == Younger(Served, StartedAt, clock - Window)
               B == Younger(Successful, EndedAt, clock - Window)
    <3>1. A \subseteq B
      <4> SUFFICES ASSUME NEW u \in Successful, StartedAt[u] > clock - Window
                   PROVE  EndedAt[u] > clock - Window
        BY <2>7 DEF Younger
      <4>1. u \in Requests /\ status[u].start <= status[u].end  BY <1>o DEF Successful
      <4> QED  BY <1>s, <1>n, <4>1
    <3>2. IsFiniteSet(B)  BY <1>i, YoungerIsFinite DEF Times
    <3>3. Cardinality(B) < Limit  BY <1>o, <2>1 DEF SucceededAfter
    <3> HIDE DEF A, B
    <3>4. Cardinality(A) <= Cardinality(B) /\ Cardinality(A) \in Nat /\ Cardinality(B) \in Nat
      BY <3>1, <3>2, CardMono
    <3>5. Cardinality(A) < Limit  BY <3>3, <3>4
    <3> QED  BY <3>5 DEF A
  <2>11. WindowHolds(Limit, Window, Served', StartedAt')
    BY <1>w, <2>8, <2>9, <2>10, WindowGrows
  <2>12. OneByOne'
    <3>1. \A p, q \in Flying' : p = q  BY <1>f, <2>6
    <3>2. \A u \in Requests :
              /\ status'[u].stage \in {"serving", "success"} => status'[u].start <= clock
              /\ status'[u].stage = "success" => status'[u].start <= status'[u].end
              /\ status'[u].stage # "checked"
      <4>1. \A u \in Requests : u # r => status[u].stage # "checked"
        BY <1>f, <2>6 DEF Flying
      <4> QED  BY <1>s, <1>o, <2>5, <4>1
    <3> QED  BY <2>1, <3>1, <3>2 DEF OneByOne
  <2>13. ListLives'  BY <1>s, <1>l, <2>1, <2>3 DEF ListLives
  <2> QED  BY <2>1, <2>3, <2>4, <2>5, <2>11, <2>12, <2>13 DEF SerialInv
<1>4. ASSUME NEW r \in Requests, ModelAlone!Finish(r) PROVE SerialInv'
  <2>1. status[r].stage = "serving" /\ clock' = clock
    BY <1>4 DEF ModelAlone!Finish, ModelAlone!At
  <2>2. r \in Flying  BY <2>1 DEF Flying
  <2>3. PICK s \in {"success", "failure"} :
            /\ status' = [status EXCEPT ![r].stage = s, ![r].end = clock]
            /\ s = "success" => ModelAlone!RecordSuccess
            /\ s = "failure" => successes' = successes /\ successesExpire' = successesExpire
    BY <1>4 DEF ModelAlone!Finish
  <2>4. s \in Stages  BY DEF Stages
  <2>5. Becomes(r, s, status[r].counted, status[r].start, clock)
    BY <1>s, <2>1, <2>3, <2>4, Finished
  <2>6. /\ StatusOK' /\ status'[r].stage = s /\ status'[r].end = clock
        /\ status'[r].start = status[r].start
        /\ \A u \in Requests : u # r => status'[u] = status[u]
    BY <2>5 DEF Becomes
  <2>7. Flying' = {}
    <3>1. \A u \in Requests : u # r => ~(status[u].stage = "checked" \/ status[u].stage = "serving")
      BY <1>f, <2>2 DEF Flying
    <3> QED  BY <2>6, <3>1 DEF Flying
  <2>8. OneByOne'
    <3>1. \A u \in Requests : status'[u].stage # "checked"  BY <2>7 DEF Flying
    <3>2. \A u \in Requests :
              /\ status'[u].stage \in {"serving", "success"} => status'[u].start <= clock
              /\ status'[u].stage = "success" => status'[u].start <= status'[u].end
      BY <1>o, <2>1, <2>6
    <3> QED  BY <2>1, <2>7, <3>1, <3>2 DEF OneByOne
  <2>9. WindowHolds(Limit, Window, Served', StartedAt')
    <3>1. Served' \subseteq Served /\ Served \subseteq Requests  BY <2>1, <2>6 DEF Served
    <3>2. StartedAt' = StartedAt  BY <2>6 DEF StartedAt
    <3>3. \A u \in Served' : StartedAt'[u] = StartedAt[u]  BY <3>2
    <3> QED  BY <1>w, <3>1, <3>3, WindowShrinks
  <2>10. CASE s = "success"
    <3>1. /\ successes' = (IF Len(Append(successes, clock)) <= Limit
                           THEN Append(successes, clock)
                           ELSE SubSeq(Append(successes, clock),
                                       Len(Append(successes, clock)) - Limit + 1,
                                       Len(Append(successes, clock))))
          /\ successesExpire' = clock + Window
      BY <2>3, <2>10 DEF ModelAlone!RecordSuccess
    <3>2. Adds(Successful, EndedAt, clock, r, Successful', EndedAt')
      BY <1>s, <2>1, <2>5, <2>10, SuccessAdds
    <3>3. KeyInv(Limit, Window, successes', clock, Successful', EndedAt')
      BY <1>k, <3>1, <3>2, KeyRecords
    <3>4. ListLives'
      <4>1. successesExpire' \in Nat /\ successesExpire' # 0  BY <1>s, <3>1
      <4>2. ASSUME NEW u \in Successful'
            PROVE  successesExpire' >= status'[u].end + Window
        <5>1. u \in Requests /\ status'[u].end \in Nat  BY <2>6 DEF Successful, StatusOK
        <5>2. status'[u].end <= clock
          <6>1. EndedAt'[u] <= clock /\ EndedAt'[u] = status'[u].end
            BY <3>3, <5>1 DEF KeyInv, Times, EndedAt
          <6> QED  BY <6>1
        <5> QED  BY <1>s, <3>1, <5>1, <5>2
      <4> QED  BY <4>1, <4>2 DEF ListLives
    <3> QED  BY <2>1, <2>6, <2>8, <2>9, <3>3, <3>4 DEF SerialInv
  <2>11. CASE s = "failure"
    <3>1. successes' = successes /\ successesExpire' = successesExpire  BY <2>3, <2>11
    <3>2. /\ Successful' = Successful
          /\ \A u \in Successful : EndedAt'[u] = EndedAt[u] /\ status'[u] = status[u]
          /\ EndedAt' \in [Requests -> Nat]
      BY <1>s, <2>1, <2>4, <2>5, <2>11, SuccessesStay
    <3>3. KeyInv(Limit, Window, successes, clock, Successful, EndedAt')
      BY <1>k, <3>2, KeySame
    <3>4. ListLives'  BY <1>s, <1>l, <2>1, <3>1, <3>2 DEF ListLives
    <3> QED  BY <2>1, <2>6, <2>8, <2>9, <3>1, <3>2, <3>3, <3>4 DEF SerialInv
  <2> QED  BY <2>10, <2>11
<1>5. ASSUME ModelAlone!clearExpiredItems
             \/ \E r \in Requests : ModelAlone!MemoryTotal(r) \/ ModelAlone!MemoryCheck(r)
      PROVE  FALSE
  BY <1>5 DEF ModelAlone!clearExpiredItems, ModelAlone!MemoryTotal, ModelAlone!MemoryCheck
<1> QED  BY <1>1, <1>2, <1>3, <1>4, <1>5 DEF ModelAlone!Next

LEMMA SerialHolds == SerialInv => ModelAlone!SuccessWithinWindow
<1> USE LimitsAssumption
<1> SUFFICES ASSUME SerialInv,
                    NEW W \in SUBSET ModelAlone!Succeeded, Cardinality(W) = Limit + 1
             PROVE  \E p, q \in W : status[q].start - status[p].start >= Window
  BY SameCardinality DEF ModelAlone!SuccessWithinWindow, ModelAlone!SpreadOut,
     ModelAlone!kSubset, ModelAlone!start
<1>s. StatusOK  BY DEF SerialInv
<1>t. /\ Served \subseteq Requests /\ StartedAt \in [Requests -> Nat]
      /\ \A r \in Requests : StartedAt[r] = status[r].start
  BY <1>s, TimesAreNat DEF Served
<1>1. W \subseteq Served  BY DEF ModelAlone!Succeeded, ModelAlone!At, Served
<1>2. WindowHolds(Limit, Window, Served, StartedAt)  BY DEF SerialInv
<1>3. Limit \in Nat /\ Limit + 1 \in Nat /\ Limit + 1 > Limit  OBVIOUS
<1>4. \E p, q \in W : StartedAt[q] - StartedAt[p] >= Window
  BY <1>t, <1>1, <1>2, <1>3, WindowSpreads
<1> QED  BY <1>t, <1>1, <1>4

(***************************************************************************)
(* With Redis, requests at once                                            *)
(***************************************************************************)

(* The arithmetic of the token bucket: a window of w, a limit of l, and k  *)
(* requests since a, the last of them at most d later.                     *)
LEMMA Distributes ==
    ASSUME NEW l \in Int, NEW x \in Int, NEW y \in Int
    PROVE  l * (x + y) = l * x + l * y /\ l * x \in Int /\ l * y \in Int /\ l * x = x * l
  OBVIOUS

LEMMA ProductGrows ==
    ASSUME NEW l \in Nat, NEW x \in Int, NEW y \in Int, x <= y
    PROVE  l * x <= l * y /\ l * x \in Int /\ l * y \in Int
<1>1. y - x \in Nat  OBVIOUS
<1>2. l * (y - x) >= 0  BY <1>1
<1>3. y = x + (y - x)  OBVIOUS
<1>4. l * y = l * x + l * (y - x)  BY <1>3, Distributes
<1> QED  BY <1>2, <1>4

LEMMA BucketTakes ==
    ASSUME NEW w \in Nat, NEW l \in Nat, NEW cap \in Nat, NEW k \in Nat, NEW k2 \in Nat,
           NEW tok \in Nat, NEW ref \in Nat, NEW tok2 \in Nat,
           NEW d \in Nat, NEW e \in Nat,
           w * k + tok <= cap + l * d, ref <= tok + e * l,
           \/ k2 <= k + 1 /\ tok2 = ref - w
           \/ k2 <= k /\ tok2 = ref
    PROVE  w * k2 + tok2 <= cap + l * (d + e)
<1>1. l * (d + e) = l * d + l * e /\ l * e = e * l /\ l * d \in Int /\ l * e \in Int
  BY Distributes
<1>2. w * k + ref <= cap + l * (d + e)
  <2> DEFINE p == w * k
             q == l * d
             z == l * e
  <2>1. p \in Int /\ q \in Int /\ z \in Int  OBVIOUS
  <2>2. p + tok <= cap + q /\ ref <= tok + z /\ l * (d + e) = q + z  BY <1>1
  <2> HIDE DEF p, q, z
  <2>3. p + ref <= cap + l * (d + e)  BY <2>1, <2>2
  <2> QED  BY <2>3 DEF p
<1>3. w * k2 + tok2 <= w * k + ref
  <2>1. CASE k2 <= k + 1 /\ tok2 = ref - w
    <3>1. w * k2 <= w * (k + 1) /\ w * k2 \in Int  BY <2>1, ProductGrows
    <3>2. w * (k + 1) = w * k + w * 1 /\ w * k \in Int  BY Distributes
    <3> QED  BY <2>1, <3>1, <3>2
  <2>2. CASE k2 <= k /\ tok2 = ref
    <3>1. w * k2 <= w * k /\ w * k2 \in Int /\ w * k \in Int  BY <2>2, ProductGrows
    <3> QED  BY <2>2, <3>1
  <2> QED  BY <2>1, <2>2
<1> DEFINE a == w * k2
           b == w * k
           c == l * (d + e)
<1>4. a \in Int /\ b \in Int /\ c \in Int  OBVIOUS
<1>5. b + ref <= cap + c /\ a + tok2 <= b + ref  BY <1>2, <1>3
<1> HIDE DEF a, b, c
<1>6. a + tok2 <= cap + c  BY <1>4, <1>5
<1> QED  BY <1>6 DEF a, c

(* The first request at a time after the bucket was last used.             *)
LEMMA BucketOpens ==
    ASSUME NEW w \in Nat, NEW l \in Nat, NEW cap \in Nat, NEW k2 \in Nat,
           NEW ref \in Nat, NEW tok2 \in Nat, NEW d \in Nat, ref <= cap,
           \/ k2 <= 1 /\ tok2 = ref - w
           \/ k2 <= 0 /\ tok2 = ref
    PROVE  w * k2 + tok2 <= cap + l * d
<1>1. l * d >= 0 /\ l * d \in Int
  <2>1. l * 0 <= l * d  BY ProductGrows
  <2> QED  BY <2>1
<1>2. w * k2 + tok2 <= ref
  <2>1. CASE k2 <= 1 /\ tok2 = ref - w
    <3>1. w * k2 <= w * 1 /\ w * k2 \in Int  BY <2>1, ProductGrows
    <3> QED  BY <2>1, <3>1
  <2>2. CASE k2 <= 0 /\ tok2 = ref
    <3>1. k2 = 0  BY <2>2
    <3> QED  BY <2>2, <3>1
  <2> QED  BY <2>1, <2>2
<1> DEFINE a == w * k2
           b == l * d
<1>3. a \in Int /\ b \in Int /\ b >= 0 /\ a + tok2 <= ref  BY <1>1, <1>2
<1> HIDE DEF a, b
<1>4. a + tok2 <= cap + b  BY <1>3
<1> QED  BY <1>4 DEF a, b

(* In one window of w: fewer than twice the limit.                         *)
LEMMA BucketBounds ==
    ASSUME NEW w \in Nat \ {0}, NEW l \in Nat \ {0}, NEW k \in Nat, NEW tok \in Nat,
           NEW d \in Nat, d < w, w * k + tok <= l * w + l * d
    PROVE  k <= 2 * l - 1
<1>1. l * d <= l * (w - 1) /\ l * d \in Int /\ l * (w - 1) \in Int
  <2>1. d <= w - 1 /\ w - 1 \in Int  OBVIOUS
  <2> QED  BY <2>1, ProductGrows
<1>2. l * (w - 1) = l * w + l * (-1) /\ l * w \in Int
  <2>1. w - 1 = w + (-1)  OBVIOUS
  <2> QED  BY <2>1, Distributes
<1>3. l * (-1) = -l  OBVIOUS
<1>4. w * k < 2 * (l * w)
  <2> DEFINE p == w * k
             q == l * w
             z == l * d
             y == l * (w - 1)
  <2>1. p \in Int /\ q \in Int /\ z \in Int /\ y \in Int  BY <1>1, <1>2
  <2>2. p + tok <= q + z /\ z <= y /\ y = q + (-l)  BY <1>1, <1>2, <1>3
  <2> HIDE DEF p, q, z, y
  <2>3. p < 2 * q  BY <2>1, <2>2
  <2> QED  BY <2>3 DEF p, q
<1> SUFFICES ASSUME k >= 2 * l PROVE FALSE
  OBVIOUS
<1>5. w * (2 * l) <= w * k /\ w * (2 * l) \in Int /\ w * k \in Int  BY ProductGrows
<1>6. w * (2 * l) = 2 * (l * w)  OBVIOUS
<1> QED  BY <1>4, <1>5, <1>6

LEMMA SmallerOf ==
    ASSUME NEW x \in Nat, NEW y \in Nat
    PROVE  /\ Model!Min({x, y}) \in Nat
           /\ Model!Min({x, y}) <= x /\ Model!Min({x, y}) <= y
<1>1. \E z \in {x, y} : \A u \in {x, y} : z <= u  OBVIOUS
<1>2. Model!Min({x, y}) = CHOOSE z \in {x, y} : \A u \in {x, y} : z <= u  BY DEF Model!Min
<1>3. Model!Min({x, y}) \in {x, y} /\ \A u \in {x, y} : Model!Min({x, y}) <= u
  BY <1>1, <1>2
<1> QED  BY <1>3

CountedAfter(a) == Cardinality(Younger(CountedOnes, CountedAt, a))

BucketInv ==
    /\ StatusOK /\ tokens \in Nat /\ lastTime \in Nat /\ lastTime <= clock
    /\ \A r \in Requests :
          /\ status[r].counted <= lastTime
          /\ status[r].stage \in {"new", "checked"} => status[r].counted = 0
    /\ \A a \in Nat : a < lastTime =>
          Window * CountedAfter(a) + tokens <= TotalLimit * Window + TotalLimit * (lastTime - 1 - a)
    /\ WindowHolds(2 * TotalLimit - 1, Window, CountedOnes, CountedAt)

LEMMA BucketStarts == Model!Init => BucketInv
<1> USE LimitsAssumption
<1> SUFFICES ASSUME Model!Init PROVE BucketInv
  OBVIOUS
<1>1. tokens = 0 /\ lastTime = 0  BY DEF Model!Init
<1>2. /\ StatusOK /\ clock = 1 /\ CountedOnes = {}
      /\ \A r \in Requests : status[r].counted = 0
  BY NoRequestsYet
<1>3. 2 * TotalLimit - 1 \in Nat  OBVIOUS
<1>4. WindowHolds(2 * TotalLimit - 1, Window, {}, CountedAt)  BY <1>3, NobodyInWindow
<1>5. \A a \in Nat : ~(a < lastTime)  BY <1>1
<1> QED  BY <1>1, <1>2, <1>4, <1>5 DEF BucketInv

(* The script of the bucket.                                               *)
LEMMA BucketAllow ==
    ASSUME BucketInv, NEW r \in Requests, Model!Allow(r) PROVE BucketInv'
<1> USE LimitsAssumption
<1>s. /\ StatusOK /\ clock \in Nat \ {0} /\ tokens \in Nat /\ lastTime \in Nat
      /\ lastTime <= clock
  BY DEF BucketInv, StatusOK
<1>c. \A u \in Requests :
          /\ status[u].counted <= lastTime
          /\ status[u].stage \in {"new", "checked"} => status[u].counted = 0
  BY DEF BucketInv
<1>w. WindowHolds(2 * TotalLimit - 1, Window, CountedOnes, CountedAt)  BY DEF BucketInv
<1>1. /\ status[r].stage = "checked" /\ clock' = clock /\ lastTime' = clock
      /\ \/ Model!Refilled >= Window /\ Model!LetIn(r) /\ tokens' = Model!Refilled - Window
         \/ ~(Model!Refilled >= Window) /\ Model!Move(r, "overTotal") /\ tokens' = Model!Refilled
  BY DEF Model!Allow, Model!At
<1> DEFINE ref == Model!Refilled
           cap == TotalLimit * Window
<1>2. /\ ref \in Nat /\ cap \in Nat /\ ref <= cap
      /\ lastTime # 0 => ref <= tokens + (clock - lastTime) * TotalLimit
  <2>0. cap \in Nat  OBVIOUS
  <2>1. CASE lastTime = 0
    <3>1. ref = cap  BY <2>1 DEF Model!Refilled, Model!Capacity
    <3> QED  BY <2>0, <2>1, <3>1
  <2>2. CASE lastTime # 0
    <3> DEFINE x == tokens + (clock - lastTime) * TotalLimit
    <3>1. x \in Nat
      <4>1. clock - lastTime \in Nat  BY <1>s
      <4>2. (clock - lastTime) * TotalLimit \in Nat  BY <4>1
      <4> QED  BY <1>s, <4>2
    <3>2. ref = Model!Min({cap, x})  BY <2>2 DEF Model!Refilled, Model!Capacity
    <3> HIDE DEF x, cap
    <3>3. ref \in Nat /\ ref <= cap /\ ref <= x  BY <2>0, <3>1, <3>2, SmallerOf
    <3> QED  BY <2>0, <3>3 DEF x
  <2> QED  BY <2>1, <2>2
<1>3. status[r].counted = 0  BY <1>c, <1>1
<1>n. CountedOnes \subseteq Requests /\ CountedAt \in [Requests -> Nat]
      /\ \A u \in Requests : CountedAt[u] = status[u].counted
  BY <1>s, TimesAreNat DEF CountedOnes
<1>m. Times(CountedOnes, CountedAt, lastTime)  BY <1>s, <1>c, <1>n DEF Times
<1> HIDE DEF ref, cap
(* What both outcomes share.                                               *)
<1>4. ASSUME \/ /\ \A x : CountedAfter(x)' <= CountedAfter(x) + 1
                /\ tokens' = ref - Window /\ ref >= Window
             \/ (\A x : CountedAfter(x)' <= CountedAfter(x)) /\ tokens' = ref,
             \A x : CountedAfter(x) \in Nat /\ CountedAfter(x)' \in Nat
      PROVE  /\ tokens' \in Nat
             /\ \A a \in Nat : a < lastTime' =>
                   Window * CountedAfter(a)' + tokens' <= cap + TotalLimit * (lastTime' - 1 - a)
  <2>0. tokens' \in Nat  BY <1>2, <1>4
  <2> SUFFICES ASSUME NEW a \in Nat, a < clock
               PROVE  Window * CountedAfter(a)' + tokens' <= cap + TotalLimit * (clock - 1 - a)
    BY <1>1, <2>0
  <2> DEFINE k == CountedAfter(a)
             k2 == CountedAfter(a)'
  <2>k. k \in Nat /\ k2 \in Nat
        /\ (\/ k2 <= k + 1 /\ tokens' = ref - Window
            \/ k2 <= k /\ tokens' = ref)
    BY <1>4
  <2>1. CASE a < lastTime
    <3>1. lastTime # 0 /\ lastTime - 1 - a \in Nat /\ clock - lastTime \in Nat
          /\ (lastTime - 1 - a) + (clock - lastTime) = clock - 1 - a
      BY <1>s, <2>1
    <3>2. Window * k + tokens <= cap + TotalLimit * (lastTime - 1 - a)
      BY <2>1 DEF BucketInv, cap
    <3>3. ref <= tokens + (clock - lastTime) * TotalLimit  BY <1>2, <3>1
    <3> DEFINE d == lastTime - 1 - a
               e == clock - lastTime
               tok2 == tokens'
    <3>4. /\ d \in Nat /\ e \in Nat /\ Window * k + tokens <= cap + TotalLimit * d
          /\ ref <= tokens + e * TotalLimit /\ d + e = clock - 1 - a
      BY <3>1, <3>2, <3>3
    <3> HIDE DEF k, k2, d, e, tok2
    <3>5. /\ tok2 \in Nat
          /\ (\/ k2 <= k + 1 /\ tok2 = ref - Window
              \/ k2 <= k /\ tok2 = ref)
      BY <2>0, <2>k DEF tok2
    <3>6. Window * k2 + tok2 <= cap + TotalLimit * (d + e)
      <4>1. Window \in Nat /\ TotalLimit \in Nat /\ cap \in Nat /\ ref \in Nat  BY <1>2
      <4> QED  BY <1>s, <2>k, <3>4, <3>5, <4>1, BucketTakes
    <3> QED  BY <3>4, <3>6 DEF k2, tok2
  <2>2. CASE ~(a < lastTime)
    <3>1. clock - 1 - a \in Nat  BY <1>s
    <3>2. k = 0
      <4>1. \A u \in CountedOnes : CountedAt[u] <= a  BY <1>s, <1>m, <2>2 DEF Times
      <4> QED  BY <1>m, <4>1, NoneYounger DEF CountedAfter
    <3> DEFINE d == clock - 1 - a
               tok2 == tokens'
    <3> HIDE DEF k, k2, d, tok2
    <3>3. /\ tok2 \in Nat
          /\ (\/ k2 <= 1 /\ tok2 = ref - Window
              \/ k2 <= 0 /\ tok2 = ref)
      BY <2>0, <2>k, <3>2 DEF tok2
    <3>4. Window \in Nat /\ TotalLimit \in Nat /\ cap \in Nat /\ ref \in Nat /\ ref <= cap
          /\ d \in Nat
      BY <1>2, <3>1 DEF d
    <3>5. Window * k2 + tok2 <= cap + TotalLimit * d  BY <2>k, <3>3, <3>4, BucketOpens
    <3> QED  BY <3>5 DEF k2, tok2, d
  <2> QED  BY <2>1, <2>2
<1>5. CASE Model!Refilled >= Window /\ Model!LetIn(r) /\ tokens' = Model!Refilled - Window
  <2>1. Becomes(r, "serving", clock, clock, status[r].end)
    <3>1. status' = [status EXCEPT ![r].stage = "serving", ![r].start = clock,
                                   ![r].counted = IF @ = 0 THEN clock ELSE @]
      BY <1>5 DEF Model!LetIn
    <3>2. Becomes(r, "serving", IF status[r].counted = 0 THEN clock ELSE status[r].counted,
                  clock, status[r].end)
      BY <1>s, <1>1, <3>1, GetsIn
    <3> QED  BY <1>3, <3>2
  <2>2. Adds(CountedOnes, CountedAt, clock, r, CountedOnes', CountedAt')
    BY <1>s, <1>3, <2>1, CountedGrows
  <2>3. \A x : /\ CountedAfter(x)' <= CountedAfter(x) + 1
               /\ CountedAfter(x) \in Nat /\ CountedAfter(x)' \in Nat
    BY <1>n, <2>2, YoungerAdds DEF CountedAfter
  <2>4. tokens' = ref - Window /\ ref >= Window  BY <1>5 DEF ref
  <2>5. /\ tokens' \in Nat
        /\ \A a \in Nat : a < lastTime' =>
              Window * CountedAfter(a)' + tokens' <= cap + TotalLimit * (lastTime' - 1 - a)
    BY <1>4, <2>3, <2>4
  <2>6. StatusOK' /\ \A u \in Requests :
                        /\ status'[u].counted <= clock
                        /\ status'[u].stage \in {"new", "checked"} => status'[u].counted = 0
    <3>1. \A u \in Requests : status[u].counted \in Nat  BY <1>s DEF StatusOK
    <3> QED  BY <1>s, <1>c, <2>1, <3>1 DEF Becomes
  <2>7. WindowHolds(2 * TotalLimit - 1, Window, CountedOnes', CountedAt')
    <3> DEFINE lim == 2 * TotalLimit - 1
    <3> SUFFICES ASSUME NEW a \in Nat
                 PROVE  Cardinality(Within(CountedOnes', CountedAt', a, a + Window)) <= lim
      BY DEF WindowHolds
    <3> DEFINE N == Within(CountedOnes', CountedAt', a, a + Window)
               O == Within(CountedOnes, CountedAt, a, a + Window)
    <3>n. /\ CountedOnes' \subseteq Requests /\ CountedAt' \in [Requests -> Nat]
          /\ \A u \in CountedOnes' : CountedAt'[u] \in Nat \ {0}
      <4>1. CountedOnes' \subseteq Requests /\ CountedAt' \in [Requests -> Nat]
        BY <1>n, <2>2 DEF Adds
      <4>2. \A u \in CountedOnes' : CountedAt'[u] # 0  BY DEF CountedOnes, CountedAt
      <4> QED  BY <4>1, <4>2
    <3>1. CASE r \in N
      <4>1. clock < a + Window /\ a <= clock  BY <2>2, <3>1 DEF Within, Adds
      (* The time before the window.                                       *)
      <4> DEFINE b == IF a = 0 THEN 0 ELSE a - 1
                 k == CountedAfter(b)'
                 d == clock - 1 - b
      <4>2. b \in Nat /\ b < clock /\ d \in Nat /\ d < Window  BY <1>s, <4>1
      <4>3. N \subseteq Younger(CountedOnes', CountedAt', b)
        <5> SUFFICES ASSUME NEW u \in CountedOnes', a <= CountedAt'[u] PROVE CountedAt'[u] > b
          BY DEF Within, Younger
        <5>1. CountedAt'[u] \in Nat \ {0}  BY <3>n
        <5> QED  BY <5>1
      <4>4. Window * k + tokens' <= cap + TotalLimit * d  BY <1>1, <2>5, <4>2
      <4>5. k \in Nat /\ tokens' \in Nat  BY <2>3, <2>5
      <4>6. IsFiniteSet(Younger(CountedOnes', CountedAt', b))  BY <3>n, YoungerIsFinite
      <4>7. Cardinality(N) <= k /\ Cardinality(N) \in Nat
        <5> HIDE DEF N, b
        <5> QED  BY <4>3, <4>6, CardMono DEF CountedAfter
      <4> HIDE DEF k, d, b, N
      <4> DEFINE tok2 == tokens'
      <4>8. Window * k + tok2 <= TotalLimit * Window + TotalLimit * d /\ tok2 \in Nat
        BY <4>4, <4>5 DEF cap
      <4> HIDE DEF tok2
      <4>9. k <= 2 * TotalLimit - 1  BY <4>2, <4>5, <4>8, BucketBounds
      <4>10. Cardinality(N) <= lim  BY <4>5, <4>7, <4>9
      <4> QED  BY <4>10 DEF N
    <3>2. CASE r \notin N
      <4>1. N \subseteq O /\ O \subseteq Requests  BY <1>n, <2>2, <3>2 DEF Within, Adds
      <4>2. Cardinality(O) <= lim  BY <1>w DEF WindowHolds
      <4> HIDE DEF N, O
      <4>3. IsFiniteSet(O)  BY <4>1, CardMono
      <4>4. Cardinality(N) <= Cardinality(O) /\ Cardinality(N) \in Nat /\ Cardinality(O) \in Nat
        BY <4>1, <4>3, CardMono
      <4>5. Cardinality(N) <= lim  BY <4>2, <4>4
      <4> QED  BY <4>5 DEF N
    <3> QED  BY <3>1, <3>2
  <2> QED  BY <1>s, <1>1, <2>5, <2>6, <2>7 DEF BucketInv, cap
<1>6. CASE Model!Move(r, "overTotal") /\ tokens' = Model!Refilled
  <2>1. Becomes(r, "overTotal", status[r].counted, status[r].start, status[r].end)
    <3>1. status' = [status EXCEPT ![r].stage = "overTotal"]  BY <1>6 DEF Model!Move
    <3>2. "overTotal" \in Stages  BY DEF Stages
    <3> QED  BY <1>s, <1>1, <3>1, <3>2, Moved
  <2>2. StatusOK' /\ \A u \in Requests : status'[u].counted = status[u].counted
    BY <2>1 DEF Becomes
  <2>3. CountedAt' = CountedAt /\ CountedOnes' = CountedOnes  BY <1>s, <2>2, CountedStays
  <2>4. \A x : CountedAfter(x)' = CountedAfter(x) /\ CountedAfter(x) \in Nat
    BY <1>n, <2>3, YoungerIsFinite DEF CountedAfter
  <2>5. \A x : CountedAfter(x)' <= CountedAfter(x) /\ CountedAfter(x)' \in Nat  BY <2>4
  <2>6. tokens' = ref  BY <1>6 DEF ref
  <2>7. /\ tokens' \in Nat
        /\ \A a \in Nat : a < lastTime' =>
              Window * CountedAfter(a)' + tokens' <= cap + TotalLimit * (lastTime' - 1 - a)
    BY <1>4, <2>4, <2>5, <2>6
  <2>8. \A u \in Requests :
            /\ status'[u].counted <= clock
            /\ status'[u].stage \in {"new", "checked"} => status'[u].counted = 0
    <3>1. \A u \in Requests : status[u].counted \in Nat  BY <1>s DEF StatusOK
    <3> QED  BY <1>s, <1>c, <2>1, <3>1 DEF Becomes
  <2> QED  BY <1>s, <1>w, <1>1, <2>2, <2>3, <2>7, <2>8 DEF BucketInv, cap
<1> QED  BY <1>1, <1>5, <1>6

(* The list of the successes never claims more than there were: from each  *)
(* entry on, there are as many successes as entries.                       *)
NotYounger(S, f, x) == {r \in S : f[r] >= x}

ListBacked ==
    /\ successes \in Seq(Nat) /\ Len(successes) <= Limit
    /\ Times(Successful, EndedAt, clock)
    /\ \A i \in 1..Len(successes) :
          /\ successes[i] <= clock
          /\ Cardinality(NotYounger(Successful, EndedAt, successes[i])) >= Len(successes) - i + 1

BusyInv == BucketInv /\ ListBacked

LEMMA BusyStarts == Model!Init => BusyInv
<1> SUFFICES ASSUME Model!Init PROVE ListBacked
  BY BucketStarts DEF BusyInv
<1> USE LimitsAssumption
<1>1. successes = <<>>  BY DEF Model!Init
<1>2. StatusOK /\ clock = 1 /\ Successful = {}  BY NoRequestsYet
<1>3. EndedAt \in [Requests -> Nat]  BY <1>2, TimesAreNat
<1> QED  BY <1>1, <1>2, <1>3 DEF ListBacked, Times

(* The entries of the list q2, counted from the end, are those of q one    *)
(* place on, and t.                                                        *)
PlacesOn(q2, q, t) ==
    \A i \in 1..Len(q2) :
        \/ i = Len(q2) /\ q2[i] = t
        \/ \E j \in 1..Len(q) : q2[i] = q[j] /\ Len(q) - j + 1 = Len(q2) - i

LEMMA PushPlaces ==
    ASSUME NEW q \in Seq(Nat), NEW t \in Nat
    PROVE  PlacesOn(Append(q, t), q, t)
<1> DEFINE m == Len(q)
           q2 == Append(q, t)
<1>1. /\ Len(q2) = m + 1 /\ q2[m + 1] = t /\ m \in Nat
      /\ \A i \in 1..m : q2[i] = q[i]
  BY AppendFacts
<1>2. Len(q) = m  OBVIOUS
<1> HIDE DEF m, q2
<1>3. ASSUME NEW i \in 1..(m + 1)
      PROVE  \/ i = m + 1 /\ q2[i] = t
             \/ \E j \in 1..m : q2[i] = q[j] /\ m - j + 1 = (m + 1) - i
  <2>1. CASE i = m + 1  BY <1>1, <2>1
  <2>2. CASE i \in 1..m
    <3>1. q2[i] = q[i] /\ m - i + 1 = (m + 1) - i  BY <1>1, <2>2
    <3> QED  BY <2>2, <3>1
  <2>3. i = m + 1 \/ i \in 1..m  BY <1>1
  <2> QED  BY <2>1, <2>2, <2>3
<1>4. PlacesOn(q2, q, t)  BY <1>1, <1>2, <1>3 DEF PlacesOn
<1> QED  BY <1>4 DEF q2

LEMMA ShiftPlaces ==
    ASSUME NEW q \in Seq(Nat), NEW t \in Nat, Len(q) # 0
    PROVE  /\ PlacesOn(Append(Tail(q), t), q, t)
           /\ Append(Tail(q), t) \in Seq(Nat) /\ Len(Append(Tail(q), t)) = Len(q)
<1> DEFINE m == Len(q)
           q2 == Append(Tail(q), t)
<1>0. m \in Nat \ {0} /\ Len(q) = m  OBVIOUS
<1>1. /\ Tail(q) \in Seq(Nat) /\ Len(Tail(q)) = m - 1
      /\ \A i \in 1..(m - 1) : Tail(q)[i] = q[i + 1]
  BY <1>0
<1>2. /\ q2 \in Seq(Nat) /\ Len(q2) = (m - 1) + 1 /\ q2[(m - 1) + 1] = t
      /\ \A i \in 1..(m - 1) : q2[i] = Tail(q)[i]
  BY <1>1, AppendFacts
<1>3. (m - 1) + 1 = m  BY <1>0
<1> HIDE DEF m, q2
<1>4. ASSUME NEW i \in 1..m
      PROVE  \/ i = m /\ q2[i] = t
             \/ \E j \in 1..m : q2[i] = q[j] /\ m - j + 1 = m - i
  <2>1. CASE i = m  BY <1>2, <1>3, <2>1
  <2>2. CASE i \in 1..(m - 1)
    <3>1. q2[i] = q[i + 1]  BY <1>1, <1>2, <2>2
    <3>2. i + 1 \in 1..m /\ m - (i + 1) + 1 = m - i  BY <1>0, <2>2
    <3> QED  BY <3>1, <3>2
  <2>3. i = m \/ i \in 1..(m - 1)  BY <1>0
  <2> QED  BY <2>1, <2>2, <2>3
<1>5. Len(q2) = m  BY <1>2, <1>3
<1>6. PlacesOn(q2, q, t)  BY <1>0, <1>4, <1>5 DEF PlacesOn
<1> QED  BY <1>0, <1>2, <1>5, <1>6 DEF q2

LEMMA ListRecords ==
    ASSUME ListBacked, StatusOK, NEW r \in Requests, clock' = clock,
           status[r].stage # "success",
           Adds(Successful, EndedAt, clock, r, Successful', EndedAt'),
           successes' = IF Len(Append(successes, clock)) <= Limit
                        THEN Append(successes, clock)
                        ELSE SubSeq(Append(successes, clock),
                                    Len(Append(successes, clock)) - Limit + 1,
                                    Len(Append(successes, clock)))
    PROVE  ListBacked'
<1> USE LimitsAssumption
<1> DEFINE q == successes
           q2 == successes'
           S == Successful
           S2 == Successful'
           f == EndedAt
           f2 == EndedAt'
<1>t. /\ q \in Seq(Nat) /\ Len(q) <= Limit /\ clock \in Nat /\ Times(S, f, clock)
      /\ Len(q) \in Nat
  BY DEF ListBacked, StatusOK
<1>b. \A j \in 1..Len(q) :
          q[j] <= clock /\ q[j] \in Nat /\ Cardinality(NotYounger(S, f, q[j])) >= Len(q) - j + 1
  <2>1. \A j \in 1..Len(q) : q[j] \in Nat  BY <1>t, ElementOfSeq
  <2> QED  BY <2>1 DEF ListBacked
<1>p. IF Len(q) < Limit THEN q2 = Append(q, clock)
      ELSE Len(q) = Limit /\ q2 = Append(Tail(q), clock)
  BY <1>t, SuccessRecorded
<1>a. Adds(S, f, clock, r, S2, f2)  OBVIOUS
<1>r. r \notin S  BY DEF Successful
<1>u. Times(S2, f2, clock)  BY <1>t, <1>a, AddsTimes
<1> HIDE DEF q, q2, S, S2, f, f2
<1>e. q2 \in Seq(Nat) /\ Len(q2) <= Limit /\ PlacesOn(q2, q, clock)
  <2>1. CASE Len(q) < Limit
    <3>1. q2 = Append(q, clock)  BY <1>p, <2>1
    <3>2. q2 \in Seq(Nat) /\ Len(q2) = Len(q) + 1  BY <1>t, <3>1, AppendFacts
    <3>3. PlacesOn(q2, q, clock)  BY <1>t, <3>1, PushPlaces
    <3>4. Len(q) + 1 <= Limit  BY <1>t, <2>1
    <3> QED  BY <3>2, <3>3, <3>4
  <2>2. CASE ~(Len(q) < Limit)
    <3>1. Len(q) = Limit /\ q2 = Append(Tail(q), clock)  BY <1>p, <2>2
    <3>2. Len(q) # 0  BY <3>1
    <3> QED  BY <1>t, <3>1, <3>2, ShiftPlaces
  <2> QED  BY <2>1, <2>2
<1>1. ASSUME NEW i \in 1..Len(q2)
      PROVE  q2[i] <= clock /\ Cardinality(NotYounger(S2, f2, q2[i])) >= Len(q2) - i + 1
  <2> DEFINE A == NotYounger(S2, f2, q2[i])
  <2>f. IsFiniteSet(A)
    <3>1. A \subseteq Requests  BY <1>u DEF NotYounger, Times
    <3> QED  BY <3>1, CardMono
  <2>r. q2[i] <= clock => r \in A  BY <1>a, <1>t DEF NotYounger, Adds
  <2>l. Len(q2) \in Nat  BY <1>e
  <2>1. CASE i = Len(q2) /\ q2[i] = clock
    <3>1. r \in A  BY <1>t, <2>1, <2>r
    <3> HIDE DEF A
    <3>2. Cardinality(A) \in Nat /\ Cardinality(A) # 0  BY <2>f, <3>1, FS_EmptySet, FS_CardinalityType
    <3>3. Cardinality(A) >= Len(q2) - i + 1  BY <2>1, <2>l, <3>2
    <3> QED  BY <1>t, <2>1, <3>3 DEF A
  <2>2. CASE \E j \in 1..Len(q) : q2[i] = q[j] /\ Len(q) - j + 1 = Len(q2) - i
    <3>1. PICK j \in 1..Len(q) : q2[i] = q[j] /\ Len(q) - j + 1 = Len(q2) - i  BY <2>2
    <3> DEFINE B == NotYounger(S, f, q[j])
    <3>2. q2[i] <= clock /\ Cardinality(B) >= Len(q) - j + 1  BY <1>b, <3>1
    <3>3. B \cup {r} \subseteq A
      <4>1. B \subseteq A  BY <1>a, <1>r, <3>1 DEF NotYounger, Adds
      <4> QED  BY <2>r, <3>2, <4>1
    <3>4. r \notin B  BY <1>r DEF NotYounger
    <3>5. IsFiniteSet(B)
      <4>1. B \subseteq Requests  BY <1>t DEF NotYounger, Times
      <4> QED  BY <4>1, CardMono
    <3> HIDE DEF A, B
    <3>6. /\ IsFiniteSet(B \cup {r}) /\ Cardinality(B \cup {r}) = Cardinality(B) + 1
          /\ Cardinality(B) \in Nat
      BY <3>4, <3>5, FS_AddElement, FS_CardinalityType
    <3>7. Cardinality(A) >= Cardinality(B) + 1 /\ Cardinality(A) \in Nat
      BY <2>f, <3>3, <3>6, CardMono
    <3>8. Cardinality(A) >= Len(q2) - i + 1  BY <1>t, <2>l, <3>1, <3>2, <3>6, <3>7
    <3> QED  BY <3>2, <3>8 DEF A
  <2> QED  BY <1>e, <2>1, <2>2 DEF PlacesOn
<1> QED  BY <1>e, <1>u, <1>1 DEF ListBacked, q2, S2, f2

(* A step that leaves the list and the successes alone.                    *)
LEMMA ListStays ==
    ASSUME ListBacked, successes' = successes, clock' = clock, Successful' = Successful,
           EndedAt' \in [Requests -> Nat], \A u \in Successful : EndedAt'[u] = EndedAt[u]
    PROVE  ListBacked'
<1>1. Times(Successful, EndedAt', clock)  BY DEF ListBacked, Times
<1>2. \A x : NotYounger(Successful, EndedAt', x) = NotYounger(Successful, EndedAt, x)
  BY DEF NotYounger
<1> QED  BY <1>1, <1>2 DEF ListBacked

(* A step that leaves the bucket and the counting alone.                   *)
LEMMA BucketStays ==
    ASSUME BucketInv, StatusOK', tokens' = tokens, lastTime' = lastTime,
           clock' \in Nat, clock <= clock',
           \A u \in Requests :
               /\ status'[u].counted = status[u].counted
               /\ status'[u].stage \in {"new", "checked"} => status[u].stage \in {"new", "checked"}
    PROVE  BucketInv'
<1>1. CountedAt' = CountedAt /\ CountedOnes' = CountedOnes
  BY CountedStays DEF BucketInv
<1>2. \A x : CountedAfter(x)' = CountedAfter(x)  BY <1>1 DEF CountedAfter
<1>3. lastTime <= clock'
  <2>1. lastTime \in Nat /\ clock \in Nat /\ lastTime <= clock  BY DEF BucketInv, StatusOK
  <2> QED  BY <2>1
<1>4. \A u \in Requests :
          /\ status'[u].counted <= lastTime
          /\ status'[u].stage \in {"new", "checked"} => status'[u].counted = 0
  BY DEF BucketInv
<1> QED  BY <1>1, <1>2, <1>3, <1>4 DEF BucketInv

(* The list is full and its oldest entry in the window: so are Limit       *)
(* successes.                                                              *)
LEMMA FullOfSuccesses ==
    ASSUME ListBacked, StatusOK, Len(successes) >= Limit, clock - successes[1] < Window
    PROVE  Cardinality({q \in Successful : clock - status[q].end < Window}) >= Limit
<1> USE LimitsAssumption
<1> DEFINE A == NotYounger(Successful, EndedAt, successes[1])
           B == {q \in Successful : clock - status[q].end < Window}
<1>t. /\ successes \in Seq(Nat) /\ Len(successes) \in Nat /\ 1 \in 1..Len(successes)
      /\ clock \in Nat /\ Successful \subseteq Requests
  BY DEF ListBacked, StatusOK, Successful
<1>1. successes[1] \in Nat  BY <1>t, ElementOfSeq
<1>2. Cardinality(A) >= Len(successes) - 1 + 1  BY <1>t DEF ListBacked
<1>3. A \subseteq B
  <2> SUFFICES ASSUME NEW u \in Successful, EndedAt[u] >= successes[1]
               PROVE  clock - status[u].end < Window
    BY DEF NotYounger
  <2>1. EndedAt[u] = status[u].end /\ status[u].end \in Nat
    BY <1>t DEF StatusOK, EndedAt
  <2> QED  BY <1>t, <1>1, <2>1
<1>4. B \subseteq Requests  BY <1>t
<1> HIDE DEF A, B
<1>5. IsFiniteSet(B)  BY <1>4, CardMono
<1>6. Cardinality(A) <= Cardinality(B) /\ Cardinality(A) \in Nat /\ Cardinality(B) \in Nat
  BY <1>3, <1>5, CardMono
<1>7. Cardinality(B) >= Limit  BY <1>t, <1>2, <1>6
<1> QED  BY <1>7 DEF B

LEMMA BusyStep ==
    ASSUME BusyInv, Model!Next PROVE BusyInv' /\ Model!RefusedAfterSuccesses
<1> USE LimitsAssumption
<1>i. BucketInv /\ ListBacked /\ StatusOK /\ clock \in Nat \ {0}
  BY DEF BusyInv, BucketInv, StatusOK
<1>n. EndedAt \in [Requests -> Nat]  BY <1>i, TimesAreNat
<1>q. ASSUME \A u \in Requests : status'[u].stage = "overSuccess" => status[u].stage = "overSuccess"
      PROVE  Model!RefusedAfterSuccesses
  BY <1>q DEF Model!RefusedAfterSuccesses, Model!At
<1>1. CASE Model!Tick
  <2>1. /\ clock' = clock + 1 /\ status' = status /\ tokens' = tokens /\ lastTime' = lastTime
        /\ successes' = <<>> \/ successes' = successes
    BY <1>1 DEF Model!Tick
  <2>2. clock' \in Nat \ {0} /\ clock <= clock' /\ StatusOK'  BY <1>i, <2>1 DEF StatusOK
  <2>3. BucketInv'  BY <1>i, <2>1, <2>2, BucketStays
  <2>4. Successful' = Successful /\ EndedAt' = EndedAt  BY <2>1 DEF Successful, EndedAt
  <2>5. Times(Successful, EndedAt, clock')
    <3>1. \A u \in Successful : EndedAt[u] \in Nat /\ EndedAt[u] <= clock
      BY <1>i DEF ListBacked, Times
    <3> QED  BY <1>i, <2>2, <3>1 DEF ListBacked, Times
  <2>7. ASSUME successes' = successes PROVE ListBacked'
    <3>1. \A i \in 1..Len(successes) : successes[i] <= clock'
      <4>1. successes \in Seq(Nat)  BY <1>i DEF ListBacked
      <4>2. \A i \in 1..Len(successes) : successes[i] \in Nat  BY <4>1, ElementOfSeq
      <4>3. \A i \in 1..Len(successes) : successes[i] <= clock  BY <1>i DEF ListBacked
      <4> QED  BY <1>i, <2>1, <4>2, <4>3
    <3> QED  BY <1>i, <2>4, <2>5, <2>7, <3>1 DEF ListBacked
  <2>8. Model!RefusedAfterSuccesses  BY <1>q, <2>1
  <2>9. ListBacked'
    <3>1. CASE successes' = <<>>  BY <2>4, <2>5, <3>1 DEF ListBacked
    <3> QED  BY <2>1, <2>7, <3>1
  <2> QED  BY <2>3, <2>8, <2>9 DEF BusyInv
<1>2. ASSUME NEW r \in Requests, Model!CheckSuccesses(r)
      PROVE  BusyInv' /\ Model!RefusedAfterSuccesses
  <2>1. /\ status[r].stage = "new" /\ clock' = clock /\ successes' = successes
        /\ tokens' = tokens /\ lastTime' = lastTime
        /\ \/ Model!SuccessLimitReached /\ Model!Move(r, "overSuccess")
           \/ Model!Move(r, "checked")
    BY <1>2 DEF Model!CheckSuccesses, Model!At
  <2>2. PICK s \in {"overSuccess", "checked"} :
            Model!Move(r, s) /\ (s = "overSuccess" => Model!SuccessLimitReached)
    BY <2>1
  <2>3. s \in Stages /\ s # "success"  BY DEF Stages
  <2>4. Becomes(r, s, status[r].counted, status[r].start, status[r].end)
    <3>1. status' = [status EXCEPT ![r].stage = s]  BY <2>2 DEF Model!Move
    <3> QED  BY <1>i, <2>1, <2>3, <3>1, Moved
  <2>5. /\ Successful' = Successful
        /\ \A u \in Successful : EndedAt'[u] = EndedAt[u]
        /\ EndedAt' \in [Requests -> Nat]
    BY <1>i, <2>1, <2>3, <2>4, SuccessesStay
  <2>6. ListBacked'  BY <1>i, <2>1, <2>5, ListStays
  <2>7. StatusOK' /\ \A u \in Requests :
            /\ status'[u].counted = status[u].counted
            /\ status'[u].stage \in {"new", "checked"} => status[u].stage \in {"new", "checked"}
    BY <2>1, <2>4 DEF Becomes
  <2>8. clock' \in Nat /\ clock <= clock'  BY <1>i, <2>1
  <2>9. BucketInv'  BY <1>i, <2>1, <2>7, <2>8, BucketStays
  <2>10. Model!RefusedAfterSuccesses
    <3>1. CASE s = "overSuccess"
      <4>1. Len(successes) >= Limit /\ clock - successes[1] < Window
        BY <2>2, <3>1 DEF Model!SuccessLimitReached
      <4>2. Cardinality({q \in Successful : clock - status[q].end < Window}) >= Limit
        BY <1>i, <4>1, FullOfSuccesses
      <4>3. Model!Succeeded = Successful  BY DEF Model!Succeeded, Model!At, Successful
      <4> QED  BY <4>2, <4>3, SameCardinality DEF Model!RefusedAfterSuccesses
    <3>2. CASE s = "checked"  BY <1>q, <2>4, <3>2 DEF Becomes
    <3> QED  BY <3>1, <3>2
  <2> QED  BY <2>6, <2>9, <2>10 DEF BusyInv
<1>3. ASSUME NEW r \in Requests, Model!Allow(r)
      PROVE  BusyInv' /\ Model!RefusedAfterSuccesses
  <2>1. /\ status[r].stage = "checked" /\ clock' = clock /\ successes' = successes
        /\ Model!LetIn(r) \/ Model!Move(r, "overTotal")
    BY <1>3 DEF Model!Allow, Model!At
  <2>2. BucketInv'  BY <1>i, <1>3, BucketAllow
  <2>3. \E s \in {"serving", "overTotal"} : \E c, b, e : Becomes(r, s, c, b, e)
    <3>1. CASE Model!LetIn(r)
      <4>1. status' = [status EXCEPT ![r].stage = "serving", ![r].start = clock,
                                     ![r].counted = IF @ = 0 THEN clock ELSE @]
        BY <3>1 DEF Model!LetIn
      <4>2. Becomes(r, "serving", IF status[r].counted = 0 THEN clock ELSE status[r].counted,
                    clock, status[r].end)
        BY <1>i, <2>1, <4>1, GetsIn
      <4> QED  BY <4>2
    <3>2. CASE Model!Move(r, "overTotal")
      <4>1. status' = [status EXCEPT ![r].stage = "overTotal"]  BY <3>2 DEF Model!Move
      <4>2. "overTotal" \in Stages  BY DEF Stages
      <4>3. Becomes(r, "overTotal", status[r].counted, status[r].start, status[r].end)
        BY <1>i, <2>1, <4>1, <4>2, Moved
      <4> QED  BY <4>3
    <3> QED  BY <2>1, <3>1, <3>2
  <2>s. PICK s \in {"serving", "overTotal"} : \E c, b, e : Becomes(r, s, c, b, e)  BY <2>3
  <2>4. PICK c, b, e : Becomes(r, s, c, b, e)  BY <2>s
  <2>5. s \in Stages /\ s # "success" /\ s # "overSuccess"  BY DEF Stages
  <2>6. /\ Successful' = Successful
        /\ \A u \in Successful : EndedAt'[u] = EndedAt[u]
        /\ EndedAt' \in [Requests -> Nat]
    BY <1>i, <2>1, <2>4, <2>5, SuccessesStay
  <2>7. ListBacked'  BY <1>i, <2>1, <2>6, ListStays
  <2>8. Model!RefusedAfterSuccesses  BY <1>q, <2>4, <2>5 DEF Becomes
  <2> QED  BY <2>2, <2>7, <2>8 DEF BusyInv
<1>4. ASSUME NEW r \in Requests, Model!Finish(r)
      PROVE  BusyInv' /\ Model!RefusedAfterSuccesses
  <2>1. /\ status[r].stage = "serving" /\ clock' = clock
        /\ tokens' = tokens /\ lastTime' = lastTime
    BY <1>4 DEF Model!Finish, Model!At
  <2>2. PICK s \in {"success", "failure"} :
            /\ status' = [status EXCEPT ![r].stage = s, ![r].end = clock]
            /\ s = "success" => Model!RecordSuccess
            /\ s = "failure" => successes' = successes
    BY <1>4 DEF Model!Finish
  <2>3. s \in Stages /\ s # "overSuccess"  BY DEF Stages
  <2>4. Becomes(r, s, status[r].counted, status[r].start, clock)
    BY <1>i, <2>1, <2>2, <2>3, Finished
  <2>5. StatusOK' /\ \A u \in Requests :
            /\ status'[u].counted = status[u].counted
            /\ status'[u].stage \in {"new", "checked"} => status[u].stage \in {"new", "checked"}
    BY <2>1, <2>4 DEF Becomes
  <2>6. clock' \in Nat /\ clock <= clock'  BY <1>i, <2>1
  <2>7. BucketInv'  BY <1>i, <2>1, <2>5, <2>6, BucketStays
  <2>8. Model!RefusedAfterSuccesses  BY <1>q, <2>3, <2>4 DEF Becomes
  <2>9. CASE s = "success"
    <3>1. successes' = IF Len(Append(successes, clock)) <= Limit
                       THEN Append(successes, clock)
                       ELSE SubSeq(Append(successes, clock),
                                   Len(Append(successes, clock)) - Limit + 1,
                                   Len(Append(successes, clock)))
      BY <2>2, <2>9 DEF Model!RecordSuccess
    <3>2. Adds(Successful, EndedAt, clock, r, Successful', EndedAt')
      BY <1>i, <2>1, <2>4, <2>9, SuccessAdds
    <3>3. status[r].stage # "success"  BY <2>1
    <3>4. ListBacked'  BY <1>i, <2>1, <3>1, <3>2, <3>3, ListRecords
    <3> QED  BY <2>7, <2>8, <3>4 DEF BusyInv
  <2>10. CASE s = "failure"
    <3>1. /\ Successful' = Successful
          /\ \A u \in Successful : EndedAt'[u] = EndedAt[u]
          /\ EndedAt' \in [Requests -> Nat]
      BY <1>i, <2>1, <2>3, <2>4, <2>10, SuccessesStay
    <3>2. ListBacked'  BY <1>i, <2>1, <2>2, <2>10, <3>1, ListStays
    <3> QED  BY <2>7, <2>8, <3>2 DEF BusyInv
  <2> QED  BY <2>9, <2>10
<1>5. ASSUME Model!clearExpiredItems
             \/ \E r \in Requests : Model!MemoryTotal(r) \/ Model!MemoryCheck(r)
      PROVE  FALSE
  BY <1>5 DEF Model!clearExpiredItems, Model!MemoryTotal, Model!MemoryCheck
<1> QED  BY <1>1, <1>2, <1>3, <1>4, <1>5 DEF Model!Next

LEMMA BusyHolds == BusyInv => Model!TotalWithinTwice
<1> USE LimitsAssumption
<1> SUFFICES ASSUME BusyInv,
                    NEW W \in SUBSET Model!Counted, Cardinality(W) = 2 * TotalLimit
             PROVE  \E p, q \in W : status[q].counted - status[p].counted >= Window
  BY SameCardinality DEF Model!TotalWithinTwice, Model!SpreadOut, Model!kSubset, Model!counted
<1>s. StatusOK  BY DEF BusyInv, BucketInv
<1>t. /\ CountedOnes \subseteq Requests /\ CountedAt \in [Requests -> Nat]
      /\ \A r \in Requests : CountedAt[r] = status[r].counted
  BY <1>s, TimesAreNat DEF CountedOnes
<1>1. W \subseteq CountedOnes  BY DEF Model!Counted, CountedOnes
<1> DEFINE lim == 2 * TotalLimit - 1
           k == 2 * TotalLimit
<1>2. WindowHolds(lim, Window, CountedOnes, CountedAt)  BY DEF BusyInv, BucketInv
<1>3. lim \in Nat /\ k \in Nat /\ k > lim /\ Cardinality(W) = k  OBVIOUS
<1> HIDE DEF lim, k
<1>4. \E p, q \in W : CountedAt[q] - CountedAt[p] >= Window
  BY <1>t, <1>1, <1>2, <1>3, WindowSpreads
<1> QED  BY <1>t, <1>1, <1>4

(***************************************************************************)
(* All limiters                                                            *)
(***************************************************************************)

LEMMA CodeSame == ASSUME CodeInv, UNCHANGED codeVars PROVE CodeInv'
<1>1. Sent' = Sent /\ Before' = Before  BY DEF codeVars, Sent, Before
<1>2. CodeTypeOK'  BY <1>1 DEF CodeInv, CodeTypeOK, codeVars
<1>3. CounterExpires'  BY <1>1 DEF CodeInv, CounterExpires, codeVars
<1>4. OneCounterBetween'  BY <1>1 DEF CodeInv, OneCounterBetween, codeVars
<1>5. Code!AtMostTwiceInWindow'
  BY DEF CodeInv, Code!AtMostTwiceInWindow, Code!Spread, codeVars
<1> QED  BY <1>2, <1>3, <1>4, <1>5 DEF CodeInv

LEMMA RedisSame == ASSUME RedisInv, UNCHANGED redisVars PROVE RedisInv'
  BY DEF RedisInv, redisVars

LEMMA AloneSame == ASSUME AloneInv, UNCHANGED redisVars PROVE AloneInv'
  BY DEF AloneInv, redisVars

LEMMA TimesSame ==
    ASSUME UNCHANGED modelVars
    PROVE  /\ CountedAt' = CountedAt /\ StartedAt' = StartedAt /\ EndedAt' = EndedAt
           /\ CountedOnes' = CountedOnes /\ StartedOnes' = StartedOnes
           /\ Successful' = Successful /\ Served' = Served /\ Flying' = Flying
           /\ StatusOK' = StatusOK
           /\ \A x : CountedAfter(x)' = CountedAfter(x)
           /\ \A x : Younger(Successful', EndedAt', x) = Younger(Successful, EndedAt, x)
<1>1. status' = status /\ clock' = clock  BY DEF modelVars
<1>2. CountedAt' = CountedAt /\ StartedAt' = StartedAt /\ EndedAt' = EndedAt
  BY <1>1 DEF CountedAt, StartedAt, EndedAt
<1>3. CountedOnes' = CountedOnes /\ StartedOnes' = StartedOnes
  BY <1>1 DEF CountedOnes, StartedOnes
<1>4. Successful' = Successful /\ Served' = Served /\ Flying' = Flying
  BY <1>1 DEF Successful, Served, Flying
<1>5. StatusOK' = StatusOK  BY <1>1 DEF StatusOK
<1>6. \A x : CountedAfter(x)' = CountedAfter(x)  BY <1>2, <1>3 DEF CountedAfter
<1> QED  BY <1>2, <1>3, <1>4, <1>5, <1>6

LEMMA MemorySame == ASSUME MemoryInv, UNCHANGED modelVars PROVE MemoryInv'
  BY TimesSame DEF MemoryInv, modelVars

LEMMA SerialSame == ASSUME SerialInv, UNCHANGED modelVars PROVE SerialInv'
<1>1. ListLives'  BY TimesSame DEF SerialInv, ListLives, modelVars
<1>2. OneByOne'
  <2>1. SucceededAfter(clock - Window)' = SucceededAfter(clock - Window)
    BY TimesSame DEF SucceededAfter, modelVars
  <2> QED  BY <2>1, TimesSame DEF SerialInv, OneByOne, modelVars
<1> QED  BY <1>1, <1>2, TimesSame DEF SerialInv, modelVars

LEMMA BusySame == ASSUME BusyInv, UNCHANGED modelVars PROVE BusyInv'
<1>1. BucketInv'  BY TimesSame DEF BusyInv, BucketInv, modelVars
<1>2. ListBacked'  BY TimesSame DEF BusyInv, ListBacked, modelVars
<1> QED  BY <1>1, <1>2 DEF BusyInv

(* What keeps the refusals just, whatever the durations are.               *)
RefusalInv ==
    /\ part = "redis" => RedisInv
    /\ part = "model" => BusyInv

LEMMA RefusalStarts == LimitsInit => RefusalInv
  BY RedisStarts, BusyStarts DEF LimitsInit, RefusalInv

LEMMA RefusalStep ==
    ASSUME RefusalInv, [LimitsNext]_allVars
    PROVE  /\ RefusalInv'
           /\ \/ /\ part = "redis" => Redis!RefusedOverLimit
                 /\ part = "model" => Model!RefusedAfterSuccesses
              \/ UNCHANGED <<redisVars, modelVars>>
<1>p. part' = part  BY DEF LimitsNext, allVars
<1>1. CASE part = "redis"
  <2>1. RedisInv  BY <1>1 DEF RefusalInv
  <2>2. CASE Redis!Next
    <3>1. RedisInv' /\ Redis!RefusedOverLimit  BY <2>1, <2>2, RedisStep
    <3> QED  BY <1>p, <1>1, <3>1 DEF RefusalInv
  <2>3. CASE UNCHANGED allVars
    <3>1. UNCHANGED redisVars /\ UNCHANGED modelVars  BY <2>3 DEF allVars
    <3>2. RedisInv'  BY <2>1, <3>1, RedisSame
    <3> QED  BY <1>p, <1>1, <3>1, <3>2 DEF RefusalInv
  <2> QED  BY <1>1, <2>2, <2>3 DEF LimitsNext
<1>2. CASE part = "model"
  <2>1. BusyInv  BY <1>2 DEF RefusalInv
  <2>2. CASE Model!Next
    <3>1. BusyInv' /\ Model!RefusedAfterSuccesses  BY <2>1, <2>2, BusyStep
    <3> QED  BY <1>p, <1>2, <3>1 DEF RefusalInv
  <2>3. CASE UNCHANGED allVars
    <3>1. UNCHANGED redisVars /\ UNCHANGED modelVars  BY <2>3 DEF allVars
    <3>2. BusyInv'  BY <2>1, <3>1, BusySame
    <3> QED  BY <1>p, <1>2, <3>1, <3>2 DEF RefusalInv
  <2> QED  BY <1>2, <2>2, <2>3 DEF LimitsNext
<1>3. CASE part # "redis" /\ part # "model"  BY <1>p, <1>3 DEF RefusalInv
<1> QED  BY <1>1, <1>2, <1>3

(* Nobody is refused without cause, for every limit, every duration and    *)
(* every number of requests at once: redisRateLimitHandler refuses only    *)
(* once maxRequestNum requests were admitted within the duration,          *)
(* whichever of its commands is lost, and checkRedisRateLimit only once    *)
(* successMaxCount requests succeeded within it.                           *)
THEOREM RefusalsStayJust == LimitsSpec => RefusalsAreJust
<1>1. LimitsInit => RefusalInv  BY RefusalStarts
<1>2. RefusalInv /\ [LimitsNext]_allVars => RefusalInv'  BY RefusalStep
<1>3. RefusalInv /\ [LimitsNext]_allVars =>
          [/\ part = "redis" => Redis!RefusedOverLimit
           /\ part = "model" => Model!RefusedAfterSuccesses]_<<redisVars, modelVars>>
  BY RefusalStep
<1> QED  BY <1>1, <1>2, <1>3, PTL DEF LimitsSpec, RefusalsAreJust

LimitsInv ==
    /\ RefusalInv /\ CodeInv
    /\ part = "redisAlone" => AloneInv
    /\ part = "modelAlone" => SerialInv
    /\ part = "modelMemory" => MemoryInv

LEMMA LimitsStart == LimitsInit => LimitsInv
  BY RefusalStarts, CodeStarts, AloneStarts, SerialStarts, MemoryStarts
     DEF LimitsInit, LimitsInv

LEMMA LimitsStep ==
    ASSUME WindowFits, LimitsInv, [LimitsNext]_allVars PROVE LimitsInv'
<1>p. part' = part  BY DEF LimitsNext, allVars
<1>1. RefusalInv'  BY RefusalStep DEF LimitsInv
<1>2. CodeInv'
  <2>1. Code!Next \/ UNCHANGED codeVars  BY DEF LimitsNext, allVars
  <2> QED  BY <2>1, CodeStep, CodeSame DEF LimitsInv
<1>3. ASSUME part = "redisAlone" PROVE AloneInv'
  <2>1. RedisAlone!Next \/ UNCHANGED redisVars  BY <1>3 DEF LimitsNext, allVars
  <2> QED  BY <1>3, <2>1, AloneStep, AloneSame DEF LimitsInv
<1>4. ASSUME part = "modelAlone" PROVE SerialInv'
  <2>1. ModelAlone!Next \/ UNCHANGED modelVars  BY <1>4 DEF LimitsNext, allVars
  <2> QED  BY <1>4, <2>1, SerialStep, SerialSame DEF LimitsInv
<1>5. ASSUME part = "modelMemory" PROVE MemoryInv'
  <2>1. ModelMemory!Next \/ UNCHANGED modelVars  BY <1>5 DEF LimitsNext, allVars
  <2> QED  BY <1>5, <2>1, MemoryStep, MemorySame DEF LimitsInv
<1> QED  BY <1>p, <1>1, <1>2, <1>3, <1>4, <1>5 DEF LimitsInv

(* How far each limiter can be exceeded, and no further, for every limit,  *)
(* every number of requests and every duration that is not longer than the *)
(* life of an unused key: redisRateLimitHandler and the limits of a        *)
(* model's successes and total hold in every window, the fixed windows of  *)
(* redisEmailVerificationRateLimiter admit at most twice the limit, and    *)
(* the token bucket of rate_limit.lua fewer than twice.                    *)
THEOREM LimitsStayTrue == WindowFits => (LimitsSpec => []LimitsHold)
<1> SUFFICES ASSUME WindowFits PROVE LimitsSpec => []LimitsHold
  OBVIOUS
<1>1. LimitsInit => LimitsInv  BY LimitsStart
<1>2. LimitsInv /\ [LimitsNext]_allVars => LimitsInv'  BY LimitsStep
<1>3. LimitsInv => LimitsHold
  BY AloneHolds, CodeHolds, BusyHolds, SerialHolds, MemoryHolds
     DEF LimitsInv, RefusalInv, LimitsHold
<1> QED  BY <1>1, <1>2, <1>3, PTL DEF LimitsSpec
================================================================================
