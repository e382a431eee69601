---------------------------- MODULE Subscription ----------------------------
(***************************************************************************)
(* Subscription quota as relay billing uses it (model/subscription.go):    *)
(* the rows of user_subscriptions, their periodic reset and expiry, and    *)
(* the pre-consume records that make a refund repeatable.                  *)
(*                                                                         *)
(* Each operator that changes a row is one transaction; the row lock the   *)
(* code asks for in it (gorm:query_option) is taken at its word here;      *)
(* SubscriptionRow shows what happens without it.                          *)
(***************************************************************************)
EXTENDS Integers, FiniteSets, Functions

CONSTANTS Requests,      \* request ids
          Subs,          \* user_subscriptions.id, numbered by end_time
          SubOwner,      \* user_subscriptions.user_id
          AmountTotal,   \* user_subscriptions.amount_total, 0: no limit
          MaxPeriods     \* bound on ends of reset periods

ASSUME SubscriptionConstants ==
    /\ IsFiniteSet(Requests)
    /\ Subs \subseteq Nat \ {0}
    /\ DOMAIN SubOwner = Subs
    /\ AmountTotal \in [Subs -> Nat]
    /\ MaxPeriods \in Nat

VARIABLES used,      \* amount_used
          active,    \* subscriptions that are active and not past end_time
          due,       \* subscriptions whose next_reset_time has passed
          periods,   \* ends of reset periods so far
          record,    \* the SubscriptionPreConsumeRecord of a request
          since      \* history: what a request took from a subscription
                     \* since its last reset

subVars == <<used, active, due, periods, record, since>>

NoRecord == [status |-> "none", sub |-> 0, amount |-> 0]

SubscriptionInit ==
    /\ used = [s \in Subs |-> 0]
    /\ active = Subs
    /\ due = {}
    /\ periods = 0
    /\ record = [r \in Requests |-> NoRecord]
    /\ since = [s \in Subs |-> [r \in Requests |-> 0]]

SubscriptionTypeOK ==
    /\ used \in [Subs -> Nat]
    /\ active \subseteq Subs
    /\ due \subseteq Subs
    /\ periods \in 0 .. MaxPeriods
    /\ record \in [Requests -> [status : {"none", "consumed", "refunded"},
                                sub : Subs \cup {0}, amount : Nat]]
    /\ since \in [Subs -> [Requests -> Int]]

-----------------------------------------------------------------------------
(* Time.                                                                   *)

(* A reset period ends: next_reset_time is now in the past.                *)
PeriodEnds(s) ==
    /\ s \in active \ due
    /\ periods < MaxPeriods
    /\ due' = due \cup {s}
    /\ periods' = periods + 1
    /\ UNCHANGED <<used, active, record, since>>

(* ExpireDueSubscriptions, or an administrator ends the subscription.      *)
Expire(s) ==
    /\ s \in active
    /\ active' = active \ {s}
    /\ UNCHANGED <<used, due, periods, record, since>>

(* amount_used and the history after the due ones of S have been reset.    *)
usedAfterReset(S) == [s \in Subs |-> IF s \in S \cap due THEN 0 ELSE used[s]]

sinceAfterReset(S) ==
    [s \in Subs |-> IF s \in S \cap due THEN [r \in Requests |-> 0] ELSE since[s]]

(* The scan of the subscription task.                                      *)
ResetDueSubscriptions(s) ==
    /\ s \in active \cap due
    /\ used' = usedAfterReset({s})
    /\ since' = sinceAfterReset({s})
    /\ due' = due \ {s}
    /\ UNCHANGED <<active, periods, record>>

-----------------------------------------------------------------------------
(* Consumption.                                                            *)

ActiveOf(u) == {s \in active : SubOwner[s] = u}

HasActiveUserSubscription(u) == ActiveOf(u) # {}

(* Whether amount fits, after the reset if one is due.                     *)
HasRoom(s, amount) ==
    AmountTotal[s] > 0 => usedAfterReset({s})[s] + amount <= AmountTotal[s]

CanPreConsume(u, amount) == \E s \in ActiveOf(u) : HasRoom(s, amount)

(* The subscription that ends first among those with room.                 *)
Candidate(u, amount) ==
    CHOOSE s \in ActiveOf(u) : /\ HasRoom(s, amount)
                               /\ \A t \in ActiveOf(u) : HasRoom(t, amount) => s <= t

(* The loop resets every subscription it looks at; when none has room the  *)
(* transaction is rolled back, resets included.  Mutant: what is saved is  *)
(* the row as it was read before the reset.                                *)
PreConsumeUserSubscription_Stale(r, u, amount) ==
    LET s == Candidate(u, amount)
        looked == {t \in ActiveOf(u) : t <= s}
    IN  /\ CanPreConsume(u, amount)
        /\ used' = [usedAfterReset(looked) EXCEPT ![s] = used[s] + amount]
        /\ since' = [sinceAfterReset(looked) EXCEPT ![s][r] = @ + amount]
        /\ due' = due \ looked
        /\ record' = [record EXCEPT ![r] = [status |-> "consumed", sub |-> s, amount |-> amount]]
        /\ UNCHANGED <<active, periods>>

PreConsumeUserSubscription(r, u, amount) ==
    LET s == Candidate(u, amount)
        looked == {t \in ActiveOf(u) : t <= s}
    IN  /\ CanPreConsume(u, amount)
        /\ used' = [usedAfterReset(looked) EXCEPT ![s] = @ + amount]
        /\ since' = [sinceAfterReset(looked) EXCEPT ![s][r] = @ + amount]
        /\ due' = due \ looked
        /\ record' = [record EXCEPT ![r] = [status |-> "consumed", sub |-> s, amount |-> amount]]
        /\ UNCHANGED <<active, periods>>

(* amount_used after a change by d, never below zero.                      *)
NewUsed(s, d) == IF used[s] + d < 0 THEN 0 ELSE used[s] + d

CanPostConsume(s, d) == AmountTotal[s] > 0 => NewUsed(s, d) <= AmountTotal[s]

(* An expired subscription is still charged and refunded.                  *)
PostConsumeUserSubscriptionDelta(r, s, d) ==
    /\ CanPostConsume(s, d)
    /\ used' = [used EXCEPT ![s] = NewUsed(s, d)]
    /\ since' = [since EXCEPT ![s][r] = @ + d]
    /\ UNCHANGED <<active, due, periods>>

(* A record that is already refunded is left alone.                        *)
RefundSubscriptionPreConsume(r) ==
    \/ /\ record[r].status = "refunded"
       /\ UNCHANGED subVars
    \/ /\ record[r].status = "consumed"
       /\ PostConsumeUserSubscriptionDelta(r, record[r].sub, -record[r].amount)
       /\ record' = [record EXCEPT ![r].status = "refunded"]

(* The transaction of the record fails after that of the row, which is a   *)
(* transaction of its own, has been committed.                             *)
RefundHalfCommitted(r) ==
    /\ record[r].status = "consumed"
    /\ PostConsumeUserSubscriptionDelta(r, record[r].sub, -record[r].amount)
    /\ UNCHANGED record

-----------------------------------------------------------------------------
Positive(x) == IF x > 0 THEN x ELSE 0

(* A subscription is never used beyond its total, and what it shows as     *)
(* used is what requests took from it since its last reset.  It can show   *)
(* more than their balance only because amount_used stops at zero, when a  *)
(* refund of the previous period arrives in the new one; it never shows    *)
(* more than what the requests that still hold quota of this period took.  *)
SubscriptionBooks ==
    \A s \in Subs :
        /\ AmountTotal[s] > 0 => used[s] <= AmountTotal[s]
        /\ SumFunction(since[s]) <= used[s]
        /\ used[s] <= SumFunction([r \in Requests |-> Positive(since[s][r])])
=============================================================================
