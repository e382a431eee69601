---------------------------- MODULE SubscriptionRow ----------------------------
(***************************************************************************)
(* One row of user_subscriptions between the read and the save of the      *)
(* transactions that change it (model/subscription.go).  They ask for the  *)
(* row lock with the option gorm:query_option, which the gorm of go.mod    *)
(* ignores, and save the whole row.  What the database does about two of   *)
(* them is a constant: SQLite fails the save of a row that was changed     *)
(* since it was read, MySQL and PostgreSQL let the last save win.  The     *)
(* choice among several subscriptions is in Subscription, which takes the  *)
(* lock at its word.                                                       *)
(***************************************************************************)
EXTENDS Integers, Functions

CONSTANTS Requests, Total, Amounts, MaxPeriods,
          Serial    \* the database fails a save of a stale row

VARIABLES
    row,        \* amount_used and the period at whose end it is reset
    period,     \* the current one
    pc,         \* per request
    amount,     \* what it pre-consumed, then what its settlement adds
    tx,         \* per request and for the task: its open transaction
    since       \* history: what a request took since the last reset

vars == <<row, period, pc, amount, tx, since>>

NoTx == [read |-> [used |-> 0, next |-> 0], save |-> [used |-> 0, next |-> 0], reset |-> FALSE]
Task == "resetTask"
Due(w) == w.next <= period

(* maybeResetUserSubscriptionWithPlanTx, on the copy.                      *)
MaybeReset(w) == IF Due(w) THEN [used |-> 0, next |-> period + 1] ELSE w

(* a has read the row and will save w.                                     *)
Open(a, w, reset) == tx' = [tx EXCEPT ![a] = [read |-> row, save |-> w, reset |-> reset]]

Stale(a) == Serial /\ row # tx[a].read

(* The transaction of a is committed, by which its request takes d.        *)
Commit(a, d) ==
    /\ ~Stale(a)
    /\ row' = tx[a].save
    /\ since' = LET s == IF tx[a].reset THEN [r \in Requests |-> 0] ELSE since
                IN  IF a \in Requests THEN [s EXCEPT ![a] = @ + d] ELSE s
    /\ tx' = [tx EXCEPT ![a] = NoTx]

(***************************************************************************)
(* A request                                                               *)
(***************************************************************************)

(* Fault: the row is charged as it was read, without the reset.            *)
PreConsumeUnreset(r) ==
    /\ pc[r] = "new"
    /\ \E a \in Amounts :
          /\ MaybeReset(row).used + a <= Total
          /\ amount' = [amount EXCEPT ![r] = a]
          /\ Open(r, [row EXCEPT !.used = @ + a], Due(row))
    /\ pc' = [pc EXCEPT ![r] = "pre"]
    /\ UNCHANGED <<row, period, since>>

(* PreConsumeUserSubscription reads the row and resets and charges its     *)
(* copy; it refuses what does not fit.                                     *)
PreConsumeReads(r) ==
    /\ pc[r] = "new"
    /\ \E a \in Amounts :
          /\ MaybeReset(row).used + a <= Total
          /\ amount' = [amount EXCEPT ![r] = a]
          /\ Open(r, [MaybeReset(row) EXCEPT !.used = @ + a], Due(row))
    /\ pc' = [pc EXCEPT ![r] = "pre"]
    /\ UNCHANGED <<row, period, since>>

PreConsumeSaves(r) ==
    /\ pc[r] = "pre" /\ Commit(r, amount[r])
    /\ pc' = [pc EXCEPT ![r] = "held"]
    /\ UNCHANGED <<period, amount>>

NewUsed(u, d) == IF u + d < 0 THEN 0 ELSE u + d

(* PostConsumeUserSubscriptionDelta, by a refund or a settlement that      *)
(* costs more; no reset here.                                              *)
PostConsumeReads(r) ==
    /\ pc[r] = "held"
    /\ \E d \in {-amount[r]} \cup Amounts :
          /\ NewUsed(row.used, d) <= Total
          /\ amount' = [amount EXCEPT ![r] = d]
          /\ Open(r, [row EXCEPT !.used = NewUsed(@, d)], FALSE)
    /\ pc' = [pc EXCEPT ![r] = "post"]
    /\ UNCHANGED <<row, period, since>>

PostConsumeSaves(r) ==
    /\ pc[r] = "post" /\ Commit(r, amount[r])
    /\ pc' = [pc EXCEPT ![r] = "done"]
    /\ UNCHANGED <<period, amount>>

(* The save of a stale row fails and the request goes without it.          *)
SaveFails(r) ==
    /\ pc[r] \in {"pre", "post"} /\ Stale(r)
    /\ pc' = [pc EXCEPT ![r] = "done"]
    /\ tx' = [tx EXCEPT ![r] = NoTx]
    /\ UNCHANGED <<row, period, amount, since>>

(***************************************************************************)
(* Time and the reset task                                                 *)
(***************************************************************************)

PeriodEnds ==
    /\ period < MaxPeriods /\ period' = period + 1
    /\ UNCHANGED <<row, pc, amount, tx, since>>

(* ResetDueSubscriptions.                                                  *)
ResetReads ==
    /\ tx[Task] = NoTx /\ Due(row)
    /\ Open(Task, MaybeReset(row), TRUE)
    /\ UNCHANGED <<row, period, pc, amount, since>>

ResetSaves ==
    /\ tx[Task] # NoTx
    /\ \/ Commit(Task, 0)
       \/ Stale(Task) /\ tx' = [tx EXCEPT ![Task] = NoTx] /\ UNCHANGED <<row, since>>
    /\ UNCHANGED <<period, pc, amount>>

Init ==
    /\ row = [used |-> 0, next |-> 1] /\ period = 0
    /\ pc = [r \in Requests |-> "new"] /\ amount = [r \in Requests |-> 0]
    /\ tx = [a \in Requests \cup {Task} |-> NoTx] /\ since = [r \in Requests |-> 0]

Next ==
    \/ \E r \in Requests :
          \/ PreConsumeReads(r) \/ PreConsumeSaves(r)
          \/ PostConsumeReads(r) \/ PostConsumeSaves(r) \/ SaveFails(r)
    \/ PeriodEnds \/ ResetReads \/ ResetSaves

Spec == Init /\ [][Next]_vars

(* What requests have taken since the last reset is in amount_used, so it  *)
(* stays within the total of the subscription.                             *)
TakenIsCounted == SumFunction(since) <= row.used /\ row.used <= Total
================================================================================
