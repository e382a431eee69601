----------------------------- MODULE WithdrawCooldown -----------------------------
(***************************************************************************)
(* The cooldown between two withdrawals of a user through the settlement   *)
(* provider (SubmitPiggyWithdrawOrder in service/piggy_withdraw.go).  The  *)
(* requests of the user come from several windows, or again from one that  *)
(* never saw the answer.  The cooldown is looked up first; the order is    *)
(* made later, in a transaction that locks the account.                    *)
(***************************************************************************)
EXTENDS Integers, Sequences

CONSTANTS
    Requests,           \* requests that can be under way together
    Cooldown,           \* CooldownMinutes; 0: none
    Commission,         \* what the user can withdraw, one unit per order
    MaxTime             \* bound of the clock

VARIABLES
    now, pc,
    commission,         \* wallet_accounts.commission_amount
    orders              \* withdraw_orders.created_at, in the order of creation

vars == <<now, pc, commission, orders>>

(* Fault: the bound of the lookup is off by the length of the cooldown.    *)
CooledDownAtOnce == \A i \in 1..Len(orders) : orders[i] <= now

(* getPiggyWithdrawCooldownRemaining is 0: no order is younger.            *)
CooledDown == \A i \in 1..Len(orders) : orders[i] <= now - Cooldown

Validate(r) ==
    /\ pc[r] = "idle" /\ CooledDown
    /\ pc' = [pc EXCEPT ![r] = "valid"]
    /\ UNCHANGED <<now, commission, orders>>

(* The profile or the contract does not allow it, the transaction fails,   *)
(* or the process dies.                                                    *)
Fail(r) ==
    /\ pc[r] = "valid"
    /\ pc' = [pc EXCEPT ![r] = "idle"]
    /\ UNCHANGED <<now, commission, orders>>

(* The transaction.                                                        *)
CreateOrder(r) ==
    /\ pc[r] = "valid" /\ commission > 0
    /\ pc' = [pc EXCEPT ![r] = "idle"]
    /\ commission' = commission - 1
    /\ orders' = Append(orders, now)
    /\ UNCHANGED now

Tick == now < MaxTime /\ now' = now + 1 /\ UNCHANGED <<pc, commission, orders>>

Init == now = 0 /\ pc = [r \in Requests |-> "idle"] /\ commission = Commission /\ orders = <<>>

Next == Tick \/ \E r \in Requests : Validate(r) \/ Fail(r) \/ CreateOrder(r)

Spec == Init /\ [][Next]_vars

(* Two orders of a user are at least the cooldown apart.                   *)
OrdersSpaced ==
    \A i, j \in 1..Len(orders) : i < j => orders[j] - orders[i] >= Cooldown
====================================================================================
