--------------------------- MODULE WithdrawLedger ---------------------------
(***************************************************************************)
(* The commission side of the wallet (service/wallet.go, service/          *)
(* commission.go) and the withdraw_orders table (model/withdraw.go): the   *)
(* state every withdrawal channel shares, and the three money movements    *)
(* (freeze, release, pay out) that each channel performs inside one        *)
(* database transaction.                                                   *)
(*                                                                         *)
(* Amounts are in the units of WalletBalance.  The columns of an order     *)
(* that never change after the insert (user_id, amount, provider) are      *)
(* constants, so that a theorem about the specification holds for every    *)
(* assignment of them.                                                     *)
(***************************************************************************)
EXTENDS WalletBalance, FiniteSets

CONSTANTS Orders,           \* withdraw_orders.id
          Owner,            \* withdraw_orders.user_id
          Amount,           \* withdraw_orders.amount
          Provider,         \* withdraw_orders.provider
          Records,          \* commission_records.id
          Beneficiary,      \* commission_records.beneficiary_user_id
          RecordAmount,     \* commission_records.amount
          QiniuLifecycle    \* IsQiniuKeyLifecycleEnabled, and a managed key

ASSUME LedgerConstants ==
    /\ Owner \in [Orders -> Users]
    /\ Amount \in [Orders -> Nat \ {0}]
    /\ Provider \in [Orders -> {"manual", "piggy"}]
    /\ Beneficiary \in [Records -> Users]
    /\ RecordAmount \in [Records -> Nat \ {0}]
    /\ QiniuLifecycle \in BOOLEAN

VARIABLES commission,   \* wallet_accounts.commission_amount
          frozen,       \* wallet_accounts.frozen_commission_amount
          withdrawn,    \* wallet_accounts.total_withdraw_amount
          earned,       \* wallet_accounts.total_commission_amount
          transferred,  \* sum of the user's commission_to_balance flows
          granted,      \* sum of the user's commission_transfer quota grants
          rec,          \* commission_records.status
          status,       \* withdraw_orders.status
          flows         \* wallet_flows of withdrawals, by idempotency key

(* What a withdrawal can change in the wallet, and what it cannot.         *)
moneyVars  == <<commission, frozen, withdrawn, flows>>
incomeVars == <<earned, transferred, granted, rec, balanceVars>>
ledgerVars == <<moneyVars, incomeVars, status>>

Manual == {o \in Orders : Provider[o] = "manual"}
Piggy  == {o \in Orders : Provider[o] = "piggy"}

Statuses == {"none", "pending", "approved", "paid", "rejected", "failed",
             "submitted", "await_confirm", "confirming", "cancelling",
             "confirmed", "cancelled", "manual_review"}

(* The statuses of the manual channel, and the assignments of statuses to  *)
(* orders that keep the two channels apart.                                *)
ManualStatuses == {"none", "pending", "approved", "paid", "rejected", "failed"}

OrderStatuses ==
    {f \in [Orders -> Statuses] : \A o \in Manual : f[o] \in ManualStatuses}

FlowKinds == {"freeze", "success", "reject", "failed", "cancel"}

LedgerTypeOK ==
    /\ BalanceTypeOK
    /\ commission \in [Users -> Int]
    /\ frozen \in [Users -> Nat]
    /\ withdrawn \in [Users -> Nat]
    /\ earned \in [Users -> Nat]
    /\ transferred \in [Users -> Nat]
    /\ granted \in [Users -> Nat]
    /\ rec \in [Records -> {"none", "settled", "reversed"}]
    /\ status \in OrderStatuses
    /\ flows \subseteq FlowKinds \X Orders

LedgerInit ==
    /\ BalanceInit
    /\ commission = [u \in Users |-> 0]
    /\ frozen = [u \in Users |-> 0]
    /\ withdrawn = [u \in Users |-> 0]
    /\ earned = [u \in Users |-> 0]
    /\ transferred = [u \in Users |-> 0]
    /\ granted = [u \in Users |-> 0]
    /\ rec = [r \in Records |-> "none"]
    /\ status = [o \in Orders |-> "none"]
    /\ flows = {}

-----------------------------------------------------------------------------
(* createWalletFlowTx: a row is inserted unless its idempotency key exists *)
(* already, in which case the insert is silently skipped.                  *)
createWalletFlowTx(kind, o) == flows' = flows \cup {<<kind, o>>}

-----------------------------------------------------------------------------
(* Money movements of a withdrawal, each inside the transaction that also  *)
(* changes the order's status.                                             *)

(* Mutant: the available commission is not checked inside the transaction. *)
Freeze_Unchecked(o) ==
    /\ commission' = [commission EXCEPT ![Owner[o]] = @ - Amount[o]]
    /\ frozen' = [frozen EXCEPT ![Owner[o]] = @ + Amount[o]]
    /\ createWalletFlowTx("freeze", o)
    /\ UNCHANGED withdrawn

Freeze(o) ==
    /\ commission[Owner[o]] + Epsilon >= Amount[o]
    /\ commission' = [commission EXCEPT ![Owner[o]] = @ - Amount[o]]
    /\ frozen' = [frozen EXCEPT ![Owner[o]] = @ + Amount[o]]
    /\ createWalletFlowTx("freeze", o)
    /\ UNCHANGED withdrawn

Release(o, kind) ==
    /\ frozen' = [frozen EXCEPT ![Owner[o]] = Clamp(@ - Amount[o])]
    /\ commission' = [commission EXCEPT ![Owner[o]] = @ + Amount[o]]
    /\ createWalletFlowTx(kind, o)
    /\ UNCHANGED withdrawn

FrozenCovers(o) == frozen[Owner[o]] + Epsilon >= Amount[o]

(* Mutant: the success flow reuses the idempotency key of the freeze flow. *)
PayOut_FreezeKey(o) ==
    /\ FrozenCovers(o)
    /\ frozen' = [frozen EXCEPT ![Owner[o]] = Clamp(@ - Amount[o])]
    /\ withdrawn' = [withdrawn EXCEPT ![Owner[o]] = @ + Amount[o]]
    /\ createWalletFlowTx("freeze", o)
    /\ UNCHANGED commission

PayOut(o) ==
    /\ FrozenCovers(o)
    /\ frozen' = [frozen EXCEPT ![Owner[o]] = Clamp(@ - Amount[o])]
    /\ withdrawn' = [withdrawn EXCEPT ![Owner[o]] = @ + Amount[o]]
    /\ createWalletFlowTx("success", o)
    /\ UNCHANGED commission

NoMoney == UNCHANGED moneyVars

SetStatus(o, s) == status' = [status EXCEPT ![o] = s]

-----------------------------------------------------------------------------
(* Commission coming in, reversed, and moved to the spendable balance.     *)

(* createSettledCommissionTx + creditCommissionTx: one record per source,  *)
(* level and beneficiary, credited once.                                   *)
CreditCommission(r) ==
    /\ rec[r] = "none"
    /\ rec' = [rec EXCEPT ![r] = "settled"]
    /\ commission' = [commission EXCEPT ![Beneficiary[r]] = @ + RecordAmount[r]]
    /\ earned' = [earned EXCEPT ![Beneficiary[r]] = @ + RecordAmount[r]]
    /\ UNCHANGED <<frozen, withdrawn, transferred, granted, status, flows,
                   balanceVars>>

(* reverseCommissionsTx: the commission may become negative.               *)
ReverseCommission(r) ==
    /\ rec[r] = "settled"
    /\ rec' = [rec EXCEPT ![r] = "reversed"]
    /\ commission' = [commission EXCEPT ![Beneficiary[r]] = @ - RecordAmount[r]]
    /\ UNCHANGED <<frozen, withdrawn, earned, transferred, granted, status,
                   flows, balanceVars>>

TransferCommissionToBalance(u, a) ==
    /\ commission[u] + Epsilon >= a
    /\ commission' = [commission EXCEPT ![u] = @ - a]
    /\ creditTransferredCommission(u, a)
    /\ transferred' = [transferred EXCEPT ![u] = @ + a]
    /\ granted' = IF QiniuLifecycle
                  THEN [granted EXCEPT ![u] = @ + a] ELSE granted
    /\ UNCHANGED <<frozen, withdrawn, earned, rec, status, flows>>

WalletNext ==
    \/ \E r \in Records : CreditCommission(r) \/ ReverseCommission(r)
    \/ \E u \in Users, a \in TransferAmounts : TransferCommissionToBalance(u, a)

-----------------------------------------------------------------------------
(* What an order means for the money.  A manual order in status "failed"   *)
(* still holds its frozen commission (MarkWithdrawOrderFailed keeps it for *)
(* a retry); a piggy order in status "failed" has released it.             *)

Released(o) ==
    \/ status[o] \in {"rejected", "cancelled"}
    \/ status[o] = "failed" /\ o \in Piggy

Paid(o) == status[o] = "paid"

Held(o) == status[o] # "none" /\ ~Paid(o) /\ ~Released(o)

Phase(o) == IF status[o] = "none" THEN "none"
            ELSE IF Paid(o) THEN "paid"
            ELSE IF Released(o) THEN "released" ELSE "held"

(* A sum of amounts is the size of a set of coins: order o contributes the *)
(* coins <<o, 1>> .. <<o, Amount[o]>>.                                     *)
Coins(o) == {o} \X (1 .. Amount[o])

HeldCoins(u) == UNION {Coins(o) : o \in {p \in Orders : Owner[p] = u /\ Held(p)}}

PaidCoins(u) == UNION {Coins(o) : o \in {p \in Orders : Owner[p] = u /\ Paid(p)}}

RecordCoins(r) == {r} \X (1 .. RecordAmount[r])

ReversedCoins(u) ==
    UNION {RecordCoins(r) :
           r \in {q \in Records : Beneficiary[q] = u /\ rec[q] = "reversed"}}

-----------------------------------------------------------------------------
(* Every cent of frozen commission is owed to exactly the orders that are  *)
(* still open: frozen_commission_amount is their total, so neither the     *)
(* clamp at zero nor the insufficient-frozen error of a pay-out can ever   *)
(* lose or strand money.                                                   *)
FrozenBacked == \A u \in Users : frozen[u] = Cardinality(HeldCoins(u))

(* total_withdraw_amount is the total of the paid orders: no order is paid *)
(* out twice and none is paid without being counted.                       *)
WithdrawnIsPaid ==
    \A u \in Users : withdrawn[u] = Cardinality(PaidCoins(u))

(* Commission is neither created nor destroyed: what was ever earned, less *)
(* what was reversed, is available, frozen, withdrawn or transferred.      *)
CommissionConserved ==
    \A u \in Users :
        commission[u] + frozen[u] + withdrawn[u] + transferred[u]
            = earned[u] - Cardinality(ReversedCoins(u))

(* The flow table tells the same story as the order table: one freeze row  *)
(* for an order that exists, one success row for a paid one, exactly one   *)
(* of the reject / failed / cancel rows for a released one, and no row     *)
(* whose insert was skipped because an earlier one had taken its key.      *)
FlowsMatchOrders ==
    \A o \in Orders :
        /\ <<"freeze", o>> \in flows <=> status[o] # "none"
        /\ <<"success", o>> \in flows <=> Paid(o)
        /\ (\E k \in {"reject", "failed", "cancel"} : <<k, o>> \in flows)
              <=> Released(o)
        /\ \A k, l \in {"reject", "failed", "cancel"} :
              <<k, o>> \in flows /\ <<l, o>> \in flows => k = l

(* Once an order is paid, or its commission released, that is final: no    *)
(* later callback, retry, scan or admin action moves it again.             *)
TerminalIsFinal ==
    [][\A o \in Orders : Phase(o) \in {"paid", "released"}
                            => status'[o] = status[o]]_ledgerVars
=============================================================================
