-------------------------- MODULE WalletBalanceSpec -------------------------
(***************************************************************************)
(* The spendable balance as a specification of its own: any sequence of    *)
(* the operations of WalletBalance, as top-ups, refunds, relay billing,    *)
(* asynchronous tasks and commission transfers call them, mixed with       *)
(* changes of users.quota that bypass the wallet.                          *)
(***************************************************************************)
EXTENDS WalletBalance

CONSTANTS QuotaAmounts,   \* the quotas that are credited and debited
          MaxQuota,       \* bound on users.quota, in either direction
          MaxDust         \* bound on transfers that leave a fraction

ASSUME QuotaAmountsPositive ==
    QuotaAmounts \subseteq Nat \ {0} /\ MaxQuota \in Nat /\ MaxDust \in Nat

Bounded(u) ==
    /\ quota'[u] \in -MaxQuota .. MaxQuota
    /\ outside'[u] \in -MaxQuota .. MaxQuota
    /\ dust'[u] <= MaxDust

QuotaStep(u, q) ==
    \/ creditBalanceByQuotaTx(u, q)
    \/ debitBalanceByQuotaTx(u, q)
    \/ debitBalanceByQuotaSilentlyTx(u, q)
    \/ debitBalanceByQuotaSilentlyAllowDebtTx(u, q)
    \/ creditBalanceByQuotaSilentlyTx(u, q)
    \/ ChangeUserQuota(u, q)
    \/ ChangeUserQuota(u, -q)

BalanceNext ==
    \E u \in Users :
        /\ \/ GetOrCreateWalletAccount(u)
           \/ \E q \in QuotaAmounts : QuotaStep(u, q)
           \/ \E a \in TransferAmounts : creditTransferredCommission(u, a)
        /\ Bounded(u)

BalanceSpec == BalanceInit /\ [][BalanceNext]_balanceVars

(* How much more the balance shows than the quota that was booked for it.  *)
Drift(u) == balance[u] - (quota[u] - outside[u]) * UnitsPerQuota

(* The balance and the quota do not drift apart through the wallet's own   *)
(* operations: through debts, refunds, both backfills, the tolerance of    *)
(* the comparisons and the clamp at zero, the balance is the part of the   *)
(* quota it was booked for, plus at most one quota for each transfer       *)
(* whose fraction the conversion to quota cut off.  So without such        *)
(* transfers a debit that checks only the balance cannot overdraw.         *)
BalanceTracksQuota ==
    \A u \in Users : 0 <= Drift(u) /\ Drift(u) <= dust[u] * UnitsPerQuota
=============================================================================
