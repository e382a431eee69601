---------------------------- MODULE WalletBalance ---------------------------
(***************************************************************************)
(* The spendable side of the wallet (service/wallet.go): the column        *)
(* wallet_accounts.balance_amount, and users.quota, which holds the same   *)
(* money in another unit.  Every operation of wallet.go that moves one of  *)
(* them is one transaction that moves both; redemption codes, check-ins    *)
(* and administrators move users.quota alone.                              *)
(*                                                                         *)
(* Amounts are whole units of 10^-6, the resolution of the decimal(18,6)   *)
(* columns; with the default QuotaPerUnit of 500000 one quota is 2 units   *)
(* and walletAmountEpsilon is 1 unit.                                      *)
(***************************************************************************)
EXTENDS Integers

CONSTANTS Users,            \* users.id
          InitQuota,        \* users.quota before the wallet table existed
          TransferAmounts,  \* amounts a user may ask to move to the balance
          UnitsPerQuota,    \* 10^6 / common.QuotaPerUnit
          Epsilon           \* walletAmountEpsilon

ASSUME BalanceConstants ==
    /\ InitQuota \in [Users -> Nat]
    /\ UnitsPerQuota \in Nat \ {0}
    /\ Epsilon \in Nat /\ Epsilon < UnitsPerQuota
    /\ TransferAmounts \subseteq Nat \ {0}

VARIABLES balance,   \* wallet_accounts.balance_amount
          quota,     \* users.quota
          legacy,    \* users whose legacy-balance-init flow exists
          outside,   \* history: the part of users.quota no balance was
                     \* ever booked for, since the last backfill
          dust       \* history: transfers that were not a whole number of
                     \* quota, since the last backfill

balanceVars == <<balance, quota, legacy, outside, dust>>

BalanceTypeOK ==
    /\ balance \in [Users -> Int]
    /\ quota \in [Users -> Int]
    /\ legacy \subseteq Users
    /\ outside \in [Users -> Int]
    /\ dust \in [Users -> Nat]

BalanceInit ==
    /\ balance = [u \in Users |-> 0]
    /\ quota = InitQuota
    /\ legacy = {}
    /\ outside = InitQuota
    /\ dust = [u \in Users |-> 0]

-----------------------------------------------------------------------------
(* Conversions.                                                            *)

(* math.Max(0, x) and maxFloat(0, x).                                      *)
Clamp(x) == IF x > 0 THEN x ELSE 0

amountToQuota(a) == Clamp(a) \div UnitsPerQuota

quotaToWalletAmount(q) == Clamp(q) * UnitsPerQuota

-----------------------------------------------------------------------------
(* The lazy backfill of a balance that is (as good as) zero while there is *)
(* quota.  The audited one, ensureLegacyWalletBalanceTx, happens once per  *)
(* user; the silent one of getQiniuWalletAccountAndUserTx every time.      *)

LegacyBackfill(u) == balance[u] <= Epsilon /\ u \notin legacy /\ quota[u] > 0

SilentBackfill(u) == balance[u] <= Epsilon /\ quota[u] > 0

(* The balance the transaction goes on with.  Mutant: it is not read back  *)
(* after the backfill.                                                     *)
BookedBalance_Stale(u, backfill) == balance[u]

BookedBalance(u, backfill) ==
    IF backfill THEN quotaToWalletAmount(quota[u]) ELSE balance[u]

(* The end of a transaction that began with a backfill or not: the balance *)
(* is b, the quota q, and the conversion cut off a fraction r times.       *)
Book(u, backfill, b, q, r) ==
    /\ balance' = [balance EXCEPT ![u] = b]
    /\ quota' = [quota EXCEPT ![u] = q]
    /\ outside' = IF backfill THEN [outside EXCEPT ![u] = 0] ELSE outside
    /\ dust' = [dust EXCEPT ![u] = (IF backfill THEN 0 ELSE dust[u]) + r]

BookAudited(u, b, q, r) ==
    /\ Book(u, LegacyBackfill(u), b, q, r)
    /\ legacy' = IF LegacyBackfill(u) THEN legacy \cup {u} ELSE legacy

BookSilently(u, b, q) ==
    /\ Book(u, SilentBackfill(u), b, q, 0)
    /\ UNCHANGED legacy

GetOrCreateWalletAccount(u) ==
    /\ LegacyBackfill(u)
    /\ BookAudited(u, BookedBalance(u, TRUE), quota[u], 0)

creditBalanceByQuotaTx(u, q) ==
    BookAudited(u, BookedBalance(u, LegacyBackfill(u)) + quotaToWalletAmount(q), quota[u] + q, 0)

(* When the balance does not suffice the transaction, backfill included,   *)
(* is rolled back.  Mutant: the balance is not checked.                    *)
debitBalanceByQuotaTx_Unchecked(u, q) ==
    LET b == BookedBalance(u, LegacyBackfill(u))
    IN  BookAudited(u, b - quotaToWalletAmount(q), quota[u] - q, 0)

debitBalanceByQuotaTx(u, q) ==
    LET b == BookedBalance(u, LegacyBackfill(u))
    IN  /\ b + Epsilon >= quotaToWalletAmount(q)
        /\ BookAudited(u, Clamp(b - quotaToWalletAmount(q)), quota[u] - q, 0)

debitBalanceByQuotaSilentlyTx(u, q) ==
    LET b == BookedBalance(u, SilentBackfill(u))
    IN  /\ quota[u] >= q
        /\ b + Epsilon >= quotaToWalletAmount(q)
        /\ BookSilently(u, Clamp(b - quotaToWalletAmount(q)), quota[u] - q)

debitBalanceByQuotaSilentlyAllowDebtTx(u, q) ==
    BookSilently(u, BookedBalance(u, SilentBackfill(u)) - quotaToWalletAmount(q), quota[u] - q)

creditBalanceByQuotaSilentlyTx(u, q) ==
    BookSilently(u, BookedBalance(u, SilentBackfill(u)) + quotaToWalletAmount(q), quota[u] + q)

(* The balance half of TransferCommissionToBalance: the balance grows by   *)
(* the amount, the quota by its whole part.                                *)
creditTransferredCommission(u, a) ==
    /\ amountToQuota(a) > 0
    /\ BookAudited(u, BookedBalance(u, LegacyBackfill(u)) + a, quota[u] + amountToQuota(a),
                   IF a % UnitsPerQuota = 0 THEN 0 ELSE 1)

(* users.quota changed by a redemption code, a check-in, an invitation or  *)
(* an administrator: the wallet account is not touched.                    *)
ChangeUserQuota(u, d) ==
    /\ quota' = [quota EXCEPT ![u] = @ + d]
    /\ outside' = [outside EXCEPT ![u] = @ + d]
    /\ UNCHANGED <<balance, legacy, dust>>
=============================================================================
