---------------------------- MODULE BillingProofs ----------------------------
(***************************************************************************)
(* Proofs about the spendable balance (WalletBalanceSpec) and about the    *)
(* billing sessions that draw on it (BillingSession).                      *)
(*                                                                         *)
(* The balance tracks the quota, for every set of users, every amount and  *)
(* every QuotaPerUnit for which the epsilon of the comparisons is smaller  *)
(* than one quota.  A request costs what it ought to, on its funding       *)
(* source and its token, and requests at the same time do not overdraw a   *)
(* wallet: for any requests, users, tokens, subscriptions, prices, trust   *)
(* quota and number of failing transactions.                               *)
(***************************************************************************)
EXTENDS BillingSession, WalletBalanceSpec, FiniteSums

BInv == BalanceTypeOK /\ BalanceTracksQuota

(* The quota the balance stands for once a backfill has, or has not, run.  *)
Covered(u, backfill) == IF backfill THEN quota[u] ELSE quota[u] - outside[u]

(* Both backfills happen only for a user with quota.                       *)
LEMMA BackfillHasQuota ==
    ASSUME NEW u \in Users
    PROVE  /\ LegacyBackfill(u) \in BOOLEAN /\ SilentBackfill(u) \in BOOLEAN
           /\ LegacyBackfill(u) => quota[u] > 0
           /\ SilentBackfill(u) => quota[u] > 0
  BY DEF LegacyBackfill, SilentBackfill

LEMMA ValueOf ==
    ASSUME NEW q \in Nat
    PROVE  quotaToWalletAmount(q) = q * UnitsPerQuota
<1>1. UnitsPerQuota \in Nat
  BY BalanceConstants
<1>2. Clamp(q) = q
  BY DEF Clamp
<1> QED BY <1>1, <1>2 DEF quotaToWalletAmount

(* The fractions that remain once a backfill has, or has not, run.         *)
DustAfter(u, backfill) == IF backfill THEN 0 ELSE dust[u]

(* The balance a transaction goes on with is what Covered stands for, plus *)
(* the fractions that are left over.                                       *)
LEMMA Booked ==
    ASSUME BInv, NEW u \in Users, NEW backfill \in BOOLEAN, backfill => quota[u] > 0
    PROVE  /\ Covered(u, backfill) \in Int /\ DustAfter(u, backfill) \in Nat
           /\ \E e \in Nat :
                 /\ BookedBalance(u, backfill) = Covered(u, backfill) * UnitsPerQuota + e
                 /\ e <= DustAfter(u, backfill) * UnitsPerQuota
<1>1. /\ quota[u] \in Int /\ outside[u] \in Int /\ dust[u] \in Nat /\ balance[u] \in Int
      /\ UnitsPerQuota \in Nat
  BY BalanceConstants DEF BInv, BalanceTypeOK
<1>2. CASE backfill
  <2>1. BookedBalance(u, backfill) = Covered(u, backfill) * UnitsPerQuota + 0
    BY <1>1, <1>2, ValueOf DEF BookedBalance, Covered
  <2>2. DustAfter(u, backfill) = 0 /\ 0 <= DustAfter(u, backfill) * UnitsPerQuota
    BY <1>1, <1>2 DEF DustAfter
  <2>3. Covered(u, backfill) \in Int /\ DustAfter(u, backfill) \in Nat
    BY <1>1, <1>2, <2>2 DEF Covered, DustAfter
  <2> QED BY <2>1, <2>2, <2>3
<1>3. CASE ~backfill
  <2> DEFINE k == (quota[u] - outside[u]) * UnitsPerQuota
             e == balance[u] - k
  <2>1. k \in Int
    BY <1>1
  <2>2. 0 <= e /\ e <= dust[u] * UnitsPerQuota
    BY DEF BInv, BalanceTracksQuota, Drift
  <2>3. e \in Nat /\ balance[u] = k + e
    BY <1>1, <2>1, <2>2
  <2> QED BY <1>1, <1>3, <2>2, <2>3 DEF BookedBalance, Covered, DustAfter
<1> QED BY <1>2, <1>3

(* Multiplication by UnitsPerQuota reflects the order.                     *)
LEMMA Cancel ==
    ASSUME NEW k \in Int, NEW q \in Int, q * UnitsPerQuota < k * UnitsPerQuota + UnitsPerQuota
    PROVE  q <= k
<1>1. UnitsPerQuota \in Nat
  BY BalanceConstants
<1> DEFINE d == q - k
<1>2. SUFFICES ASSUME d >= 1 PROVE FALSE
  OBVIOUS
<1>3. d \in Nat /\ q = k + d
  BY <1>2
<1>4. q * UnitsPerQuota = k * UnitsPerQuota + d * UnitsPerQuota
  BY <1>1, <1>3
<1>5. d * UnitsPerQuota >= UnitsPerQuota
  BY <1>1, <1>2, <1>3
<1>6. k * UnitsPerQuota \in Int /\ d * UnitsPerQuota \in Int
  BY <1>1, <1>3
<1> QED BY <1>1, <1>4, <1>5, <1>6

(* Booking d quota on both sides, with r more fractions, keeps them in     *)
(* step.                                                                   *)
LEMMA Booking ==
    ASSUME BInv, NEW u \in Users, NEW backfill \in BOOLEAN, NEW d \in Int, NEW b, NEW q,
           NEW r \in Nat, NEW e \in Nat, e <= (DustAfter(u, backfill) + r) * UnitsPerQuota,
           b = (Covered(u, backfill) + d) * UnitsPerQuota + e, q = quota[u] + d,
           Book(u, backfill, b, q, r)
    PROVE  /\ balance' \in [Users -> Int] /\ quota' \in [Users -> Int]
           /\ outside' \in [Users -> Int] /\ dust' \in [Users -> Nat]
           /\ BalanceTracksQuota'
<1>1. /\ UnitsPerQuota \in Nat /\ quota[u] \in Int /\ outside[u] \in Int
      /\ DustAfter(u, backfill) + r \in Nat
  BY BalanceConstants DEF BInv, BalanceTypeOK, DustAfter
<1>2. b \in Int /\ q \in Int
  BY <1>1 DEF Covered
<1>3. /\ balance' = [balance EXCEPT ![u] = b]
      /\ quota' = [quota EXCEPT ![u] = q]
      /\ outside' = IF backfill THEN [outside EXCEPT ![u] = 0] ELSE outside
      /\ dust' = [dust EXCEPT ![u] = DustAfter(u, backfill) + r]
  BY DEF Book, DustAfter
<1>4. /\ balance' \in [Users -> Int] /\ quota' \in [Users -> Int]
      /\ outside' \in [Users -> Int] /\ dust' \in [Users -> Nat]
  BY <1>1, <1>2, <1>3 DEF BInv, BalanceTypeOK
<1>5. ASSUME NEW v \in Users
      PROVE  0 <= Drift(v)' /\ Drift(v)' <= dust'[v] * UnitsPerQuota
  <2>1. CASE v # u
    <3>1. balance'[v] = balance[v] /\ quota'[v] = quota[v] /\ dust'[v] = dust[v]
      BY <1>3, <2>1 DEF BInv, BalanceTypeOK
    <3>2. outside'[v] = outside[v]
      BY <1>3, <2>1 DEF BInv, BalanceTypeOK
    <3> QED BY <3>1, <3>2 DEF BInv, BalanceTracksQuota, Drift
  <2>2. CASE v = u
    <3>1. balance'[v] = b /\ quota'[v] = q /\ dust'[v] = DustAfter(u, backfill) + r
      BY <1>3, <2>2 DEF BInv, BalanceTypeOK
    <3>2. quota'[v] - outside'[v] = Covered(u, backfill) + d
      BY <1>1, <1>3, <2>2, <3>1 DEF Covered, BInv, BalanceTypeOK
    <3>3. (Covered(u, backfill) + d) * UnitsPerQuota \in Int
      BY <1>1 DEF Covered
    <3>4. Drift(v)' = e
      BY <3>1, <3>2, <3>3 DEF Drift
    <3> QED BY <3>1, <3>4
  <2> QED BY <2>1, <2>2
<1> QED BY <1>4, <1>5 DEF BalanceTracksQuota

(* The same for a transaction with the audited backfill, and for one with  *)
(* the silent backfill.                                                    *)
LEMMA AuditedBooking ==
    ASSUME BInv, NEW u \in Users, NEW d \in Int, NEW b, NEW q,
           NEW r \in Nat, NEW e \in Nat,
           e <= (DustAfter(u, LegacyBackfill(u)) + r) * UnitsPerQuota,
           b = (Covered(u, LegacyBackfill(u)) + d) * UnitsPerQuota + e, q = quota[u] + d,
           BookAudited(u, b, q, r)
    PROVE  BInv'
<1>1. LegacyBackfill(u) \in BOOLEAN /\ Book(u, LegacyBackfill(u), b, q, r)
  BY BackfillHasQuota DEF BookAudited
<1>2. legacy' \subseteq Users
  BY DEF BookAudited, BInv, BalanceTypeOK
<1>3. /\ balance' \in [Users -> Int] /\ quota' \in [Users -> Int]
      /\ outside' \in [Users -> Int] /\ dust' \in [Users -> Nat]
      /\ BalanceTracksQuota'
  BY <1>1, Booking
<1> QED BY <1>2, <1>3 DEF BInv, BalanceTypeOK

LEMMA SilentBooking ==
    ASSUME BInv, NEW u \in Users, NEW d \in Int, NEW b, NEW q, NEW e \in Nat,
           e <= DustAfter(u, SilentBackfill(u)) * UnitsPerQuota,
           b = (Covered(u, SilentBackfill(u)) + d) * UnitsPerQuota + e, q = quota[u] + d,
           BookSilently(u, b, q)
    PROVE  BInv'
<1>1. SilentBackfill(u) \in BOOLEAN /\ Book(u, SilentBackfill(u), b, q, 0)
  BY BackfillHasQuota DEF BookSilently
<1>2. legacy' \subseteq Users
  BY DEF BookSilently, BInv, BalanceTypeOK
<1>3. DustAfter(u, SilentBackfill(u)) + 0 = DustAfter(u, SilentBackfill(u))
  BY <1>1 DEF DustAfter, BInv, BalanceTypeOK
<1>4. /\ balance' \in [Users -> Int] /\ quota' \in [Users -> Int]
      /\ outside' \in [Users -> Int] /\ dust' \in [Users -> Nat]
      /\ BalanceTracksQuota'
  BY <1>1, <1>3, Booking
<1> QED BY <1>2, <1>4 DEF BInv, BalanceTypeOK

(* What a credit and a debit of q come to, in quota.                       *)
LEMMA CreditValue ==
    ASSUME NEW k \in Int, NEW q \in Nat, NEW e \in Nat
    PROVE  (k * UnitsPerQuota + e) + quotaToWalletAmount(q) = (k + q) * UnitsPerQuota + e
<1>1. UnitsPerQuota \in Nat /\ quotaToWalletAmount(q) = q * UnitsPerQuota
  BY ValueOf, BalanceConstants
<1>2. k * UnitsPerQuota \in Int /\ q * UnitsPerQuota \in Int
  BY <1>1
<1>3. (k + q) * UnitsPerQuota = k * UnitsPerQuota + q * UnitsPerQuota
  BY <1>1
<1> QED BY <1>1, <1>2, <1>3

LEMMA DebitValue ==
    ASSUME NEW k \in Int, NEW q \in Nat, NEW e \in Nat
    PROVE  (k * UnitsPerQuota + e) - quotaToWalletAmount(q) = (k + (-q)) * UnitsPerQuota + e
<1>1. UnitsPerQuota \in Nat /\ quotaToWalletAmount(q) = q * UnitsPerQuota
  BY ValueOf, BalanceConstants
<1>2. k * UnitsPerQuota \in Int /\ q * UnitsPerQuota \in Int
  BY <1>1
<1>3. (k + (-q)) * UnitsPerQuota = k * UnitsPerQuota - q * UnitsPerQuota
  BY <1>1
<1> QED BY <1>1, <1>2, <1>3

(* A debit the comparison lets through.  If the clamp cuts in, the balance *)
(* was short by less than one quota, which only fractions can cause: they  *)
(* are rounded up to whole quota and still stay within their bound.        *)
LEMMA CoveredDebit ==
    ASSUME NEW k \in Int, NEW q \in Nat, NEW e \in Nat, NEW n \in Nat,
           e <= n * UnitsPerQuota,
           (k * UnitsPerQuota + e) + Epsilon >= quotaToWalletAmount(q)
    PROVE  LET c == Clamp((k * UnitsPerQuota + e) - quotaToWalletAmount(q))
                       - (k + (-q)) * UnitsPerQuota
           IN  c \in Nat /\ c <= n * UnitsPerQuota
<1> DEFINE x == (k + (-q)) * UnitsPerQuota
<1>1. /\ UnitsPerQuota \in Nat /\ Epsilon \in Nat /\ Epsilon < UnitsPerQuota
      /\ quotaToWalletAmount(q) = q * UnitsPerQuota
  BY ValueOf, BalanceConstants
<1>2. x \in Int /\ (k * UnitsPerQuota + e) - quotaToWalletAmount(q) = x + e
  BY <1>1, DebitValue
<1>3. k * UnitsPerQuota \in Int /\ q * UnitsPerQuota \in Int /\ n * UnitsPerQuota \in Int
  BY <1>1
<1>4. x + e >= -Epsilon
  BY <1>1, <1>2, <1>3
<1>5. CASE x + e > 0
  BY <1>2, <1>5 DEF Clamp
<1>6. CASE x + e <= 0
  <2> DEFINE g == (q + (-k)) * UnitsPerQuota
  <2>1. g = -x
    BY <1>1
  <2>2. g \in Nat
    BY <1>2, <1>6, <2>1
  <2>3. g < n * UnitsPerQuota + UnitsPerQuota
    BY <1>1, <1>2, <1>3, <1>4, <2>1
  <2>4. q + (-k) <= n
    BY <2>3, Cancel
  <2>5. g <= n * UnitsPerQuota
    <3>1. PICK c \in Nat : n = (q + (-k)) + c
      BY <2>4
    <3>2. n * UnitsPerQuota = g + c * UnitsPerQuota
      BY <1>1, <3>1
    <3>3. c * UnitsPerQuota \in Nat
      BY <1>1
    <3> QED BY <2>2, <3>2, <3>3
  <2>6. Clamp((k * UnitsPerQuota + e) - quotaToWalletAmount(q)) = x + g
    BY <1>2, <1>6, <2>1 DEF Clamp
  <2> HIDE DEF g, x
  <2>7. Clamp((k * UnitsPerQuota + e) - quotaToWalletAmount(q)) - x = g
    BY <1>2, <2>2, <2>6
  <2> QED BY <2>2, <2>5, <2>7 DEF x
<1> HIDE DEF x
<1> QED BY <1>2, <1>5, <1>6

(* An operation on any amount of quota.                                    *)
LEMMA QuotaStepKeeps ==
    ASSUME BInv, NEW u \in Users, NEW q \in Nat, QuotaStep(u, q)
    PROVE  BInv'
<1> DEFINE L == LegacyBackfill(u)
           S == SilentBackfill(u)
           cl == Covered(u, L)
           cs == Covered(u, S)
           nl == DustAfter(u, L)
           ns == DustAfter(u, S)
           bl == BookedBalance(u, L)
           bs == BookedBalance(u, S)
<1>0. L \in BOOLEAN /\ S \in BOOLEAN /\ (L => quota[u] > 0) /\ (S => quota[u] > 0)
  BY BackfillHasQuota
<1>a. PICK e \in Nat : /\ bl = cl * UnitsPerQuota + e
                       /\ e <= nl * UnitsPerQuota
  BY <1>0, Booked
<1>b. PICK f \in Nat : /\ bs = cs * UnitsPerQuota + f
                       /\ f <= ns * UnitsPerQuota
  BY <1>0, Booked
<1>c. /\ cl \in Int /\ cs \in Int /\ nl \in Nat /\ ns \in Nat /\ quota[u] \in Int
      /\ UnitsPerQuota \in Nat \ {0}
  BY <1>0, Booked, BalanceConstants DEF BInv, BalanceTypeOK
<1>d. nl + 0 = nl /\ e <= (nl + 0) * UnitsPerQuota
  BY <1>a, <1>c
<1> HIDE DEF cl, cs, nl, ns, bl, bs
<1>1. -q \in Int /\ quota[u] - q = quota[u] + (-q)
  BY <1>c
<1>2. CASE creditBalanceByQuotaTx(u, q)
  <2>1. bl + quotaToWalletAmount(q) = (cl + q) * UnitsPerQuota + e
    BY <1>a, <1>c, CreditValue, Zenon
  <2>2. BookAudited(u, bl + quotaToWalletAmount(q), quota[u] + q, 0)
    BY <1>2 DEF creditBalanceByQuotaTx, bl
  <2> QED BY <1>d, <1>1, <2>1, <2>2, AuditedBooking DEF cl, nl
<1>3. CASE debitBalanceByQuotaTx(u, q)
  <2>1. bl + Epsilon >= quotaToWalletAmount(q)
    BY <1>3 DEF debitBalanceByQuotaTx, bl
  <2>2. PICK g \in Nat : /\ g <= nl * UnitsPerQuota
                         /\ Clamp(bl - quotaToWalletAmount(q))
                               = (cl + (-q)) * UnitsPerQuota + g
    <3>1. (cl * UnitsPerQuota + e) + Epsilon >= quotaToWalletAmount(q)
      BY <1>a, <2>1
    <3> DEFINE c == Clamp(bl - quotaToWalletAmount(q)) - (cl + (-q)) * UnitsPerQuota
    <3>2. c \in Nat /\ c <= nl * UnitsPerQuota
      BY <1>a, <1>c, <1>1, <3>1, CoveredDebit
    <3>3. bl \in Int /\ quotaToWalletAmount(q) \in Int
      BY <1>a, <1>c, <1>1, ValueOf
    <3>4. /\ Clamp(bl - quotaToWalletAmount(q)) \in Int
          /\ (cl + (-q)) * UnitsPerQuota \in Int
      BY <1>c, <1>1, <3>3 DEF Clamp
    <3> QED BY <3>2, <3>4
  <2>3. BookAudited(u, Clamp(bl - quotaToWalletAmount(q)), quota[u] - q, 0)
    BY <1>3 DEF debitBalanceByQuotaTx, bl
  <2>4. g <= (nl + 0) * UnitsPerQuota
    BY <1>d, <2>2
  <2> QED BY <1>1, <2>2, <2>3, <2>4, AuditedBooking DEF cl, nl
<1>4. CASE debitBalanceByQuotaSilentlyTx(u, q)
  <2>1. bs + Epsilon >= quotaToWalletAmount(q)
    BY <1>4 DEF debitBalanceByQuotaSilentlyTx, bs
  <2>2. PICK g \in Nat : /\ g <= ns * UnitsPerQuota
                         /\ Clamp(bs - quotaToWalletAmount(q))
                               = (cs + (-q)) * UnitsPerQuota + g
    <3>1. (cs * UnitsPerQuota + f) + Epsilon >= quotaToWalletAmount(q)
      BY <1>b, <2>1
    <3> DEFINE c == Clamp(bs - quotaToWalletAmount(q)) - (cs + (-q)) * UnitsPerQuota
    <3>2. c \in Nat /\ c <= ns * UnitsPerQuota
      BY <1>b, <1>c, <1>1, <3>1, CoveredDebit
    <3>3. bs \in Int /\ quotaToWalletAmount(q) \in Int
      BY <1>b, <1>c, <1>1, ValueOf
    <3>4. /\ Clamp(bs - quotaToWalletAmount(q)) \in Int
          /\ (cs + (-q)) * UnitsPerQuota \in Int
      BY <1>c, <1>1, <3>3 DEF Clamp
    <3> QED BY <3>2, <3>4
  <2>3. BookSilently(u, Clamp(bs - quotaToWalletAmount(q)), quota[u] - q)
    BY <1>4 DEF debitBalanceByQuotaSilentlyTx, bs
  <2> QED BY <1>1, <2>2, <2>3, SilentBooking DEF cs, ns
<1>5. CASE debitBalanceByQuotaSilentlyAllowDebtTx(u, q)
  <2>1. bs - quotaToWalletAmount(q) = (cs + (-q)) * UnitsPerQuota + f
    BY <1>b, <1>c, DebitValue, Zenon
  <2>2. BookSilently(u, bs - quotaToWalletAmount(q), quota[u] - q)
    BY <1>5 DEF debitBalanceByQuotaSilentlyAllowDebtTx, bs
  <2> QED BY <1>b, <1>1, <2>1, <2>2, SilentBooking DEF cs, ns
<1>6. CASE creditBalanceByQuotaSilentlyTx(u, q)
  <2>1. bs + quotaToWalletAmount(q) = (cs + q) * UnitsPerQuota + f
    BY <1>b, <1>c, CreditValue, Zenon
  <2>2. BookSilently(u, bs + quotaToWalletAmount(q), quota[u] + q)
    BY <1>6 DEF creditBalanceByQuotaSilentlyTx, bs
  <2> DEFINE b == bs + quotaToWalletAmount(q)
  <2>3. b = (cs + q) * UnitsPerQuota + f /\ BookSilently(u, b, quota[u] + q) /\ q \in Int
    BY <1>1, <2>1, <2>2
  <2> HIDE DEF b
  <2> QED BY <1>b, <2>3, SilentBooking DEF cs, ns
<1>7. ASSUME NEW d \in Int, ChangeUserQuota(u, d)
      PROVE  BInv'
  <2>1. /\ quota' = [quota EXCEPT ![u] = @ + d]
        /\ outside' = [outside EXCEPT ![u] = @ + d]
        /\ UNCHANGED <<balance, legacy, dust>>
    BY <1>7 DEF ChangeUserQuota
  <2>2. BalanceTypeOK'
    BY <2>1 DEF BInv, BalanceTypeOK
  <2>3. \A v \in Users : quota'[v] - outside'[v] = quota[v] - outside[v]
    BY <2>1 DEF BInv, BalanceTypeOK
  <2> QED BY <2>1, <2>2, <2>3 DEF BInv, BalanceTracksQuota, Drift
<1> QED BY <1>1, <1>2, <1>3, <1>4, <1>5, <1>6, <1>7 DEF QuotaStep

(* Every operation of the wallet, and every change outside it, keeps both  *)
(* sides in step.                                                          *)
LEMMA StepKeeps ==
    ASSUME BInv, BalanceNext
    PROVE  BInv'
<1> PICK u \in Users : \/ GetOrCreateWalletAccount(u)
                       \/ \E q \in QuotaAmounts : QuotaStep(u, q)
                       \/ \E a \in TransferAmounts : creditTransferredCommission(u, a)
  BY DEF BalanceNext
<1> DEFINE L == LegacyBackfill(u)
           cl == Covered(u, L)
           nl == DustAfter(u, L)
           bl == BookedBalance(u, L)
<1>0. L \in BOOLEAN /\ (L => quota[u] > 0)
  BY BackfillHasQuota
<1>a. PICK e \in Nat : /\ bl = cl * UnitsPerQuota + e
                       /\ e <= nl * UnitsPerQuota
  BY <1>0, Booked
<1>c. /\ cl \in Int /\ nl \in Nat /\ quota[u] \in Int
      /\ UnitsPerQuota \in Nat \ {0}
  BY <1>0, Booked, BalanceConstants DEF BInv, BalanceTypeOK
<1>d. nl + 0 = nl /\ e <= (nl + 0) * UnitsPerQuota
  BY <1>a, <1>c
<1> HIDE DEF cl, nl, bl
<1>1. CASE GetOrCreateWalletAccount(u)
  <2>1. BookAudited(u, bl, quota[u], 0)
    BY <1>1 DEF GetOrCreateWalletAccount, BookedBalance, bl
  <2>2. cl + 0 = cl /\ quota[u] = quota[u] + 0
    BY <1>c
  <2>3. bl = (cl + 0) * UnitsPerQuota + e
    BY <1>a, <2>2
  <2> QED BY <1>d, <2>1, <2>2, <2>3, AuditedBooking DEF cl, nl
<1>2. ASSUME NEW q \in QuotaAmounts, QuotaStep(u, q)
      PROVE  BInv'
  BY <1>2, QuotaAmountsPositive, QuotaStepKeeps
<1>3. ASSUME NEW a \in TransferAmounts, creditTransferredCommission(u, a)
      PROVE  BInv'
  <2> DEFINE q == amountToQuota(a)
             m == a % UnitsPerQuota
             r == IF m = 0 THEN 0 ELSE 1
  <2>1. a \in Nat
    BY BalanceConstants
  <2>2. q \in Nat /\ m \in Nat /\ m < UnitsPerQuota /\ a = UnitsPerQuota * q + m
    BY <1>c, <2>1 DEF amountToQuota, Clamp
  <2>3. BookAudited(u, bl + a, quota[u] + q, r)
    BY <1>3 DEF creditTransferredCommission, bl
  <2> HIDE DEF q, m
  <2>4. bl + a = (cl + q) * UnitsPerQuota + (e + m)
    <3>1. (cl + q) * UnitsPerQuota = cl * UnitsPerQuota + UnitsPerQuota * q
      BY <1>c, <2>2
    <3>2. cl * UnitsPerQuota \in Int /\ UnitsPerQuota * q \in Int
      BY <1>c, <2>2
    <3> QED BY <1>a, <2>1, <2>2, <3>1, <3>2
  <2>5. r \in Nat /\ e + m \in Nat
    BY <2>2
  <2>6. e + m <= (nl + r) * UnitsPerQuota
    <3>1. (nl + r) * UnitsPerQuota = nl * UnitsPerQuota + r * UnitsPerQuota
      BY <1>c, <2>5
    <3>2. nl * UnitsPerQuota \in Int /\ m <= r * UnitsPerQuota /\ r * UnitsPerQuota \in Int
      BY <1>c, <2>2
    <3> QED BY <1>a, <2>2, <3>1, <3>2
  <2> HIDE DEF r
  <2> QED BY <2>2, <2>3, <2>4, <2>5, <2>6, AuditedBooking DEF cl, nl
<1> QED BY <1>1, <1>2, <1>3

LEMMA BalanceStarts == ASSUME BalanceInit PROVE BInv
<1>1. BalanceTypeOK
  BY BalanceConstants DEF BalanceInit, BalanceTypeOK
<1>2. ASSUME NEW u \in Users
      PROVE  0 <= Drift(u) /\ Drift(u) <= dust[u] * UnitsPerQuota
  <2>1. /\ balance[u] = 0 /\ quota[u] - outside[u] = 0 /\ dust[u] = 0
        /\ UnitsPerQuota \in Int
    BY BalanceConstants DEF BalanceInit
  <2>2. 0 * UnitsPerQuota = 0
    BY <2>1
  <2>3. Drift(u) = 0
    BY <2>1, <2>2 DEF Drift
  <2> QED BY <2>1, <2>2, <2>3
<1> QED BY <1>1, <1>2 DEF BInv, BalanceTracksQuota

(* The balance tracks the quota in every behaviour: top-ups, refunds,      *)
(* relay billing with and without debt, both backfills and commission      *)
(* transfers book both sides alike, up to one quota for every transfer     *)
(* with a fraction.                                                        *)
THEOREM BalanceAlwaysTracksQuota == BalanceSpec => []BalanceTracksQuota
<1>1. BalanceInit => BInv
  BY BalanceStarts
<1>2. BInv /\ [BalanceNext]_balanceVars => BInv'
  <2>1. ASSUME BInv, UNCHANGED balanceVars PROVE BInv'
    BY <2>1 DEF BInv, BalanceTypeOK, BalanceTracksQuota, Drift, balanceVars
  <2> QED BY <2>1, StepKeeps
<1>3. BInv => BalanceTracksQuota
  BY DEF BInv
<1> QED BY <1>1, <1>2, <1>3, PTL DEF BalanceSpec

-----------------------------------------------------------------------------
(* Billing sessions.                                                       *)

Session ==
    [pc : PCs, pref : Preferences, playground : BOOLEAN, forced : BOOLEAN,
     estimate : Nat, seenToken : Int,
     funding : {"wallet", "qiniu", "subscription"}, want : Int, insufficient : BOOLEAN,
     preConsumedQuota : Nat, tokenConsumed : Nat, consumed : Int,
     fundingSettled : BOOLEAN, settled : BOOLEAN, refunded : BOOLEAN,
     attempts : Nat, answered : BOOLEAN, actual : Nat]

Record == [status : {"none", "consumed", "refunded"}, sub : Subs \cup {0}, amount : Nat]

(* The funding source has been charged and has not been settled.           *)
Paying == {"relay", "failed", "refundFunding"}

(* The amounts of a session agree, a subscription that was charged has its *)
(* pre-consume record rec, and the flags tell where the request is.        *)
Coherent(s, rec) ==
    /\ s.pc \in {"wallet", "token", "tokenDebit"} => s.tokenConsumed = 0
    /\ s.pc \in {"token", "tokenDebit", "funding"} => s.want >= 0
    /\ s.pc = "tokenDebit" => ~s.playground
    /\ s.pc \in {"funding"} \cup Paying => s.tokenConsumed = s.want
    /\ s.pc \in Paying =>
          /\ s.consumed = s.want /\ s.preConsumedQuota = s.want
          /\ s.funding = "subscription" => rec.status = "consumed" /\ rec.amount = s.want
    /\ s.pc = "settleToken" => s.want = s.actual - s.preConsumedQuota
    /\ s.pc \notin {"settleToken", "done"} => ~s.fundingSettled /\ ~s.answered
    /\ s.pc # "done" => ~s.settled
    /\ s.pc \notin {"refundFunding", "refundToken", "done"} => ~s.refunded

(* What a request has taken, as its session tells it, from its funding     *)
(* source and from its token.                                              *)
TakenBySession(s) ==
    IF s.settled THEN s.actual ELSE IF s.answered THEN s.preConsumedQuota ELSE 0

FundingOf(s) ==
    IF s.pc \in Paying THEN s.want
    ELSE IF s.pc = "settleToken" THEN s.actual
    ELSE IF s.pc = "done" THEN TakenBySession(s) ELSE 0

FromToken(s) ==
    IF s.playground THEN 0
    ELSE IF s.pc \in {"funding", "rollback", "refundToken"} \cup Paying THEN s.tokenConsumed
    ELSE IF s.pc = "settleToken" THEN s.preConsumedQuota
    ELSE IF s.pc = "done" THEN TakenBySession(s) ELSE 0

(* A request whose transactions all succeeded has taken exactly that; one  *)
(* that met a failure at least that, as long as it runs.                   *)
Exactly(s, a, b) == a = FundingOf(s) /\ b = FromToken(s)

AtLeast(s, a, b) ==
    IF s.pc = "done" THEN a >= 0 /\ b >= 0 ELSE a >= FundingOf(s) /\ b >= FromToken(s)

Right(r) ==
    /\ Coherent(sess[r], record[r])
    /\ r \notin hurt => Exactly(sess[r], net[r], tokenNet[r])
    /\ ~SplitRefund => AtLeast(sess[r], net[r], tokenNet[r])

SessionTypeOK ==
    /\ sess \in [Requests -> Session]
    /\ record \in [Requests -> Record]
    /\ token \in [Tokens -> Int]
    /\ net \in [Requests -> Int]
    /\ tokenNet \in [Requests -> Int]
    /\ hurt \subseteq Requests

ChargeInv == SessionTypeOK /\ \A r \in Requests : Right(r)

(* A step that touches what belongs to r.                                  *)
Only(r) ==
    \A p \in Requests : p # r =>
        /\ sess'[p] = sess[p] /\ record'[p] = record[p]
        /\ net'[p] = net[p] /\ tokenNet'[p] = tokenNet[p]
        /\ p \in hurt' <=> p \in hurt

LEMMA Advance ==
    ASSUME ChargeInv, NEW r \in Requests, Only(r), SessionTypeOK', Right(r)'
    PROVE  ChargeInv'
<1>1. ASSUME NEW p \in Requests, p # r PROVE Right(p)'
  BY <1>1 DEF ChargeInv, Only, Right
<1> QED BY <1>1 DEF ChargeInv

(* The session goes on as t, and                                           *)
(*   nothing else happens, except that a transaction may fail,             *)
(*   the token is charged q, which may be negative, or                     *)
(*   the funding source is charged q.                                      *)
LEMMA GoesOn ==
    ASSUME SessionTypeOK, NEW r \in Requests, NEW t \in Session, Goto(r, t),
           NoFault \/ Fault(r)
    PROVE  /\ sess' \in [Requests -> Session] /\ sess'[r] = t
           /\ \A p \in Requests : p # r => sess'[p] = sess[p]
           /\ hurt' \subseteq Requests /\ (r \in hurt => r \in hurt')
           /\ \A p \in Requests : p # r => (p \in hurt' <=> p \in hurt)
<1>1. /\ sess' \in [Requests -> Session] /\ sess'[r] = t
      /\ \A p \in Requests : p # r => sess'[p] = sess[p]
  BY DEF SessionTypeOK, Goto
<1>2. /\ hurt' \subseteq Requests /\ (r \in hurt => r \in hurt')
      /\ \A p \in Requests : p # r => (p \in hurt' <=> p \in hurt)
  BY DEF SessionTypeOK, Fault, NoFault
<1> QED BY <1>1, <1>2

LEMMA Passes ==
    ASSUME ChargeInv, NEW r \in Requests, NEW t \in Session, Goto(r, t), NoFunding, NoToken,
           NoFault \/ Fault(r), Coherent(t, record[r]),
           r \notin hurt' => Exactly(t, net[r], tokenNet[r]),
           ~SplitRefund => AtLeast(t, net[r], tokenNet[r])
    PROVE  ChargeInv'
<1>0. SessionTypeOK
  BY DEF ChargeInv
<1>1. UNCHANGED <<record, net, token, tokenNet>>
  BY DEF NoFunding, NoToken, subVars
<1>2. SessionTypeOK' /\ Only(r)
  BY <1>0, <1>1, GoesOn DEF SessionTypeOK, Only
<1>3. Right(r)'
  BY <1>0, <1>1, GoesOn DEF Right
<1> QED BY <1>2, <1>3, Advance

LEMMA TokenMoves ==
    ASSUME ChargeInv, NEW r \in Requests, NEW t \in Session, NEW q \in Int, Goto(r, t),
           NoFunding, DecreaseTokenQuota(r, q), NoFault, Coherent(t, record[r]),
           r \notin hurt => Exactly(t, net[r], tokenNet[r] + q),
           ~SplitRefund => AtLeast(t, net[r], tokenNet[r] + q)
    PROVE  ChargeInv'
<1>0. SessionTypeOK
  BY DEF ChargeInv
<1>1. UNCHANGED <<record, net, hurt>>
  BY DEF NoFunding, NoFault, subVars
<1>2. /\ token' \in [Tokens -> Int] /\ tokenNet' \in [Requests -> Int]
      /\ tokenNet'[r] = tokenNet[r] + q
      /\ \A p \in Requests : p # r => tokenNet'[p] = tokenNet[p]
  BY <1>0, BillingConstants DEF DecreaseTokenQuota, SessionTypeOK
<1>3. SessionTypeOK' /\ Only(r)
  BY <1>0, <1>1, <1>2, GoesOn DEF SessionTypeOK, Only
<1>4. Right(r)'
  BY <1>0, <1>1, <1>2, GoesOn DEF Right
<1> QED BY <1>3, <1>4, Advance

LEMMA FundingMoves ==
    ASSUME ChargeInv, NEW r \in Requests, NEW t \in Session, NEW q \in Int, NEW rec \in Record,
           Goto(r, t), net' = [net EXCEPT ![r] = @ + q], record' = [record EXCEPT ![r] = rec],
           NoToken, NoFault \/ Fault(r), Coherent(t, rec),
           r \notin hurt' => Exactly(t, net[r] + q, tokenNet[r]),
           ~SplitRefund => AtLeast(t, net[r] + q, tokenNet[r])
    PROVE  ChargeInv'
<1>0. SessionTypeOK
  BY DEF ChargeInv
<1>1. UNCHANGED <<token, tokenNet>>
  BY DEF NoToken
<1>2. /\ net' \in [Requests -> Int] /\ net'[r] = net[r] + q
      /\ \A p \in Requests : p # r => net'[p] = net[p]
  BY <1>0 DEF SessionTypeOK
<1>3. /\ record' \in [Requests -> Record] /\ record'[r] = rec
      /\ \A p \in Requests : p # r => record'[p] = record[p]
  BY <1>0 DEF SessionTypeOK
<1>4. SessionTypeOK' /\ Only(r)
  BY <1>0, <1>1, <1>2, <1>3, GoesOn DEF SessionTypeOK, Only
<1>5. Right(r)'
  BY <1>0, <1>1, <1>2, <1>3, GoesOn DEF Right
<1> QED BY <1>4, <1>5, Advance

(* A fresh session for the wallet and one for a subscription.              *)
SameFlags(s, t) ==
    /\ t.playground = s.playground /\ t.answered = s.answered /\ t.settled = s.settled
    /\ t.fundingSettled = s.fundingSettled /\ t.refunded = s.refunded

LEMMA PlacesKnown ==
    /\ "wallet" \in PCs /\ "token" \in PCs /\ "tokenDebit" \in PCs /\ "funding" \in PCs
    /\ "rollback" \in PCs /\ "rejected" \in PCs /\ "relay" \in PCs /\ "settleToken" \in PCs
    /\ "failed" \in PCs /\ "refundFunding" \in PCs /\ "refundToken" \in PCs /\ "done" \in PCs
  BY DEF PCs

LEMMA TryWallet ==
    ASSUME NEW s \in Session
    PROVE  /\ tryWallet(s) \in Session /\ SameFlags(s, tryWallet(s))
           /\ tryWallet(s).pc = "wallet" /\ tryWallet(s).tokenConsumed = 0
<1> DEFINE f == IF s.pref = "qiniu" THEN "qiniu" ELSE "wallet"
<1>1. f \in {"wallet", "qiniu", "subscription"}
  OBVIOUS
<1> DEFINE zero == 0
           t == [s EXCEPT !.pc = "wallet", !.funding = f, !.want = zero,
                          !.tokenConsumed = zero, !.insufficient = FALSE]
<1>2. tryWallet(s) = t /\ zero \in Nat /\ zero \in Int
  BY DEF tryWallet
<1> HIDE DEF f, zero
<1>3. t \in Session /\ SameFlags(s, t) /\ t.pc = "wallet" /\ t.tokenConsumed = zero
  BY <1>1, <1>2, PlacesKnown DEF Session, SameFlags
<1> HIDE DEF t
<1> QED BY <1>2, <1>3 DEF zero

LEMMA TrySubscription ==
    ASSUME NEW s \in Session
    PROVE  /\ trySubscription(s) \in Session /\ SameFlags(s, trySubscription(s))
           /\ trySubscription(s).pc = "token" /\ trySubscription(s).tokenConsumed = 0
           /\ trySubscription(s).want >= 0
<1> DEFINE w == IF s.estimate > 0 THEN s.estimate ELSE 1
<1>1. w \in Nat /\ w \in Int
  BY DEF Session
<1> DEFINE zero == 0
           t == [s EXCEPT !.pc = "token", !.funding = "subscription", !.want = w,
                          !.tokenConsumed = zero]
<1>2. trySubscription(s) = t /\ zero \in Nat /\ zero \in Int
  BY DEF trySubscription
<1> HIDE DEF w, zero
<1>3. /\ t \in Session /\ SameFlags(s, t) /\ t.pc = "token" /\ t.tokenConsumed = zero
      /\ t.want = w
  BY <1>1, <1>2, PlacesKnown DEF Session, SameFlags
<1> HIDE DEF t
<1> QED BY <1>1, <1>2, <1>3 DEF zero

(* A request that holds nothing tries a funding source.                    *)
LEMMA Fresh ==
    ASSUME NEW s \in Session, NEW rec, NEW a, NEW b, NEW t \in {tryWallet(s), trySubscription(s)},
           s.pc \in {"new", "wallet"}, Coherent(s, rec)
    PROVE  /\ t \in Session /\ Coherent(t, rec)
           /\ Exactly(s, a, b) => Exactly(t, a, b)
           /\ AtLeast(s, a, b) => AtLeast(t, a, b)
<1>1. /\ t \in Session /\ SameFlags(s, t) /\ t.pc \in {"wallet", "token"}
      /\ t.tokenConsumed = 0 /\ (t.pc = "token" => t.want >= 0)
  BY TryWallet, TrySubscription
<1>2. Coherent(t, rec)
  BY <1>1 DEF Coherent, SameFlags, Paying
<1>3. Exactly(s, a, b) => Exactly(t, a, b)
  BY <1>1 DEF Exactly, SameFlags, Paying, FundingOf, FromToken
<1>4. AtLeast(s, a, b) => AtLeast(t, a, b)
  BY <1>1 DEF AtLeast, SameFlags, Paying, FundingOf, FromToken
<1> QED BY <1>1, <1>2, <1>3, <1>4

LEMMA NewKeeps ==
    ASSUME ChargeInv, NEW r \in Requests, NewBillingSession(r)
    PROVE  ChargeInv'
<1>1. sess[r] \in Session /\ token[TokenOf[r]] \in Int /\ sess[r].pc = "new"
  BY BillingConstants DEF ChargeInv, SessionTypeOK, NewBillingSession, At
<1>2. PICK k \in Kinds, e \in Estimates :
         LET s == [sess[r] EXCEPT !.pref = k.pref, !.playground = k.playground,
                                  !.forced = k.forced, !.estimate = e,
                                  !.seenToken = token[TokenOf[r]]]
         IN  Goto(r, IF \/ k.pref = "subscription_only"
                        \/ k.pref = "subscription_first" /\ HasActiveUserSubscription(Owner[r])
                     THEN trySubscription(s)
                     ELSE tryWallet(s))
  BY DEF NewBillingSession
<1> DEFINE s == [sess[r] EXCEPT !.pref = k.pref, !.playground = k.playground,
                                !.forced = k.forced, !.estimate = e,
                                !.seenToken = token[TokenOf[r]]]
<1>3. s \in Session /\ s.pc = "new"
  BY <1>1, BillingConstants DEF Session
<1>4. Coherent(s, record[r])
  BY <1>1, <1>3 DEF ChargeInv, Right, Coherent, Paying, Session
<1>5. /\ r \notin hurt => Exactly(s, net[r], tokenNet[r])
      /\ ~SplitRefund => AtLeast(s, net[r], tokenNet[r])
  BY <1>1, <1>3 DEF ChargeInv, Right, Exactly, AtLeast, FundingOf, FromToken, Paying, Session
<1>6. PICK t \in {tryWallet(s), trySubscription(s)} : Goto(r, t)
  BY <1>2
<1> HIDE DEF s
<1>7. t \in Session /\ Coherent(t, record[r])
      /\ (r \notin hurt => Exactly(t, net[r], tokenNet[r]))
      /\ (~SplitRefund => AtLeast(t, net[r], tokenNet[r]))
  BY <1>3, <1>4, <1>5, Fresh
<1>8. NoFunding /\ NoToken /\ NoFault
  BY DEF NewBillingSession
<1>9. r \notin hurt' => r \notin hurt
  BY <1>8 DEF NoFault
<1> QED BY <1>6, <1>7, <1>8, <1>9, Passes

(* What the invariant says of the session of one request.                  *)
LEMMA SessionOf ==
    ASSUME ChargeInv, NEW r \in Requests
    PROVE  /\ sess[r] \in Session /\ record[r] \in Record
           /\ net[r] \in Int /\ tokenNet[r] \in Int /\ Coherent(sess[r], record[r])
           /\ r \notin hurt => Exactly(sess[r], net[r], tokenNet[r])
           /\ ~SplitRefund => AtLeast(sess[r], net[r], tokenNet[r])
  BY DEF ChargeInv, SessionTypeOK, Right

(* A request that holds nothing at its funding source is turned away.      *)
LEMMA Reject ==
    ASSUME NEW s \in Session, NEW rec, NEW a \in Int, NEW b \in Int,
           s.pc \in {"wallet", "token", "tokenDebit"}, Coherent(s, rec),
           NEW t, t = [s EXCEPT !.pc = "rejected"]
    PROVE  /\ t \in Session /\ Coherent(t, rec)
           /\ Exactly(s, a, b) => Exactly(t, a, b)
           /\ AtLeast(s, a, b) => AtLeast(t, a, b)
<1>1. t \in Session /\ SameFlags(s, t) /\ t.pc = "rejected"
  BY PlacesKnown DEF Session, SameFlags
<1>2. Coherent(t, rec)
  BY <1>1 DEF Coherent, SameFlags, Paying
<1>3. Exactly(s, a, b) => Exactly(t, a, b)
  BY <1>1 DEF Exactly, SameFlags, Paying, FundingOf, FromToken
<1>4. AtLeast(s, a, b) => AtLeast(t, a, b)
  BY <1>1 DEF AtLeast, SameFlags, Paying, FundingOf, FromToken
<1> QED BY <1>1, <1>2, <1>3, <1>4

LEMMA BuildKeeps ==
    ASSUME ChargeInv, NEW r \in Requests, buildWalletSession(r)
    PROVE  ChargeInv'
<1> DEFINE s == sess[r]
           want == IF shouldTrust(r) THEN 0 ELSE s.estimate
           p == IF want > 0 THEN "token" ELSE "funding"
           t1 == [s EXCEPT !.pc = p, !.want = want]
           t2 == trySubscription(s)
           t3 == [s EXCEPT !.pc = "rejected"]
<1>1. /\ s \in Session /\ s.pc = "wallet" /\ Coherent(s, record[r])
      /\ net[r] \in Int /\ tokenNet[r] \in Int
      /\ r \notin hurt => Exactly(s, net[r], tokenNet[r])
      /\ ~SplitRefund => AtLeast(s, net[r], tokenNet[r])
  BY SessionOf DEF buildWalletSession, At
<1>2. PICK t \in {t1, t2, t3} : Goto(r, t)
  BY DEF buildWalletSession
<1>3. NoFunding /\ NoToken /\ NoFault /\ hurt' = hurt
  BY DEF buildWalletSession, NoFault
<1>4. want \in Nat /\ want \in Int
  BY <1>1 DEF Session
<1>5. p \in PCs /\ p \in {"token", "funding"} /\ (p = "funding" => want = 0)
  BY <1>4, PlacesKnown
<1> HIDE DEF want, p
<1>6. t1 \in Session /\ SameFlags(s, t1) /\ t1.pc = p /\ t1.want = want
      /\ t1.tokenConsumed = s.tokenConsumed
  BY <1>1, <1>4, <1>5 DEF Session, SameFlags
<1> HIDE DEF s, t1
<1>7. s.tokenConsumed = 0
  BY <1>1 DEF Coherent
<1>8. Coherent(t1, record[r])
  BY <1>1, <1>4, <1>5, <1>6, <1>7 DEF Coherent, SameFlags, Paying
<1>9. (r \notin hurt => Exactly(t1, net[r], tokenNet[r]))
  BY <1>1, <1>5, <1>6, <1>7 DEF Exactly, SameFlags, Paying, FundingOf, FromToken
<1>10. ~SplitRefund => AtLeast(t1, net[r], tokenNet[r])
  BY <1>1, <1>5, <1>6, <1>7 DEF AtLeast, SameFlags, Paying, FundingOf, FromToken
<1>11. /\ t2 \in Session /\ Coherent(t2, record[r])
       /\ r \notin hurt => Exactly(t2, net[r], tokenNet[r])
       /\ ~SplitRefund => AtLeast(t2, net[r], tokenNet[r])
  BY <1>1, Fresh
<1>12. /\ t3 \in Session /\ Coherent(t3, record[r])
       /\ r \notin hurt => Exactly(t3, net[r], tokenNet[r])
       /\ ~SplitRefund => AtLeast(t3, net[r], tokenNet[r])
  BY <1>1, Reject
<1> HIDE DEF t2, t3
<1> QED BY <1>2, <1>3, <1>6, <1>8, <1>9, <1>10, <1>11, <1>12, Passes

(* The token is charged, or, for the playground, counted as if it were.    *)
LEMMA TokenTaken ==
    ASSUME NEW s \in Session, NEW rec, NEW a \in Int, NEW b \in Int, NEW q \in Int,
           s.pc \in {"token", "tokenDebit"}, Coherent(s, rec),
           q = IF s.playground THEN 0 ELSE s.want,
           NEW t, t = [s EXCEPT !.pc = "funding", !.tokenConsumed = s.want]
    PROVE  /\ t \in Session /\ Coherent(t, rec)
           /\ Exactly(s, a, b) => Exactly(t, a, b + q)
           /\ AtLeast(s, a, b) => AtLeast(t, a, b + q)
<1>1. s.want \in Int /\ s.want >= 0 /\ s.want \in Nat
  BY DEF Session, Coherent
<1>2. /\ t \in Session /\ SameFlags(s, t) /\ t.pc = "funding" /\ t.want = s.want
      /\ t.tokenConsumed = s.want
  BY <1>1, PlacesKnown DEF Session, SameFlags
<1>3. Coherent(t, rec)
  BY <1>1, <1>2 DEF Coherent, SameFlags, Paying
<1>4. Exactly(s, a, b) => Exactly(t, a, b + q)
  BY <1>1, <1>2 DEF Exactly, SameFlags, Paying, FundingOf, FromToken
<1>5. AtLeast(s, a, b) => AtLeast(t, a, b + q)
  BY <1>1, <1>2 DEF AtLeast, SameFlags, Paying, FundingOf, FromToken
<1> QED BY <1>2, <1>3, <1>4, <1>5

LEMMA TokenCheckKeeps ==
    ASSUME ChargeInv, NEW r \in Requests, PreConsumeTokenQuota(r)
    PROVE  ChargeInv'
<1> DEFINE s == sess[r]
           t1 == [s EXCEPT !.pc = "funding", !.tokenConsumed = s.want]
           t2 == [s EXCEPT !.pc = "tokenDebit"]
           t3 == [s EXCEPT !.pc = "rejected"]
<1>1. /\ s \in Session /\ s.pc = "token" /\ Coherent(s, record[r])
      /\ net[r] \in Int /\ tokenNet[r] \in Int
      /\ r \notin hurt => Exactly(s, net[r], tokenNet[r])
      /\ ~SplitRefund => AtLeast(s, net[r], tokenNet[r])
  BY SessionOf DEF PreConsumeTokenQuota, At
<1>2. \/ s.playground /\ Goto(r, t1)
      \/ ~s.playground /\ Goto(r, t2)
      \/ Goto(r, t3)
  BY DEF PreConsumeTokenQuota
<1>3. NoFunding /\ NoToken /\ NoFault /\ hurt' = hurt
  BY DEF PreConsumeTokenQuota, NoFault
<1> HIDE DEF s
<1>4. CASE s.playground /\ Goto(r, t1)
  <2> DEFINE q == 0
  <2>0. tokenNet[r] + q = tokenNet[r]
    BY <1>1
  <2>1. q \in Int /\ q = IF s.playground THEN 0 ELSE s.want
    BY <1>4
  <2> HIDE DEF q
  <2>2. /\ t1 \in Session /\ Coherent(t1, record[r])
        /\ r \notin hurt => Exactly(t1, net[r], tokenNet[r] + q)
        /\ ~SplitRefund => AtLeast(t1, net[r], tokenNet[r] + q)
    BY <1>1, <2>1, TokenTaken
  <2> HIDE DEF t1
  <2> QED BY <1>3, <1>4, <2>0, <2>2, Passes
<1>5. CASE ~s.playground /\ Goto(r, t2)
  <2>1. /\ t2 \in Session /\ SameFlags(s, t2) /\ t2.pc = "tokenDebit" /\ t2.want = s.want
        /\ t2.tokenConsumed = s.tokenConsumed
    BY <1>1, PlacesKnown DEF Session, SameFlags
  <2> HIDE DEF t2
  <2>2. Coherent(t2, record[r])
    BY <1>1, <1>5, <2>1 DEF Coherent, SameFlags, Paying
  <2>3. r \notin hurt => Exactly(t2, net[r], tokenNet[r])
    BY <1>1, <2>1 DEF Exactly, SameFlags, Paying, FundingOf, FromToken
  <2>4. ~SplitRefund => AtLeast(t2, net[r], tokenNet[r])
    BY <1>1, <2>1 DEF AtLeast, SameFlags, Paying, FundingOf, FromToken
  <2> QED BY <1>3, <1>5, <2>1, <2>2, <2>3, <2>4, Passes
<1>6. CASE Goto(r, t3)
  <2>1. /\ t3 \in Session /\ Coherent(t3, record[r])
        /\ r \notin hurt => Exactly(t3, net[r], tokenNet[r])
        /\ ~SplitRefund => AtLeast(t3, net[r], tokenNet[r])
    BY <1>1, Reject
  <2> HIDE DEF t3
  <2> QED BY <1>3, <1>6, <2>1, Passes
<1> QED BY <1>2, <1>4, <1>5, <1>6

LEMMA TokenDebitKeeps ==
    ASSUME ChargeInv, NEW r \in Requests, preConsumeToken(r)
    PROVE  ChargeInv'
<1> DEFINE s == sess[r]
           t1 == [s EXCEPT !.pc = "funding", !.tokenConsumed = s.want]
           t2 == [s EXCEPT !.pc = "rejected"]
<1>1. /\ s \in Session /\ s.pc = "tokenDebit" /\ Coherent(s, record[r])
      /\ net[r] \in Int /\ tokenNet[r] \in Int
      /\ r \notin hurt => Exactly(s, net[r], tokenNet[r])
      /\ ~SplitRefund => AtLeast(s, net[r], tokenNet[r])
  BY SessionOf DEF preConsumeToken, At
<1>2. /\ NoFunding
      /\ \/ DecreaseTokenQuota(r, s.want) /\ Goto(r, t1) /\ NoFault
         \/ Goto(r, t2) /\ Fault(r) /\ NoToken
  BY DEF preConsumeToken
<1> DEFINE q == s.want
<1>3. q \in Int /\ q = IF s.playground THEN 0 ELSE s.want
  BY <1>1 DEF Session, Coherent
<1> HIDE DEF s
<1>4. CASE DecreaseTokenQuota(r, q) /\ Goto(r, t1) /\ NoFault
  <2> HIDE DEF q
  <2>1. /\ t1 \in Session /\ Coherent(t1, record[r])
        /\ r \notin hurt => Exactly(t1, net[r], tokenNet[r] + q)
        /\ ~SplitRefund => AtLeast(t1, net[r], tokenNet[r] + q)
    BY <1>1, <1>3, TokenTaken
  <2> HIDE DEF t1
  <2> QED BY <1>2, <1>3, <1>4, <2>1, TokenMoves
<1>5. CASE Goto(r, t2) /\ Fault(r) /\ NoToken
  <2>1. /\ t2 \in Session /\ Coherent(t2, record[r])
        /\ ~SplitRefund => AtLeast(t2, net[r], tokenNet[r])
    BY <1>1, Reject
  <2>2. r \in hurt'
    BY <1>5 DEF Fault
  <2> HIDE DEF t2
  <2> QED BY <1>2, <1>5, <2>1, <2>2, Passes
<1> QED BY <1>2, <1>4, <1>5

LEMMA ReadKeeps ==
    ASSUME ChargeInv, NEW r \in Requests, ReadFails(r)
    PROVE  ChargeInv'
<1> DEFINE s == sess[r]
           t == [s EXCEPT !.pc = "rejected"]
<1>1. /\ s \in Session /\ s.pc \in {"wallet", "token", "tokenDebit"}
      /\ Coherent(s, record[r])
      /\ net[r] \in Int /\ tokenNet[r] \in Int
      /\ ~SplitRefund => AtLeast(s, net[r], tokenNet[r])
  BY SessionOf DEF ReadFails, At
<1>2. Goto(r, t) /\ Fault(r) /\ r \in hurt' /\ NoFunding /\ NoToken
  BY DEF ReadFails, Fault
<1> HIDE DEF s
<1>3. /\ t \in Session /\ Coherent(t, record[r])
      /\ ~SplitRefund => AtLeast(t, net[r], tokenNet[r])
  BY <1>1, Reject
<1> HIDE DEF t
<1> QED BY <1>2, <1>3, Passes

(* Subscriptions are numbered, so among those with room one ends first.    *)
LEMMA LeastNumber ==
    ASSUME NEW T, T \subseteq Nat, T # {}
    PROVE  \E x \in T : \A y \in T : x <= y
<1>1. PICK x \in T : \A y \in T : ~(<<y, x>> \in OpToRel(<, Nat))
  BY NatLessThanWellFounded, WFMin
<1>2. ASSUME NEW y \in T PROVE x <= y
  <2>1. ~(y < x)
    BY <1>1 DEF OpToRel
  <2> QED BY <2>1
<1> QED BY <1>2

LEMMA CandidateFits ==
    ASSUME active \subseteq Subs, NEW u \in Users, NEW q \in Nat, CanPreConsume(u, q)
    PROVE  /\ Candidate(u, q) \in Subs /\ Candidate(u, q) \in ActiveOf(u)
           /\ HasRoom(Candidate(u, q), q)
<1> DEFINE T == {s \in ActiveOf(u) : HasRoom(s, q)}
<1>1. T \subseteq Nat /\ T # {} /\ ActiveOf(u) \subseteq Subs
  BY SubscriptionConstants DEF CanPreConsume, ActiveOf
<1>2. PICK x \in T : \A y \in T : x <= y
  BY <1>1, LeastNumber
<1>3. \E s \in ActiveOf(u) : /\ HasRoom(s, q)
                            /\ \A t \in ActiveOf(u) : HasRoom(t, q) => s <= t
  BY <1>2
<1>4. Candidate(u, q) \in ActiveOf(u) /\ HasRoom(Candidate(u, q), q)
  BY <1>3 DEF Candidate
<1> QED BY <1>1, <1>4

(* The record after a pre-consume, and the one it leaves when another      *)
(* funding source pays.                                                    *)
LEMMA FundingTaken ==
    ASSUME ChargeInv, active \subseteq Subs, NEW r \in Requests, NEW q \in Nat,
           FundingPreConsume(r, q)
    PROVE  \E rec \in Record :
              /\ record' = [record EXCEPT ![r] = rec]
              /\ BySubscription(r) => rec.status = "consumed" /\ rec.amount = q
<1>0. record \in [Requests -> Record]
  BY DEF ChargeInv, SessionTypeOK
<1>1. CASE UNCHANGED subVars /\ ~BySubscription(r)
  <2>1. record' = [record EXCEPT ![r] = record[r]] /\ record[r] \in Record
    BY <1>0, <1>1 DEF subVars
  <2> QED BY <1>1, <2>1
<1>2. CASE SubscriptionPreConsume(r, q)
  <2> DEFINE c == Candidate(Owner[r], q)
             rec == [status |-> "consumed", sub |-> c, amount |-> q]
  <2>1. CanPreConsume(Owner[r], q) /\ record' = [record EXCEPT ![r] = rec]
    BY <1>2 DEF SubscriptionPreConsume, PreConsumeUserSubscription
  <2>2. c \in Subs
    BY <2>1, CandidateFits, BillingConstants
  <2> HIDE DEF c
  <2>3. rec \in Record
    BY <2>2 DEF Record
  <2> QED BY <2>1, <2>3
<1> QED BY <1>1, <1>2 DEF FundingPreConsume, WalletPreConsume, QiniuPreConsume, ByWallet, ByQiniu,
              BySubscription

LEMMA PreConsumeKeeps ==
    ASSUME ChargeInv, active \subseteq Subs, NEW r \in Requests, preConsume(r)
    PROVE  ChargeInv'
<1> DEFINE s == sess[r]
           q == s.want
           t == [s EXCEPT !.pc = "relay", !.consumed = q, !.preConsumedQuota = q]
           u(b) == [s EXCEPT !.pc = "rollback", !.insufficient = b]
<1>1. /\ s \in Session /\ s.pc = "funding" /\ Coherent(s, record[r])
      /\ net[r] \in Int /\ tokenNet[r] \in Int
      /\ r \notin hurt => Exactly(s, net[r], tokenNet[r])
      /\ ~SplitRefund => AtLeast(s, net[r], tokenNet[r])
  BY SessionOf DEF preConsume, At
<1>2. q \in Nat /\ q \in Int /\ s.tokenConsumed = q
  BY <1>1 DEF Session, Coherent
<1>3. /\ NoToken
      /\ \/ FundingPreConsume(r, q) /\ Goto(r, t) /\ NoFault
         \/ /\ \E b \in BOOLEAN : Goto(r, u(b))
            /\ NoFunding /\ (NoFault \/ Fault(r))
  BY DEF preConsume, BySubscription
<1>4. s.funding = "subscription" <=> BySubscription(r)
  BY DEF BySubscription
<1> HIDE DEF s
<1>5. CASE FundingPreConsume(r, q) /\ Goto(r, t) /\ NoFault
  <2>1. PICK rec \in Record :
           /\ record' = [record EXCEPT ![r] = rec]
           /\ BySubscription(r) => rec.status = "consumed" /\ rec.amount = q
    BY <1>2, <1>5, FundingTaken
  <2>2. net' = [net EXCEPT ![r] = @ + q] /\ hurt' = hurt
    BY <1>5 DEF FundingPreConsume, NoFault
  <2> HIDE DEF q
  <2>3. /\ t \in Session /\ SameFlags(s, t) /\ t.pc = "relay" /\ t.consumed = q
        /\ t.preConsumedQuota = q /\ t.want = s.want /\ t.tokenConsumed = q
        /\ t.funding = s.funding
    BY <1>1, <1>2, PlacesKnown DEF Session, SameFlags
  <2> HIDE DEF t
  <2>4. Coherent(t, rec)
    BY <1>1, <1>2, <1>4, <2>1, <2>3 DEF Coherent, SameFlags, Paying, q
  <2>5. r \notin hurt => Exactly(t, net[r] + q, tokenNet[r])
    BY <1>1, <1>2, <2>3 DEF Exactly, SameFlags, Paying, FundingOf, FromToken, q
  <2>6. ~SplitRefund => AtLeast(t, net[r] + q, tokenNet[r])
    BY <1>1, <1>2, <2>3 DEF AtLeast, SameFlags, Paying, FundingOf, FromToken, q
  <2> QED BY <1>2, <1>3, <1>5, <2>1, <2>2, <2>3, <2>4, <2>5, <2>6, FundingMoves
<1>6. ASSUME NEW b \in BOOLEAN, Goto(r, u(b)), NoFunding, NoFault \/ Fault(r)
      PROVE  ChargeInv'
  <2> DEFINE v == u(b)
  <2>1. /\ v \in Session /\ SameFlags(s, v) /\ v.pc = "rollback"
        /\ v.tokenConsumed = s.tokenConsumed
    BY <1>1, PlacesKnown DEF Session, SameFlags
  <2>2. Goto(r, v)
    BY <1>6
  <2> HIDE DEF v
  <2>3. Coherent(v, record[r])
    BY <1>1, <2>1 DEF Coherent, SameFlags, Paying
  <2>4. r \notin hurt' => Exactly(v, net[r], tokenNet[r])
    <3>1. r \notin hurt' => r \notin hurt
      BY <1>6 DEF NoFault, Fault
    <3> QED BY <1>1, <2>1, <3>1 DEF Exactly, SameFlags, Paying, FundingOf, FromToken
  <2>5. ~SplitRefund => AtLeast(v, net[r], tokenNet[r])
    BY <1>1, <2>1 DEF AtLeast, SameFlags, Paying, FundingOf, FromToken
  <2> QED BY <1>3, <1>6, <2>1, <2>2, <2>3, <2>4, <2>5, Passes
<1> QED BY <1>3, <1>5, <1>6

(* What a session at its end, or before it starts over, holds of a token.  *)
Takes(s) == IF s.tokenConsumed > 0 /\ ~s.playground THEN s.tokenConsumed ELSE 0

LEMMA RollbackKeeps ==
    ASSUME ChargeInv, NEW r \in Requests, rollbackToken(r)
    PROVE  ChargeInv'
<1> DEFINE s == sess[r]
           k == Takes(s)
           t == IF s.insufficient /\ s.pref = "subscription_first"
                THEN tryWallet(s) ELSE [s EXCEPT !.pc = "rejected"]
<1>1. /\ s \in Session /\ s.pc = "rollback" /\ Coherent(s, record[r])
      /\ net[r] \in Int /\ tokenNet[r] \in Int
      /\ r \notin hurt => Exactly(s, net[r], tokenNet[r])
      /\ ~SplitRefund => AtLeast(s, net[r], tokenNet[r])
  BY SessionOf DEF rollbackToken, At
<1>2. /\ Goto(r, t) /\ NoFunding
      /\ \/ s.tokenConsumed > 0 /\ ~s.playground /\ DecreaseTokenQuota(r, -s.tokenConsumed) /\ NoFault
         \/ s.tokenConsumed > 0 /\ ~s.playground /\ Fault(r) /\ NoToken
         \/ ~(s.tokenConsumed > 0 /\ ~s.playground) /\ NoToken /\ NoFault
  BY DEF rollbackToken
<1> HIDE DEF s
<1>3. /\ t \in Session /\ SameFlags(s, t) /\ t.pc \in {"wallet", "rejected"}
      /\ t.pc = "wallet" => t.tokenConsumed = 0
  <2> DEFINE v == [s EXCEPT !.pc = "rejected"]
  <2>1. v \in Session /\ SameFlags(s, v) /\ v.pc = "rejected"
    BY <1>1, PlacesKnown DEF Session, SameFlags
  <2> HIDE DEF v
  <2>2. t = tryWallet(s) \/ t = v
    BY DEF v
  <2> HIDE DEF t
  <2> QED BY <1>1, <2>1, <2>2, TryWallet
<1> HIDE DEF t
<1>4. Coherent(t, record[r])
  BY <1>1, <1>3 DEF Coherent, SameFlags, Paying
<1>5. FundingOf(t) = 0 /\ FromToken(t) = 0 /\ t.pc # "done"
  BY <1>3 DEF FundingOf, FromToken, Paying
<1>6. s.tokenConsumed \in Nat
  BY <1>1 DEF Session
<1>7. FundingOf(s) = 0 /\ FromToken(s) = k /\ k \in Nat
  BY <1>1, <1>6 DEF FundingOf, FromToken, Paying, Takes
<1> HIDE DEF k
<1>8. /\ r \notin hurt => net[r] = 0 /\ tokenNet[r] = k
      /\ ~SplitRefund => net[r] >= 0 /\ tokenNet[r] >= k
  BY <1>1, <1>7 DEF Exactly, AtLeast
<1>9. CASE DecreaseTokenQuota(r, -k) /\ NoFault
  <2>1. /\ r \notin hurt => Exactly(t, net[r], tokenNet[r] + (-k))
        /\ ~SplitRefund => AtLeast(t, net[r], tokenNet[r] + (-k))
    BY <1>1, <1>5, <1>7, <1>8 DEF Exactly, AtLeast
  <2>2. -k \in Int
    BY <1>7
  <2> DEFINE q == -k
  <2>3. /\ q \in Int /\ DecreaseTokenQuota(r, q)
        /\ r \notin hurt => Exactly(t, net[r], tokenNet[r] + q)
        /\ ~SplitRefund => AtLeast(t, net[r], tokenNet[r] + q)
    BY <1>9, <2>1, <2>2
  <2> HIDE DEF q
  <2> QED BY <1>2, <1>3, <1>4, <1>9, <2>3, TokenMoves
<1>10. CASE NoToken /\ (Fault(r) \/ (k = 0 /\ NoFault))
  <2>1. r \notin hurt' => r \notin hurt /\ k = 0
    BY <1>10 DEF Fault, NoFault
  <2>2. r \notin hurt' => Exactly(t, net[r], tokenNet[r])
    BY <1>5, <1>8, <2>1 DEF Exactly
  <2>3. ~SplitRefund => AtLeast(t, net[r], tokenNet[r])
    BY <1>1, <1>5, <1>7, <1>8 DEF AtLeast
  <2> QED BY <1>2, <1>3, <1>4, <1>10, <2>2, <2>3, Passes
<1> QED BY <1>2, <1>9, <1>10 DEF k, Takes

(* The record of a request that pre-consumed stays what it was.            *)
LEMMA SettleLeavesRecord ==
    ASSUME NEW r \in Requests, NEW d, FundingSettle(r, d)
    PROVE  record' = record
  BY DEF FundingSettle, WalletSettle, QiniuSettle, SubscriptionSettle, subVars

LEMMA SettleKeeps ==
    ASSUME ChargeInv, NEW r \in Requests, Settle(r)
    PROVE  ChargeInv'
<1> DEFINE s == sess[r]
           a == net[r]
           b == tokenNet[r]
<1>1. /\ s \in Session /\ s.pc = "relay" /\ Coherent(s, record[r])
      /\ a \in Int /\ b \in Int /\ record[r] \in Record
      /\ r \notin hurt => Exactly(s, a, b)
      /\ ~SplitRefund => AtLeast(s, a, b)
  BY SessionOf DEF Settle, At
<1>2. PICK p \in Prices :
         LET d == p - s.preConsumedQuota
         IN  \/ /\ d = 0
                /\ Goto(r, [s EXCEPT !.pc = "done", !.settled = TRUE,
                                     !.answered = TRUE, !.actual = p])
                /\ NoFunding /\ NoFault
             \/ /\ d # 0
                /\ FundingSettle(r, d)
                /\ Goto(r, [s EXCEPT !.pc = "settleToken", !.fundingSettled = TRUE,
                                     !.want = d, !.answered = TRUE, !.actual = p,
                                     !.consumed = ConsumedAfterSettle(r, d, TRUE)])
                /\ NoFault
             \/ /\ d # 0
                /\ \/ SettleRefuses(r, d) /\ NoFault
                   \/ Fault(r)
                /\ Goto(r, [s EXCEPT !.pc = "done", !.answered = TRUE,
                                     !.consumed = ConsumedAfterSettle(r, d, FALSE)])
                /\ NoFunding
  BY DEF Settle
<1>3. NoToken
  BY DEF Settle
<1> DEFINE d == p - s.preConsumedQuota
           c1 == ConsumedAfterSettle(r, d, TRUE)
           c2 == ConsumedAfterSettle(r, d, FALSE)
<1>4. /\ p \in Nat /\ s.preConsumedQuota \in Nat /\ s.consumed \in Int /\ s.want \in Nat
      /\ s.tokenConsumed \in Nat
  BY <1>1, BillingConstants DEF Session, Coherent, Paying
<1>5. d \in Int /\ s.preConsumedQuota + d = p
  BY <1>4
<1>6. c1 \in Int /\ c2 \in Int
  BY <1>4, <1>5 DEF ConsumedAfterSettle, Positive
<1>7. /\ s.preConsumedQuota = s.want /\ s.tokenConsumed = s.want
      /\ FundingOf(s) = s.want /\ FromToken(s) = IF s.playground THEN 0 ELSE s.want
  BY <1>1 DEF Coherent, Paying, FundingOf, FromToken
<1> HIDE DEF d, c1, c2
<1>8. CASE /\ d = 0
           /\ Goto(r, [s EXCEPT !.pc = "done", !.settled = TRUE,
                                !.answered = TRUE, !.actual = p])
           /\ NoFunding /\ NoFault
  <2> DEFINE t == [s EXCEPT !.pc = "done", !.settled = TRUE,
                            !.answered = TRUE, !.actual = p]
  <2> HIDE DEF s, a, b
  <2>1. /\ t \in Session /\ t.pc = "done" /\ t.settled = TRUE /\ t.actual = p
        /\ t.playground = s.playground
    BY <1>1, <1>4, PlacesKnown DEF Session
  <2>2. Goto(r, t) /\ hurt' = hurt
    BY <1>8 DEF NoFault
  <2> HIDE DEF t
  <2>3. Coherent(t, record[r])
    BY <2>1 DEF Coherent, Paying
  <2>4. p = s.want
    BY <1>4, <1>5, <1>7, <1>8
  <2>5. r \notin hurt => Exactly(t, a, b)
    BY <1>1, <1>7, <2>1, <2>4 DEF Exactly, FundingOf, FromToken, TakenBySession, Paying
  <2>6. ~SplitRefund => AtLeast(t, a, b)
    BY <1>1, <1>4, <1>7, <2>1 DEF AtLeast
  <2> QED BY <1>3, <1>8, <2>1, <2>2, <2>3, <2>5, <2>6, Passes DEF a, b
<1>9. CASE /\ d # 0
           /\ FundingSettle(r, d)
           /\ Goto(r, [s EXCEPT !.pc = "settleToken", !.fundingSettled = TRUE,
                                !.want = d, !.answered = TRUE, !.actual = p,
                                !.consumed = c1])
           /\ NoFault
  <2> DEFINE t == [s EXCEPT !.pc = "settleToken", !.fundingSettled = TRUE,
                            !.want = d, !.answered = TRUE, !.actual = p, !.consumed = c1]
  <2>0. record' = [record EXCEPT ![r] = record[r]] /\ net' = [net EXCEPT ![r] = @ + d]
    BY <1>9, SettleLeavesRecord DEF FundingSettle, ChargeInv, SessionTypeOK
  <2> HIDE DEF s, a, b
  <2>1. /\ t \in Session /\ t.pc = "settleToken" /\ t.settled = s.settled /\ t.actual = p
        /\ t.playground = s.playground /\ t.refunded = s.refunded /\ t.want = d
        /\ t.preConsumedQuota = s.preConsumedQuota
    BY <1>1, <1>4, <1>5, <1>6, PlacesKnown DEF Session
  <2>2. Goto(r, t) /\ hurt' = hurt
    BY <1>9 DEF NoFault
  <2> HIDE DEF t
  <2>3. Coherent(t, record[r])
    BY <1>1, <2>1 DEF Coherent, Paying, d
  <2>4. r \notin hurt => Exactly(t, a + d, b)
    BY <1>1, <1>4, <1>5, <1>7, <2>1 DEF Exactly, FundingOf, FromToken, Paying
  <2>5. ~SplitRefund => AtLeast(t, a + d, b)
    BY <1>1, <1>4, <1>5, <1>7, <2>1 DEF AtLeast, FundingOf, FromToken, Paying
  <2> QED BY <1>1, <1>3, <1>5, <1>9, <2>0, <2>1, <2>2, <2>3, <2>4, <2>5, FundingMoves DEF a, b
<1>10. CASE /\ d # 0
            /\ \/ SettleRefuses(r, d) /\ NoFault
               \/ Fault(r)
            /\ Goto(r, [s EXCEPT !.pc = "done", !.answered = TRUE, !.consumed = c2])
            /\ NoFunding
  <2> DEFINE t == [s EXCEPT !.pc = "done", !.answered = TRUE, !.consumed = c2]
  <2> HIDE DEF s, a, b
  <2>1. /\ t \in Session /\ t.pc = "done" /\ t.settled = s.settled /\ t.answered = TRUE
        /\ t.playground = s.playground /\ t.preConsumedQuota = s.preConsumedQuota
    BY <1>1, <1>6, PlacesKnown DEF Session
  <2>2. Goto(r, t)
    BY <1>10
  <2>3. (NoFault \/ Fault(r)) /\ (r \notin hurt' => r \notin hurt)
    BY <1>10 DEF NoFault, Fault
  <2> HIDE DEF t
  <2>4. Coherent(t, record[r]) /\ ~t.settled
    BY <1>1, <2>1 DEF Coherent, Paying
  <2>5. r \notin hurt' => Exactly(t, a, b)
    BY <1>1, <1>7, <2>1, <2>3, <2>4 DEF Exactly, FundingOf, FromToken, TakenBySession, Paying
  <2>6. ~SplitRefund => AtLeast(t, a, b)
    BY <1>1, <1>4, <1>7, <2>1 DEF AtLeast
  <2> QED BY <1>3, <1>10, <2>1, <2>2, <2>3, <2>4, <2>5, <2>6, Passes DEF a, b
<1> QED BY <1>2, <1>8, <1>9, <1>10 DEF d, c1, c2

LEMMA SettleTokenKeeps ==
    ASSUME ChargeInv, NEW r \in Requests, settleToken(r)
    PROVE  ChargeInv'
<1> DEFINE s == sess[r]
           q == s.want
           t == [s EXCEPT !.pc = "done", !.settled = TRUE]
<1>1. /\ s \in Session /\ s.pc = "settleToken" /\ Coherent(s, record[r])
      /\ net[r] \in Int /\ tokenNet[r] \in Int
      /\ r \notin hurt => Exactly(s, net[r], tokenNet[r])
      /\ ~SplitRefund => AtLeast(s, net[r], tokenNet[r])
  BY SessionOf DEF settleToken, At
<1>2. /\ Goto(r, t) /\ NoFunding
      /\ \/ ~s.playground /\ DecreaseTokenQuota(r, q) /\ NoFault
         \/ ~s.playground /\ Fault(r) /\ NoToken
         \/ s.playground /\ NoToken /\ NoFault
  BY DEF settleToken
<1> HIDE DEF s
<1>3. /\ q \in Int /\ s.preConsumedQuota \in Nat /\ s.actual \in Nat
      /\ q = s.actual - s.preConsumedQuota
  BY <1>1 DEF Session, Coherent
<1>4. /\ t \in Session /\ t.pc = "done" /\ t.settled = TRUE /\ t.actual = s.actual
      /\ t.playground = s.playground
  BY <1>1, PlacesKnown DEF Session
<1> HIDE DEF t, q
<1>5. Coherent(t, record[r])
  BY <1>4 DEF Coherent, Paying
<1>6. /\ FundingOf(s) = s.actual
      /\ FromToken(s) = IF s.playground THEN 0 ELSE s.preConsumedQuota
      /\ FundingOf(t) = s.actual /\ FromToken(t) = IF s.playground THEN 0 ELSE s.actual
  BY <1>1, <1>4 DEF FundingOf, FromToken, TakenBySession, Paying
<1>7. CASE ~s.playground /\ DecreaseTokenQuota(r, q) /\ NoFault
  <2>1. r \notin hurt => Exactly(t, net[r], tokenNet[r] + q)
    BY <1>1, <1>3, <1>6, <1>7 DEF Exactly
  <2>2. ~SplitRefund => AtLeast(t, net[r], tokenNet[r] + q)
    BY <1>1, <1>3, <1>4, <1>6, <1>7 DEF AtLeast
  <2> QED BY <1>2, <1>3, <1>4, <1>5, <1>7, <2>1, <2>2, TokenMoves
<1>8. CASE NoToken /\ (Fault(r) \/ (s.playground /\ NoFault))
  <2>1. r \notin hurt' => r \notin hurt /\ s.playground
    BY <1>8 DEF Fault, NoFault
  <2>2. r \notin hurt' => Exactly(t, net[r], tokenNet[r])
    BY <1>1, <1>6, <2>1 DEF Exactly
  <2>3. ~SplitRefund => AtLeast(t, net[r], tokenNet[r])
    BY <1>1, <1>3, <1>4, <1>6 DEF AtLeast
  <2> QED BY <1>2, <1>4, <1>5, <1>8, <2>2, <2>3, Passes
<1> QED BY <1>2, <1>7, <1>8

(* Upstream has failed, and Refund decides whether there is anything to    *)
(* give back.                                                              *)
LEMMA FailKeeps ==
    ASSUME ChargeInv, NEW r \in Requests, UpstreamFails(r)
    PROVE  ChargeInv'
<1> DEFINE s == sess[r]
           t == [s EXCEPT !.pc = "failed"]
<1>1. /\ s \in Session /\ s.pc = "relay" /\ Coherent(s, record[r])
      /\ net[r] \in Int /\ tokenNet[r] \in Int
      /\ r \notin hurt => Exactly(s, net[r], tokenNet[r])
      /\ ~SplitRefund => AtLeast(s, net[r], tokenNet[r])
  BY SessionOf DEF UpstreamFails, At
<1>2. Goto(r, t) /\ NoFunding /\ NoToken /\ NoFault /\ hurt' = hurt
  BY DEF UpstreamFails, NoFault
<1> HIDE DEF s
<1>3. /\ t \in Session /\ SameFlags(s, t) /\ t.pc = "failed" /\ t.want = s.want
      /\ t.tokenConsumed = s.tokenConsumed /\ t.consumed = s.consumed
      /\ t.preConsumedQuota = s.preConsumedQuota /\ t.funding = s.funding
  BY <1>1, PlacesKnown DEF Session, SameFlags
<1> HIDE DEF t
<1>4. Coherent(t, record[r])
  BY <1>1, <1>3 DEF Coherent, SameFlags, Paying
<1>5. r \notin hurt => Exactly(t, net[r], tokenNet[r])
  BY <1>1, <1>3 DEF Exactly, SameFlags, Paying, FundingOf, FromToken
<1>6. ~SplitRefund => AtLeast(t, net[r], tokenNet[r])
  BY <1>1, <1>3 DEF AtLeast, SameFlags, Paying, FundingOf, FromToken
<1> QED BY <1>2, <1>3, <1>4, <1>5, <1>6, Passes

LEMMA RefundKeeps ==
    ASSUME ChargeInv, NEW r \in Requests, Refund(r)
    PROVE  ChargeInv'
<1> DEFINE s == sess[r]
           t1 == [s EXCEPT !.pc = "refundFunding", !.refunded = TRUE]
           t2 == [s EXCEPT !.pc = "done"]
<1>1. /\ s \in Session /\ s.pc = "failed" /\ Coherent(s, record[r])
      /\ net[r] \in Int /\ tokenNet[r] \in Int
      /\ r \notin hurt => Exactly(s, net[r], tokenNet[r])
      /\ ~SplitRefund => AtLeast(s, net[r], tokenNet[r])
  BY SessionOf DEF Refund, At
<1>2. NoFunding /\ NoToken /\ NoFault /\ hurt' = hurt
  BY DEF Refund, NoFault
<1>3. /\ s.tokenConsumed \in Nat /\ s.want = s.tokenConsumed
      /\ ~(s.settled \/ s.refunded \/ s.fundingSettled) /\ ~s.answered
  BY <1>1 DEF Session, Coherent, Paying
<1>4. \/ Goto(r, t1)
      \/ Goto(r, t2) /\ s.tokenConsumed = 0
  BY <1>3 DEF Refund, needsRefundLocked
<1> HIDE DEF s
<1>5. CASE Goto(r, t1)
  <2>1. /\ t1 \in Session /\ t1.pc = "refundFunding" /\ t1.want = s.want
        /\ t1.tokenConsumed = s.tokenConsumed /\ t1.consumed = s.consumed
        /\ t1.preConsumedQuota = s.preConsumedQuota /\ t1.funding = s.funding
        /\ t1.settled = s.settled /\ t1.fundingSettled = s.fundingSettled
        /\ t1.answered = s.answered /\ t1.playground = s.playground
    BY <1>1, PlacesKnown DEF Session
  <2> HIDE DEF t1
  <2>2. Coherent(t1, record[r])
    BY <1>1, <2>1 DEF Coherent, Paying
  <2>3. r \notin hurt => Exactly(t1, net[r], tokenNet[r])
    BY <1>1, <2>1 DEF Exactly, Paying, FundingOf, FromToken
  <2>4. ~SplitRefund => AtLeast(t1, net[r], tokenNet[r])
    BY <1>1, <2>1 DEF AtLeast, Paying, FundingOf, FromToken
  <2> QED BY <1>2, <1>5, <2>1, <2>2, <2>3, <2>4, Passes
<1>6. CASE Goto(r, t2) /\ s.tokenConsumed = 0
  <2>1. t2 \in Session /\ SameFlags(s, t2) /\ t2.pc = "done"
    BY <1>1, PlacesKnown DEF Session, SameFlags
  <2> HIDE DEF t2
  <2>2. Coherent(t2, record[r])
    BY <2>1 DEF Coherent, Paying
  <2>3. FundingOf(s) = 0 /\ FromToken(s) = 0
    BY <1>1, <1>3, <1>6 DEF FundingOf, FromToken, Paying
  <2>4. FundingOf(t2) = 0 /\ FromToken(t2) = 0
    BY <1>3, <2>1 DEF FundingOf, FromToken, TakenBySession, Paying, SameFlags
  <2>5. r \notin hurt => Exactly(t2, net[r], tokenNet[r])
    BY <1>1, <2>3, <2>4 DEF Exactly
  <2>6. ~SplitRefund => AtLeast(t2, net[r], tokenNet[r])
    BY <1>1, <2>1, <2>3 DEF AtLeast
  <2> QED BY <1>2, <1>6, <2>1, <2>2, <2>5, <2>6, Passes
<1> QED BY <1>4, <1>5, <1>6

(* The funding source has been asked, and the token is next.               *)
LEMMA ToToken ==
    ASSUME NEW s \in Session, NEW rec, s.pc = "refundFunding", Coherent(s, rec),
           NEW n \in Nat, NEW t,
           t \in {[s EXCEPT !.pc = "refundToken"], [s EXCEPT !.attempts = n, !.pc = "refundToken"]}
    PROVE  /\ t \in Session /\ t.pc = "refundToken" /\ FundingOf(t) = 0
           /\ FromToken(t) = FromToken(s)
           /\ \A x : Coherent(t, x)
<1>1. ASSUME t = [s EXCEPT !.pc = "refundToken"]
      PROVE  /\ t \in Session /\ SameFlags(s, t) /\ t.pc = "refundToken"
             /\ t.tokenConsumed = s.tokenConsumed
  BY <1>1, PlacesKnown DEF Session, SameFlags
<1>2. ASSUME t = [s EXCEPT !.attempts = n, !.pc = "refundToken"]
      PROVE  /\ t \in Session /\ SameFlags(s, t) /\ t.pc = "refundToken"
             /\ t.tokenConsumed = s.tokenConsumed
  BY <1>2, PlacesKnown DEF Session, SameFlags
<1>3. /\ t \in Session /\ SameFlags(s, t) /\ t.pc = "refundToken"
      /\ t.tokenConsumed = s.tokenConsumed
  BY <1>1, <1>2
<1>4. \A x : Coherent(t, x)
  BY <1>3 DEF Coherent, SameFlags, Paying
<1>5. FundingOf(t) = 0
  BY <1>3 DEF FundingOf, Paying
<1>6. FromToken(t) = FromToken(s)
  BY <1>3 DEF FromToken, SameFlags, Paying
<1> QED BY <1>3, <1>4, <1>5, <1>6

LEMMA RefundWalletKeeps ==
    ASSUME ChargeInv, NEW r \in Requests, refundWallet(r)
    PROVE  ChargeInv'
<1> DEFINE s == sess[r]
           t == [s EXCEPT !.pc = "refundToken"]
           k == s.want
           q == -k
<1>1. /\ s \in Session /\ s.pc = "refundFunding" /\ Coherent(s, record[r])
      /\ net[r] \in Int /\ tokenNet[r] \in Int /\ record[r] \in Record
      /\ r \notin hurt => Exactly(s, net[r], tokenNet[r])
      /\ ~SplitRefund => AtLeast(s, net[r], tokenNet[r])
  BY SessionOf DEF refundWallet, At
<1>2. /\ Goto(r, t) /\ NoToken
      /\ \/ WalletRefund(r) /\ NoFault
         \/ Fault(r) /\ NoFunding
  BY DEF refundWallet
<1>3. k \in Nat /\ s.consumed = k /\ FundingOf(s) = k
  BY <1>1 DEF Session, Coherent, Paying, FundingOf
<1>4. WalletRefund(r) => /\ record' = [record EXCEPT ![r] = record[r]]
                         /\ net' = [net EXCEPT ![r] = @ - k]
  <2>1. Positive(s.consumed) = k
    BY <1>3 DEF Positive
  <2>2. WalletRefund(r) => net' = [net EXCEPT ![r] = @ - k]
    BY <2>1 DEF WalletRefund
  <2>3. WalletRefund(r) => record' = [record EXCEPT ![r] = record[r]]
    BY DEF WalletRefund, subVars, ChargeInv, SessionTypeOK
  <2> QED BY <2>2, <2>3
<1>5. t \in Session /\ t.pc = "refundToken" /\ FundingOf(t) = 0
      /\ FromToken(t) = FromToken(s) /\ Coherent(t, record[r])
  BY <1>1, ToToken
<1> HIDE DEF s, t, k
<1>6. q \in Int /\ net[r] + q = net[r] - k
  BY <1>1, <1>3
<1> HIDE DEF q
<1>7. CASE WalletRefund(r) /\ NoFault
  <2>1. net' = [net EXCEPT ![r] = @ + q]
    BY <1>4, <1>6, <1>7
  <2>2. r \notin hurt => Exactly(t, net[r] + q, tokenNet[r])
    BY <1>1, <1>3, <1>5, <1>6 DEF Exactly
  <2>3. ~SplitRefund => AtLeast(t, net[r] + q, tokenNet[r])
    BY <1>1, <1>3, <1>5, <1>6 DEF AtLeast
  <2>4. hurt' = hurt
    BY <1>7 DEF NoFault
  <2> QED BY <1>1, <1>2, <1>4, <1>5, <1>6, <1>7, <2>1, <2>2, <2>3, <2>4, FundingMoves
<1>8. CASE Fault(r) /\ NoFunding
  <2>1. r \in hurt'
    BY <1>8 DEF Fault
  <2>2. ~SplitRefund => AtLeast(t, net[r], tokenNet[r])
    BY <1>1, <1>3, <1>5 DEF AtLeast
  <2> QED BY <1>2, <1>5, <1>8, <2>1, <2>2, Passes
<1> QED BY <1>2, <1>7, <1>8

LEMMA RetryKeeps ==
    ASSUME ChargeInv, NEW r \in Requests, refundWithRetry(r)
    PROVE  ChargeInv'
<1> DEFINE s == sess[r]
           k == s.want
           q == -k
           n == s.attempts + 1
           t == [s EXCEPT !.pc = "refundToken"]
           p == IF n < maxAttempts THEN s.pc ELSE "refundToken"
           v == [s EXCEPT !.attempts = n, !.pc = p]
<1>1. /\ s \in Session /\ s.pc = "refundFunding" /\ Coherent(s, record[r])
      /\ s.funding = "subscription"
      /\ net[r] \in Int /\ tokenNet[r] \in Int /\ record[r] \in Record
      /\ r \notin hurt => Exactly(s, net[r], tokenNet[r])
      /\ ~SplitRefund => AtLeast(s, net[r], tokenNet[r])
  BY SessionOf DEF refundWithRetry, At, BySubscription
<1>2. /\ NoToken
      /\ \/ SubscriptionRefund(r) /\ Goto(r, t) /\ NoFault
         \/ Goto(r, v) /\ Fault(r) /\ NoFunding
         \/ /\ SplitRefund /\ RefundHalfCommitted(r) /\ Goto(r, v) /\ Fault(r)
            /\ net' = [net EXCEPT ![r] = @ - record[r].amount]
  BY DEF refundWithRetry, RefundFailed
<1>3. /\ k \in Nat /\ k \in Int /\ FundingOf(s) = k
      /\ record[r].status = "consumed" /\ record[r].amount = k
  BY <1>1 DEF Session, Coherent, Paying, FundingOf
<1>4. n \in Nat
  BY <1>1 DEF Session
<1>5. /\ t \in Session /\ t.pc = "refundToken" /\ FundingOf(t) = 0
      /\ FromToken(t) = FromToken(s) /\ \A x : Coherent(t, x)
  BY <1>1, <1>4, ToToken
<1>6. \/ /\ v \in Session /\ v.pc = "refundToken" /\ FundingOf(v) = 0
         /\ FromToken(v) = FromToken(s) /\ Coherent(v, record[r])
      \/ /\ v \in Session /\ v.pc = "refundFunding" /\ FundingOf(v) = FundingOf(s)
         /\ FromToken(v) = FromToken(s) /\ Coherent(v, record[r])
  <2>1. CASE p = "refundToken"
    <3>1. v = [s EXCEPT !.attempts = n, !.pc = "refundToken"]
      BY <2>1
    <3> HIDE DEF v, n
    <3> QED BY <1>1, <1>4, <3>1, ToToken
  <2>2. CASE p = "refundFunding"
    <3> HIDE DEF n, p
    <3>1. /\ v \in Session /\ SameFlags(s, v) /\ v.pc = "refundFunding" /\ v.want = s.want
          /\ v.tokenConsumed = s.tokenConsumed /\ v.consumed = s.consumed
          /\ v.preConsumedQuota = s.preConsumedQuota /\ v.funding = s.funding
      BY <1>1, <1>4, <2>2, PlacesKnown DEF Session, SameFlags
    <3> HIDE DEF v, s
    <3>2. Coherent(v, record[r])
      BY <1>1, <3>1 DEF Coherent, SameFlags, Paying
    <3>3. FundingOf(v) = FundingOf(s) /\ FromToken(v) = FromToken(s)
      BY <1>1, <3>1 DEF FundingOf, FromToken, SameFlags, Paying
    <3> QED BY <3>1, <3>2, <3>3
  <2> QED BY <1>1, <2>1, <2>2
<1>7. (SubscriptionRefund(r) \/ RefundHalfCommitted(r)) =>
         \E rec \in Record : /\ record' = [record EXCEPT ![r] = rec]
                             /\ RefundHalfCommitted(r) => rec = record[r]
  <2>0. record \in [Requests -> Record]
    BY DEF ChargeInv, SessionTypeOK
  <2>1. CASE SubscriptionRefund(r)
    <3>1. record' = [record EXCEPT ![r].status = "refunded"]
      BY <1>3, <2>1 DEF SubscriptionRefund, RefundSubscriptionPreConsume
    <3> DEFINE rec == [record[r] EXCEPT !.status = "refunded"]
    <3>2. rec \in Record /\ record' = [record EXCEPT ![r] = rec] /\ rec.status = "refunded"
      BY <1>1, <3>1 DEF Record
    <3>3. record'[r] # record[r]
      BY <1>3, <2>0, <3>2
    <3>4. ~RefundHalfCommitted(r)
      BY <3>3 DEF RefundHalfCommitted
    <3> QED BY <3>2, <3>4
  <2>2. CASE RefundHalfCommitted(r)
    <3>1. record' = [record EXCEPT ![r] = record[r]] /\ record[r] \in Record
      BY <1>1, <2>0, <2>2 DEF RefundHalfCommitted
    <3> QED BY <3>1
  <2> QED BY <2>1, <2>2
<1>8. SubscriptionRefund(r) => net' = [net EXCEPT ![r] = @ - k]
  BY <1>3 DEF SubscriptionRefund
<1> HIDE DEF s, t, v, k
<1>9. q \in Int /\ net[r] + q = net[r] - k
  BY <1>1, <1>3
<1> HIDE DEF q
<1>10. CASE SubscriptionRefund(r) /\ Goto(r, t) /\ NoFault
  <2>1. PICK rec \in Record : record' = [record EXCEPT ![r] = rec]
    BY <1>7, <1>10
  <2>2. net' = [net EXCEPT ![r] = @ + q] /\ hurt' = hurt
    BY <1>8, <1>9, <1>10 DEF NoFault
  <2>3. r \notin hurt => Exactly(t, net[r] + q, tokenNet[r])
    BY <1>1, <1>3, <1>5, <1>9 DEF Exactly
  <2>4. ~SplitRefund => AtLeast(t, net[r] + q, tokenNet[r])
    BY <1>1, <1>3, <1>5, <1>9 DEF AtLeast
  <2>5. Coherent(t, rec)
    BY <1>5
  <2> QED BY <1>2, <1>5, <1>9, <1>10, <2>1, <2>2, <2>3, <2>4, <2>5, FundingMoves
<1>11. CASE Goto(r, v) /\ Fault(r) /\ NoFunding
  <2>1. r \in hurt'
    BY <1>11 DEF Fault
  <2>2. ~SplitRefund => AtLeast(v, net[r], tokenNet[r])
    BY <1>1, <1>3, <1>6 DEF AtLeast
  <2> QED BY <1>2, <1>6, <1>11, <2>1, <2>2, Passes
<1>12. CASE /\ SplitRefund /\ RefundHalfCommitted(r) /\ Goto(r, v) /\ Fault(r)
            /\ net' = [net EXCEPT ![r] = @ - record[r].amount]
  <2>1. r \in hurt'
    BY <1>12 DEF Fault
  <2>2. record' = [record EXCEPT ![r] = record[r]]
    BY <1>7, <1>12
  <2>3. net' = [net EXCEPT ![r] = @ + q]
    BY <1>3, <1>9, <1>12
  <2> QED BY <1>1, <1>2, <1>6, <1>9, <1>12, <2>1, <2>2, <2>3, FundingMoves
<1> QED BY <1>2, <1>10, <1>11, <1>12

LEMMA RefundTokenKeeps ==
    ASSUME ChargeInv, NEW r \in Requests, refundToken(r)
    PROVE  ChargeInv'
<1> DEFINE s == sess[r]
           k == Takes(s)
           q == -k
           t == [s EXCEPT !.pc = "done"]
<1>1. /\ s \in Session /\ s.pc = "refundToken" /\ Coherent(s, record[r])
      /\ net[r] \in Int /\ tokenNet[r] \in Int
      /\ r \notin hurt => Exactly(s, net[r], tokenNet[r])
      /\ ~SplitRefund => AtLeast(s, net[r], tokenNet[r])
  BY SessionOf DEF refundToken, At
<1>2. /\ Goto(r, t) /\ NoFunding
      /\ \/ s.tokenConsumed > 0 /\ ~s.playground /\ DecreaseTokenQuota(r, -s.tokenConsumed) /\ NoFault
         \/ s.tokenConsumed > 0 /\ ~s.playground /\ Fault(r) /\ NoToken
         \/ ~(s.tokenConsumed > 0 /\ ~s.playground) /\ NoToken /\ NoFault
  BY DEF refundToken
<1> HIDE DEF s
<1>3. t \in Session /\ SameFlags(s, t) /\ t.pc = "done"
  BY <1>1, PlacesKnown DEF Session, SameFlags
<1> HIDE DEF t
<1>4. Coherent(t, record[r])
  BY <1>3 DEF Coherent, Paying
<1>5. FundingOf(t) = 0 /\ FromToken(t) = 0
  BY <1>1, <1>3 DEF FundingOf, FromToken, TakenBySession, Paying, SameFlags, Coherent
<1>6. s.tokenConsumed \in Nat
  BY <1>1 DEF Session
<1>7. FundingOf(s) = 0 /\ FromToken(s) = k /\ k \in Nat
  BY <1>1, <1>6 DEF FundingOf, FromToken, Paying, Takes
<1> HIDE DEF k
<1>8. /\ r \notin hurt => net[r] = 0 /\ tokenNet[r] = k
      /\ ~SplitRefund => net[r] >= 0 /\ tokenNet[r] >= k
  BY <1>1, <1>7 DEF Exactly, AtLeast
<1>9. CASE DecreaseTokenQuota(r, q) /\ NoFault
  <2>1. /\ r \notin hurt => Exactly(t, net[r], tokenNet[r] + q)
        /\ ~SplitRefund => AtLeast(t, net[r], tokenNet[r] + q)
    BY <1>1, <1>3, <1>5, <1>7, <1>8 DEF Exactly, AtLeast
  <2>2. q \in Int
    BY <1>7
  <2> HIDE DEF q
  <2> QED BY <1>2, <1>3, <1>4, <1>9, <2>1, <2>2, TokenMoves
<1>10. CASE NoToken /\ (Fault(r) \/ (k = 0 /\ NoFault))
  <2>1. r \notin hurt' => r \notin hurt /\ k = 0
    BY <1>10 DEF Fault, NoFault
  <2>2. r \notin hurt' => Exactly(t, net[r], tokenNet[r])
    BY <1>5, <1>8, <2>1 DEF Exactly
  <2>3. ~SplitRefund => AtLeast(t, net[r], tokenNet[r])
    BY <1>1, <1>3, <1>7, <1>8 DEF AtLeast
  <2> QED BY <1>2, <1>3, <1>4, <1>10, <2>2, <2>3, Passes
<1> QED BY <1>2, <1>9, <1>10 DEF k, Takes

(* The step that no request takes: time passes for the subscriptions.      *)
LEMMA TimeKeeps ==
    ASSUME ChargeInv, UNCHANGED <<sess, record, token, net, tokenNet, hurt>>
    PROVE  ChargeInv'
  BY DEF ChargeInv, SessionTypeOK, Right

LEMMA ChargeStarts == ASSUME Init PROVE ChargeInv
<1>1. /\ sess = [r \in Requests |-> NewSession] /\ token = InitToken
      /\ net = [r \in Requests |-> 0] /\ tokenNet = [r \in Requests |-> 0] /\ hurt = {}
      /\ record = [r \in Requests |-> NoRecord]
  BY DEF Init, SubscriptionInit
<1>2. NewSession \in Session /\ NoRecord \in Record
  BY DEF NewSession, NoRecord, Session, Record, PCs, Preferences
<1>3. SessionTypeOK
  BY <1>1, <1>2, BillingConstants DEF SessionTypeOK
<1>4. Coherent(NewSession, NoRecord) /\ Exactly(NewSession, 0, 0) /\ AtLeast(NewSession, 0, 0)
  BY DEF NewSession, Coherent, Exactly, AtLeast, FundingOf, FromToken, Paying
<1>5. ASSUME NEW r \in Requests PROVE Right(r)
  BY <1>1, <1>4 DEF Right
<1> QED BY <1>3, <1>5 DEF ChargeInv

LEMMA ChargeKept ==
    ASSUME ChargeInv, active \subseteq Subs, [Next]_vars
    PROVE  ChargeInv'
<1>1. ASSUME NEW r \in Requests, NewBillingSession(r) \/ Step(r)
      PROVE  ChargeInv'
  BY <1>1, NewKeeps, BuildKeeps, TokenCheckKeeps, TokenDebitKeeps, ReadKeeps, PreConsumeKeeps,
     RollbackKeeps, SettleKeeps, SettleTokenKeeps, FailKeeps, RefundKeeps, RefundWalletKeeps,
     RetryKeeps, RefundTokenKeeps DEF Step
<1>2. CASE SubscriptionStep
  <2>1. UNCHANGED <<sess, record, token, net, tokenNet, hurt>>
    BY <1>2 DEF SubscriptionStep, PeriodEnds, Expire, ResetDueSubscriptions
  <2> QED BY <2>1, TimeKeeps
<1>3. CASE UNCHANGED vars
  <2>1. UNCHANGED <<sess, record, token, net, tokenNet, hurt>>
    BY <1>3 DEF vars, subVars
  <2> QED BY <2>1, TimeKeeps
<1> QED BY <1>1, <1>2, <1>3 DEF Next

-----------------------------------------------------------------------------
(* The wallet under the sessions.                                          *)

(* Relay billing neither moves quota outside the wallet nor leaves         *)
(* fractions; what it found there stays until a backfill books it.         *)
Whole == \A u \in Users : dust[u] = 0 /\ outside[u] >= 0

(* The transactions that check, or give back.                              *)
WalletTx(u, q) ==
    \/ creditBalanceByQuotaTx(u, q) \/ creditBalanceByQuotaSilentlyTx(u, q)
    \/ debitBalanceByQuotaTx(u, q) \/ debitBalanceByQuotaSilentlyTx(u, q)

(* The settlement of r has gone through, on the Qiniu wallet.              *)
Debtor(r) == ByQiniu(r) /\ sess[r].fundingSettled

WalletInv == BInv /\ Whole /\ NoOverdraft

(* A debit that the audited comparison lets through is covered by quota:   *)
(* without fractions the tolerance is less than one quota.                 *)
LEMMA DebitIsCovered ==
    ASSUME BInv, Whole, NEW u \in Users, NEW q \in Nat, debitBalanceByQuotaTx(u, q)
    PROVE  quota[u] >= q
<1> DEFINE L == LegacyBackfill(u)
           c == Covered(u, L)
           b == BookedBalance(u, L)
<1>0. L \in BOOLEAN /\ (L => quota[u] > 0)
  BY BackfillHasQuota
<1>1. /\ UnitsPerQuota \in Nat /\ Epsilon \in Nat /\ Epsilon < UnitsPerQuota
      /\ quotaToWalletAmount(q) = q * UnitsPerQuota /\ quota[u] \in Int /\ outside[u] \in Int
  BY ValueOf, BalanceConstants DEF BInv, BalanceTypeOK
<1>2. DustAfter(u, L) = 0
  BY DEF DustAfter, Whole
<1>3. /\ c \in Int
      /\ \E e \in Nat : b = c * UnitsPerQuota + e /\ e <= DustAfter(u, L) * UnitsPerQuota
  BY <1>0, Booked
<1>4. c * UnitsPerQuota \in Int /\ q * UnitsPerQuota \in Int /\ 0 * UnitsPerQuota = 0
  BY <1>1, <1>3
<1>5. b = c * UnitsPerQuota
  BY <1>2, <1>3, <1>4
<1>6. b + Epsilon >= quotaToWalletAmount(q)
  BY DEF debitBalanceByQuotaTx
<1>7. c <= quota[u]
  BY <1>1 DEF Covered, Whole
<1> HIDE DEF c, b
<1>8. q * UnitsPerQuota < c * UnitsPerQuota + UnitsPerQuota
  BY <1>1, <1>4, <1>5, <1>6
<1>9. q <= c
  BY <1>3, <1>8, Cancel
<1> QED BY <1>1, <1>3, <1>7, <1>9

(* The quota of u becomes k, that of others stays.                         *)
QuotaOnly(u, k) == quota'[u] = k /\ \A v \in Users : v # u => quota'[v] = quota[v]

LEMMA BookMoves ==
    ASSUME BInv, Whole, NEW u \in Users, NEW backfill \in BOOLEAN, NEW b, NEW k,
           Book(u, backfill, b, k, 0)
    PROVE  Whole' /\ QuotaOnly(u, k)
<1>1. ASSUME NEW v \in Users PROVE dust'[v] = 0 /\ outside'[v] >= 0
  BY DEF Book, Whole, BInv, BalanceTypeOK
<1>2. QuotaOnly(u, k)
  BY DEF Book, BInv, BalanceTypeOK, QuotaOnly
<1> QED BY <1>1, <1>2 DEF Whole

(* What the transactions do to the quota of u, and to what is outside.     *)
LEMMA TxMoves ==
    ASSUME BInv, Whole, NEW u \in Users, NEW q \in Nat,
           WalletTx(u, q) \/ debitBalanceByQuotaSilentlyAllowDebtTx(u, q)
    PROVE  /\ BInv' /\ Whole'
           /\ \A v \in Users : v # u => quota'[v] = quota[v]
           /\ WalletTx(u, q) => quota'[u] >= 0 \/ quota'[u] >= quota[u]
<1>1. BInv'
  BY QuotaStepKeeps DEF QuotaStep, WalletTx
<1>2. quota[u] \in Int /\ LegacyBackfill(u) \in BOOLEAN /\ SilentBackfill(u) \in BOOLEAN
  BY BackfillHasQuota DEF BInv, BalanceTypeOK
<1>3. CASE creditBalanceByQuotaTx(u, q)
  <2>1. Whole' /\ QuotaOnly(u, quota[u] + q)
    BY <1>2, <1>3, BookMoves DEF creditBalanceByQuotaTx, BookAudited
  <2> QED BY <1>1, <1>2, <2>1 DEF QuotaOnly
<1>4. CASE creditBalanceByQuotaSilentlyTx(u, q)
  <2>1. Whole' /\ QuotaOnly(u, quota[u] + q)
    BY <1>2, <1>4, BookMoves DEF creditBalanceByQuotaSilentlyTx, BookSilently
  <2> QED BY <1>1, <1>2, <2>1 DEF QuotaOnly
<1>5. CASE debitBalanceByQuotaTx(u, q)
  <2>1. Whole' /\ QuotaOnly(u, quota[u] - q)
    BY <1>2, <1>5, BookMoves DEF debitBalanceByQuotaTx, BookAudited
  <2>2. quota[u] >= q
    BY <1>5, DebitIsCovered
  <2> QED BY <1>1, <1>2, <2>1, <2>2 DEF QuotaOnly
<1>6. CASE debitBalanceByQuotaSilentlyTx(u, q)
  <2>1. Whole' /\ QuotaOnly(u, quota[u] - q) /\ quota[u] >= q
    BY <1>2, <1>6, BookMoves DEF debitBalanceByQuotaSilentlyTx, BookSilently
  <2> QED BY <1>1, <1>2, <2>1 DEF QuotaOnly
<1>7. CASE debitBalanceByQuotaSilentlyAllowDebtTx(u, q) /\ ~WalletTx(u, q)
  <2>1. Whole' /\ QuotaOnly(u, quota[u] - q)
    BY <1>2, <1>7, BookMoves DEF debitBalanceByQuotaSilentlyAllowDebtTx, BookSilently
  <2> QED BY <1>1, <1>7, <2>1 DEF QuotaOnly
<1> QED BY <1>3, <1>4, <1>5, <1>6, <1>7 DEF WalletTx

(* A session that has settled has only its token left to settle.           *)
LEMMA DebtorsStay ==
    ASSUME ChargeInv, [Next]_vars, NEW p \in Requests, Debtor(p)
    PROVE  Debtor(p)'
<1>1. sess[p].pc \in {"settleToken", "done"} /\ sess[p] \in Session /\ sess \in [Requests -> Session]
  BY SessionOf DEF Debtor, Coherent, ChargeInv, SessionTypeOK
<1>2. ASSUME NEW r \in Requests, NewBillingSession(r) \/ Step(r)
      PROVE  Debtor(p)'
  <2>1. CASE settleToken(r)
    <3>1. sess' = [sess EXCEPT ![r] = [sess[r] EXCEPT !.pc = "done", !.settled = TRUE]]
      BY <2>1 DEF settleToken, Goto
    <3>2. CASE r = p
      <4>1. sess'[p] = [sess[p] EXCEPT !.pc = "done", !.settled = TRUE]
        BY <1>1, <3>1, <3>2
      <4> QED BY <1>1, <4>1 DEF Debtor, ByQiniu, Session
    <3>3. CASE r # p
      BY <1>1, <3>1, <3>3 DEF Debtor, ByQiniu
    <3> QED BY <3>2, <3>3
  <2>2. CASE ~settleToken(r)
    <3>1. r # p /\ \E t : Goto(r, t)
      BY <1>1, <1>2, <2>2 DEF Step, At, NewBillingSession, buildWalletSession,
         PreConsumeTokenQuota, preConsumeToken, ReadFails, preConsume, rollbackToken, Settle,
         UpstreamFails, Refund, refundWallet, refundWithRetry, RefundFailed, refundToken
    <3>2. sess'[p] = sess[p]
      BY <1>1, <3>1 DEF Goto
    <3> QED BY <3>2 DEF Debtor, ByQiniu
  <2> QED BY <2>1, <2>2
<1>3. CASE SubscriptionStep \/ UNCHANGED vars
  BY <1>3 DEF SubscriptionStep, vars, Debtor, ByQiniu
<1> QED BY <1>2, <1>3 DEF Next

(* What a step of a request does to its owner's wallet.                    *)
LEMMA WalletStep ==
    ASSUME ChargeInv, NEW r \in Requests, NewBillingSession(r) \/ Step(r)
    PROVE  \/ UNCHANGED balanceVars
           \/ \E q \in Nat : WalletTx(Owner[r], q)
           \/ /\ \E q \in Nat : debitBalanceByQuotaSilentlyAllowDebtTx(Owner[r], q)
              /\ Debtor(r)'
<1>0. sess[r] \in Session /\ Coherent(sess[r], record[r]) /\ sess \in [Requests -> Session]
  BY SessionOf DEF ChargeInv, SessionTypeOK
<1>1. CASE preConsume(r)
  <2>1. sess[r].want \in Nat
    BY <1>0, <1>1 DEF preConsume, At, Session, Coherent
  <2> QED BY <1>1, <2>1 DEF preConsume, FundingPreConsume, WalletPreConsume, QiniuPreConsume,
             SubscriptionPreConsume, NoFunding, WalletTx
<1>2. CASE Settle(r)
  <2>1. PICK p \in Prices :
           \/ UNCHANGED balanceVars
           \/ LET d == p - sess[r].preConsumedQuota
              IN  /\ FundingSettle(r, d)
                  /\ Goto(r, [sess[r] EXCEPT !.pc = "settleToken", !.fundingSettled = TRUE,
                                             !.want = d, !.answered = TRUE, !.actual = p,
                                             !.consumed = ConsumedAfterSettle(r, d, TRUE)])
    BY <1>2 DEF Settle, NoFunding
  <2> DEFINE d == p - sess[r].preConsumedQuota
  <2>2. d \in Int
    BY <1>0, BillingConstants DEF Session
  <2>3. CASE FundingSettle(r, d) /\ ByWallet(r)
    BY <2>2, <2>3 DEF FundingSettle, WalletSettle, QiniuSettle, SubscriptionSettle, ByWallet,
       ByQiniu, BySubscription, WalletTx
  <2>4. CASE FundingSettle(r, d) /\ BySubscription(r)
    BY <2>4 DEF FundingSettle, WalletSettle, QiniuSettle, SubscriptionSettle, ByWallet,
       ByQiniu, BySubscription, balanceVars
  <2>5. CASE FundingSettle(r, d) /\ ByQiniu(r) /\ d <= 0
    BY <2>2, <2>5 DEF FundingSettle, WalletSettle, QiniuSettle, SubscriptionSettle, ByWallet,
       ByQiniu, BySubscription, WalletTx
  <2>6. CASE /\ FundingSettle(r, d) /\ ByQiniu(r) /\ d > 0
             /\ Goto(r, [sess[r] EXCEPT !.pc = "settleToken", !.fundingSettled = TRUE,
                                        !.want = d, !.answered = TRUE, !.actual = p,
                                        !.consumed = ConsumedAfterSettle(r, d, TRUE)])
    <3>1. debitBalanceByQuotaSilentlyAllowDebtTx(Owner[r], d) /\ d \in Nat
      BY <2>2, <2>6 DEF FundingSettle, WalletSettle, QiniuSettle, SubscriptionSettle, ByWallet,
         ByQiniu, BySubscription
    <3> DEFINE c == ConsumedAfterSettle(r, d, TRUE)
    <3> HIDE DEF c, d
    <3>2. sess'[r] = [sess[r] EXCEPT !.pc = "settleToken", !.fundingSettled = TRUE,
                                     !.want = d, !.answered = TRUE, !.actual = p, !.consumed = c]
      BY <1>0, <2>6 DEF Goto, c
    <3>3. sess'[r].funding = "qiniu" /\ sess'[r].fundingSettled = TRUE
      BY <1>0, <2>6, <3>2 DEF Session, ByQiniu
    <3> QED BY <3>1, <3>3 DEF Debtor, ByQiniu
  <2> QED BY <1>0, <2>1, <2>2, <2>3, <2>4, <2>5, <2>6 DEF Session, ByWallet, ByQiniu, BySubscription
<1>3. CASE refundWallet(r)
  <2>1. sess[r].consumed \in Int
    BY <1>0 DEF Session
  <2> QED BY <1>3, <2>1 DEF refundWallet, WalletRefund, NoFunding, WalletTx
<1>4. CASE refundWithRetry(r)
  BY <1>4 DEF refundWithRetry, SubscriptionRefund, NoFunding
<1>5. CASE \/ NewBillingSession(r) \/ buildWalletSession(r) \/ PreConsumeTokenQuota(r)
           \/ preConsumeToken(r) \/ ReadFails(r) \/ rollbackToken(r) \/ settleToken(r)
           \/ UpstreamFails(r) \/ Refund(r) \/ refundToken(r)
  BY <1>5 DEF NewBillingSession, buildWalletSession, PreConsumeTokenQuota, preConsumeToken,
     ReadFails, rollbackToken, settleToken, UpstreamFails, Refund, refundToken, NoFunding
<1> QED BY <1>1, <1>2, <1>3, <1>4, <1>5 DEF Step

LEMMA WalletKept ==
    ASSUME ChargeInv, WalletInv, [Next]_vars
    PROVE  WalletInv'
<1>1. CASE UNCHANGED balanceVars
  <2>1. BInv' /\ Whole' /\ quota' = quota
    BY <1>1 DEF WalletInv, BInv, Whole, BalanceTypeOK, BalanceTracksQuota, Drift, balanceVars
  <2>2. NoOverdraft'
    BY <2>1, DebtorsStay DEF WalletInv, NoOverdraft, Debtor
  <2> QED BY <2>1, <2>2 DEF WalletInv
<1>2. ASSUME NEW r \in Requests, NEW q \in Nat,
             \/ WalletTx(Owner[r], q)
             \/ debitBalanceByQuotaSilentlyAllowDebtTx(Owner[r], q) /\ Debtor(r)'
      PROVE  WalletInv'
  <2> DEFINE u == Owner[r]
  <2>1. u \in Users
    BY BillingConstants
  <2>2. /\ BInv' /\ Whole'
        /\ \A v \in Users : v # u => quota'[v] = quota[v]
        /\ WalletTx(u, q) => quota'[u] >= 0 \/ quota'[u] >= quota[u]
    BY <1>2, <2>1, TxMoves DEF WalletInv
  <2>3. ASSUME NEW v \in Users
        PROVE  quota'[v] >= 0 \/ \E p \in Requests : Owner[p] = v /\ Debtor(p)'
    <3>1. quota[v] \in Int /\ quota'[v] \in Int
      BY <2>2 DEF WalletInv, BInv, BalanceTypeOK
    <3>2. CASE v = u /\ Debtor(r)'
      BY <3>2
    <3>3. CASE quota'[v] >= quota[v] \/ quota'[v] >= 0
      <4>1. quota[v] >= 0 \/ \E p \in Requests : Owner[p] = v /\ Debtor(p)
        BY DEF WalletInv, NoOverdraft, Debtor
      <4> QED BY <3>1, <3>3, <4>1, DebtorsStay
    <3> QED BY <1>2, <2>2, <3>1, <3>2, <3>3
  <2>4. NoOverdraft'
    BY <2>3 DEF NoOverdraft, Debtor
  <2> QED BY <2>2, <2>4 DEF WalletInv
<1>3. ASSUME NEW r \in Requests, NewBillingSession(r) \/ Step(r)
      PROVE  WalletInv'
  BY <1>1, <1>2, <1>3, WalletStep
<1>4. CASE SubscriptionStep \/ UNCHANGED vars
  BY <1>1, <1>4 DEF SubscriptionStep, vars
<1> QED BY <1>3, <1>4 DEF Next

-----------------------------------------------------------------------------
(* The subscriptions under the sessions.                                   *)

(* A subscription is never used beyond its total.                          *)
WithinTotal == \A s \in Subs : AmountTotal[s] > 0 => used[s] <= AmountTotal[s]

RowsTypeOK == used \in [Subs -> Nat] /\ since \in [Subs -> [Requests -> Int]]

(* What a row shows as used, n, and what requests took from it, f.  The    *)
(* lower bound alone is not kept: amount_used stops at zero.               *)
ShowsTaken(n, f) ==
    /\ SumFunction(f) <= n
    /\ n <= SumFunction([r \in Requests |-> Positive(f[r])])

UsedIsTaken == \A s \in Subs : ShowsTaken(used[s], since[s])

SubInv ==
    /\ RowsTypeOK /\ WithinTotal /\ UsedIsTaken
    /\ active \subseteq Subs /\ due \subseteq Subs /\ periods \in 0 .. MaxPeriods

LEMMA NothingTaken == ShowsTaken(0, [r \in Requests |-> 0])
<1>1. SumFunction([r \in Requests |-> 0]) = 0
  BY SubscriptionConstants, SumOfZeros
<1>2. [p \in Requests |-> Positive([r \in Requests |-> 0][p])] = [r \in Requests |-> 0]
  BY DEF Positive
<1> QED BY <1>1, <1>2 DEF ShowsTaken

(* A request takes d, or gives it back when d is negative.  One that has   *)
(* given back what it had already lost to a reset may not take again: that *)
(* would be counted as used and not as taken.                              *)
LEMMA RowCharged ==
    ASSUME NEW f \in [Requests -> Int], NEW n \in Nat, NEW r \in Requests, NEW d \in Int,
           ShowsTaken(n, f), d > 0 => f[r] >= 0
    PROVE  ShowsTaken(IF n + d < 0 THEN 0 ELSE n + d, [f EXCEPT ![r] = @ + d])
<1> DEFINE g == [f EXCEPT ![r] = @ + d]
           F == [p \in Requests |-> Positive(f[p])]
           G == [p \in Requests |-> Positive(g[p])]
           Z == [p \in Requests |-> 0]
<1>0. IsFiniteSet(Requests)
  BY SubscriptionConstants
<1>1. g \in [Requests -> Int] /\ g[r] = f[r] + d /\ \A p \in Requests : p # r => g[p] = f[p]
  OBVIOUS
<1>2. F \in [Requests -> Int] /\ F[r] = Positive(f[r])
  BY DEF Positive
<1> HIDE DEF g
<1>3. G \in [Requests -> Int] /\ G[r] = Positive(g[r])
  BY <1>1 DEF Positive
<1>4. \A p \in Requests : p # r => G[p] = F[p]
  BY <1>1
<1>5. \A p \in Requests : Z[p] <= G[p]
  BY <1>1 DEF Positive
<1>6. Z \in [Requests -> Int]
  OBVIOUS
<1> HIDE DEF F, G, Z
<1>7. SumFunction(f) \in Int /\ SumFunction(g) = SumFunction(f) + (g[r] - f[r])
  BY <1>0, <1>1, SumChanges
<1>8. SumFunction(F) \in Int /\ SumFunction(G) = SumFunction(F) + (G[r] - F[r])
  BY <1>0, <1>2, <1>3, <1>4, SumChanges
<1>9. 0 <= SumFunction(G)
  <2>1. SumFunction(Z) = 0
    BY <1>0, SumOfZeros DEF Z
  <2>2. SumFunction(Z) <= SumFunction(G)
    BY <1>0, <1>3, <1>5, <1>6, SumGrows
  <2> QED BY <2>1, <2>2
<1>10. SumFunction(f) <= n /\ n <= SumFunction(F)
  BY DEF ShowsTaken, F
<1>11. f[r] \in Int /\ g[r] = f[r] + d
  BY <1>1
<1>12. G[r] \in Int /\ F[r] \in Int /\ (d <= 0 \/ f[r] >= 0 => G[r] - F[r] >= d)
       /\ (d <= 0 /\ f[r] <= 0 => G[r] - F[r] = 0)
  BY <1>2, <1>3, <1>11 DEF Positive
<1> DEFINE m == IF n + d < 0 THEN 0 ELSE n + d
<1>13. SumFunction(g) <= m
  BY <1>7, <1>10, <1>11
<1>14. m <= SumFunction(G)
  BY <1>8, <1>9, <1>10, <1>12, <1>11
<1> QED BY <1>13, <1>14 DEF ShowsTaken, g, G

LEMMA ResetShows ==
    ASSUME UsedIsTaken, NEW S, NEW s \in Subs
    PROVE  /\ ShowsTaken(usedAfterReset(S)[s], sinceAfterReset(S)[s])
           /\ \A r \in Requests : sinceAfterReset(S)[s][r] \in {0, since[s][r]}
<1>1. CASE s \in S \cap due
  <2>1. usedAfterReset(S)[s] = 0 /\ sinceAfterReset(S)[s] = [r \in Requests |-> 0]
    BY <1>1 DEF usedAfterReset, sinceAfterReset
  <2> QED BY <2>1, NothingTaken
<1>2. CASE s \notin S \cap due
  <2>1. usedAfterReset(S)[s] = used[s] /\ sinceAfterReset(S)[s] = since[s]
    BY <1>2 DEF usedAfterReset, sinceAfterReset
  <2> QED BY <2>1 DEF UsedIsTaken
<1> QED BY <1>1, <1>2

LEMMA ResetRows ==
    ASSUME RowsTypeOK, WithinTotal, NEW S
    PROVE  /\ usedAfterReset(S) \in [Subs -> Nat]
           /\ sinceAfterReset(S) \in [Subs -> [Requests -> Int]]
           /\ \A s \in Subs : AmountTotal[s] > 0 => usedAfterReset(S)[s] <= AmountTotal[s]
<1>1. usedAfterReset(S) \in [Subs -> Nat]
  BY DEF usedAfterReset, RowsTypeOK
<1>2. sinceAfterReset(S) \in [Subs -> [Requests -> Int]]
  BY DEF sinceAfterReset, RowsTypeOK
<1>3. ASSUME NEW s \in Subs, AmountTotal[s] > 0 PROVE usedAfterReset(S)[s] <= AmountTotal[s]
  BY <1>3, SubscriptionConstants DEF usedAfterReset, WithinTotal
<1> QED BY <1>1, <1>2, <1>3

LEMMA PreConsumeRows ==
    ASSUME SubInv, NEW r \in Requests, NEW q \in Nat, PreConsumeUserSubscription(r, Owner[r], q),
           \A s \in Subs : since[s][r] >= 0
    PROVE  /\ SubInv'
           /\ \A s \in Subs, p \in Requests : since[s][p] >= 0 => since'[s][p] >= 0
<1> DEFINE u == Owner[r]
           c == Candidate(u, q)
           S == {t \in ActiveOf(u) : t <= c}
           a == usedAfterReset(S)
           h == sinceAfterReset(S)
<1>1. /\ CanPreConsume(u, q) /\ used' = [a EXCEPT ![c] = @ + q]
      /\ since' = [h EXCEPT ![c][r] = @ + q]
      /\ due' = due \ S /\ UNCHANGED <<active, periods>>
  BY DEF PreConsumeUserSubscription
<1>2. c \in Subs /\ HasRoom(c, q) /\ c \in ActiveOf(u)
  BY <1>1, CandidateFits, BillingConstants DEF SubInv
<1>3. /\ a \in [Subs -> Nat] /\ h \in [Subs -> [Requests -> Int]]
      /\ \A s \in Subs : AmountTotal[s] > 0 => a[s] <= AmountTotal[s]
  BY ResetRows DEF SubInv
<1>4. a[c] = usedAfterReset({c})[c]
  <2>1. c \in Nat
    BY <1>2, SubscriptionConstants
  <2> HIDE DEF c
  <2>2. c \in S /\ c \in {c}
    BY <1>2, <2>1
  <2> HIDE DEF S
  <2> QED BY <1>2, <2>2 DEF usedAfterReset
<1>5. AmountTotal[c] > 0 => a[c] + q <= AmountTotal[c]
  BY <1>2, <1>4 DEF HasRoom
<1>8. ASSUME NEW s \in Subs
      PROVE  ShowsTaken(a[s], h[s]) /\ \A p \in Requests : h[s][p] \in {0, since[s][p]}
  BY ResetShows DEF SubInv
<1> HIDE DEF a, h, c, S
<1>6. RowsTypeOK'
  <2>1. used' \in [Subs -> Nat]
    BY <1>1, <1>2, <1>3
  <2>2. since' \in [Subs -> [Requests -> Int]]
    BY <1>1, <1>2, <1>3
  <2> QED BY <2>1, <2>2 DEF RowsTypeOK
<1>7. WithinTotal'
  BY <1>1, <1>2, <1>3, <1>5 DEF WithinTotal
<1>9. h[c] \in [Requests -> Int] /\ a[c] \in Nat
  BY <1>2, <1>3
<1>10. /\ used'[c] = a[c] + q /\ \A s \in Subs : s # c => used'[s] = a[s]
       /\ since'[c] = [h[c] EXCEPT ![r] = @ + q] /\ \A s \in Subs : s # c => since'[s] = h[s]
  BY <1>1, <1>2, <1>3
<1>11. h[c][r] >= 0
  BY <1>2, <1>8
<1>12. UsedIsTaken'
  <2>1. ShowsTaken(IF a[c] + q < 0 THEN 0 ELSE a[c] + q, [h[c] EXCEPT ![r] = @ + q])
    BY <1>2, <1>8, <1>9, <1>11, RowCharged
  <2>2. ~(a[c] + q < 0)
    BY <1>9
  <2>3. ShowsTaken(used'[c], since'[c])
    BY <1>10, <2>1, <2>2
  <2> QED BY <1>8, <1>10, <2>3 DEF UsedIsTaken
<1>13. ASSUME NEW s \in Subs, NEW p \in Requests, since[s][p] >= 0
       PROVE  since'[s][p] >= 0
  <2>1. h[s][p] >= 0 /\ h[s][p] \in Int
    BY <1>3, <1>8, <1>13
  <2>2. CASE s = c /\ p = r
    <3>1. since'[s][p] = h[s][p] + q
      BY <1>9, <1>10, <2>2
    <3> QED BY <2>1, <3>1
  <2>3. CASE ~(s = c /\ p = r)
    BY <1>9, <1>10, <2>1, <2>3
  <2> QED BY <2>2, <2>3
<1> QED BY <1>1, <1>6, <1>7, <1>12, <1>13 DEF SubInv

LEMMA PostConsumeRows ==
    ASSUME SubInv, NEW r \in Requests, NEW s, NEW d \in Int,
           PostConsumeUserSubscriptionDelta(r, s, d),
           d > 0 => \A t \in Subs : since[t][r] >= 0
    PROVE  /\ SubInv'
           /\ \A t \in Subs, p \in Requests : p # r => since'[t][p] = since[t][p]
<1>1. CASE s \in Subs
  <2>1. used[s] \in Nat /\ NewUsed(s, d) \in Nat
    BY <1>1 DEF SubInv, RowsTypeOK, NewUsed
  <2>2. AmountTotal[s] > 0 => NewUsed(s, d) <= AmountTotal[s]
    BY DEF PostConsumeUserSubscriptionDelta, CanPostConsume
  <2>3. RowsTypeOK'
    <3>1. used' \in [Subs -> Nat]
      BY <1>1, <2>1 DEF PostConsumeUserSubscriptionDelta, SubInv, RowsTypeOK
    <3>2. since' \in [Subs -> [Requests -> Int]]
      BY <1>1 DEF PostConsumeUserSubscriptionDelta, SubInv, RowsTypeOK
    <3> QED BY <3>1, <3>2 DEF RowsTypeOK
  <2>4. WithinTotal'
    BY <1>1, <2>1, <2>2 DEF PostConsumeUserSubscriptionDelta, SubInv, RowsTypeOK, WithinTotal
  <2>5. since[s] \in [Requests -> Int] /\ ShowsTaken(used[s], since[s])
    BY <1>1 DEF SubInv, RowsTypeOK, UsedIsTaken
  <2>6. /\ used'[s] = NewUsed(s, d) /\ \A t \in Subs : t # s => used'[t] = used[t]
        /\ since'[s] = [since[s] EXCEPT ![r] = @ + d]
        /\ \A t \in Subs : t # s => since'[t] = since[t]
    BY <1>1 DEF PostConsumeUserSubscriptionDelta, SubInv, RowsTypeOK
  <2>7. UsedIsTaken'
    <3>1. d > 0 => since[s][r] >= 0
      BY <1>1
    <3>2. ShowsTaken(IF used[s] + d < 0 THEN 0 ELSE used[s] + d, [since[s] EXCEPT ![r] = @ + d])
      BY <2>1, <2>5, <3>1, RowCharged
    <3>3. ShowsTaken(used'[s], since'[s])
      BY <2>6, <3>2 DEF NewUsed
    <3> QED BY <2>6, <3>3 DEF UsedIsTaken, SubInv
  <2>8. \A t \in Subs, p \in Requests : p # r => since'[t][p] = since[t][p]
    BY <2>5, <2>6
  <2> QED BY <2>3, <2>4, <2>7, <2>8 DEF PostConsumeUserSubscriptionDelta, SubInv
<1>2. CASE s \notin Subs
  <2>1. used' = used /\ since' = since /\ UNCHANGED <<active, due, periods>>
    BY <1>2 DEF PostConsumeUserSubscriptionDelta, SubInv, RowsTypeOK
  <2> QED BY <2>1 DEF SubInv, RowsTypeOK, WithinTotal, UsedIsTaken
<1> QED BY <1>1, <1>2

LEMMA SubsUnchanged ==
    ASSUME SubInv, UNCHANGED <<used, active, due, periods, since>>
    PROVE  SubInv'
  BY DEF SubInv, RowsTypeOK, WithinTotal, UsedIsTaken

(* Where a request may still take something: before it is settled or has   *)
(* failed.  It owes no subscription anything then.                         *)
Early == {"new", "wallet", "token", "tokenDebit", "funding", "rollback", "relay"}

NoneOwed ==
    \A r \in Requests : sess[r].pc \in Early => \A s \in Subs : since[s][r] >= 0

LEMMA NobodyEarlyAgain ==
    ASSUME ChargeInv, NEW r \in Requests, NewBillingSession(r) \/ Step(r)
    PROVE  /\ sess'[r].pc \in Early => sess[r].pc \in Early
           /\ \A p \in Requests : p # r => sess'[p] = sess[p]
           /\ Settle(r) \/ refundWithRetry(r) => sess'[r].pc \notin Early
<1>1. sess[r] \in Session /\ sess \in [Requests -> Session]
  BY DEF ChargeInv, SessionTypeOK
<1>2. PICK t : Goto(r, t)
  BY DEF Step, NewBillingSession, buildWalletSession, PreConsumeTokenQuota, preConsumeToken,
     ReadFails, preConsume, rollbackToken, Settle, settleToken, UpstreamFails, Refund,
     refundWallet, refundWithRetry, RefundFailed, refundToken
<1>3. \A p \in Requests : p # r => sess'[p] = sess[p]
  BY <1>1, <1>2 DEF Goto
<1>b. ASSUME NEW s, Goto(r, s) PROVE sess'[r] = s
  BY <1>1, <1>b DEF Goto
<1>d. "pc" \in DOMAIN sess[r] /\ "settled" \in DOMAIN sess[r]
  BY <1>1 DEF Session
<1>4. CASE sess[r].pc \in Early /\ ~Settle(r) /\ ~refundWithRetry(r)
  BY <1>3, <1>4
<1>5. CASE Settle(r)
  <2>1. sess[r].pc = "relay"
    BY <1>5 DEF Settle, At
  <2>2. PICK p \in Prices :
           LET d == p - sess[r].preConsumedQuota
           IN  \/ Goto(r, [sess[r] EXCEPT !.pc = "done", !.settled = TRUE,
                                          !.answered = TRUE, !.actual = p])
               \/ Goto(r, [sess[r] EXCEPT !.pc = "settleToken", !.fundingSettled = TRUE,
                                          !.want = d, !.answered = TRUE, !.actual = p,
                                          !.consumed = ConsumedAfterSettle(r, d, TRUE)])
               \/ Goto(r, [sess[r] EXCEPT !.pc = "done", !.answered = TRUE,
                                          !.consumed = ConsumedAfterSettle(r, d, FALSE)])
    BY <1>5 DEF Settle
  <2>3. sess'[r].pc \in {"done", "settleToken"}
    BY <1>b, <1>d, <2>2
  <2> QED BY <1>3, <1>5, <2>1, <2>3 DEF Early
<1>6. CASE refundWithRetry(r)
  <2>1. sess[r].pc = "refundFunding"
    BY <1>6 DEF refundWithRetry, At
  <2>2. Goto(r, [sess[r] EXCEPT !.pc = "refundToken"]) \/ RefundFailed(r)
    BY <1>6 DEF refundWithRetry
  <2>3. sess'[r].pc \in {"refundFunding", "refundToken"}
    BY <1>b, <1>d, <2>1, <2>2 DEF RefundFailed
  <2> QED BY <1>3, <1>6, <2>1, <2>3 DEF Early
<1>7. CASE sess[r].pc \notin Early /\ ~Settle(r) /\ ~refundWithRetry(r)
  <2>1. settleToken(r) \/ Refund(r) \/ refundWallet(r) \/ refundToken(r)
    BY <1>7 DEF Step, NewBillingSession, buildWalletSession, PreConsumeTokenQuota,
       preConsumeToken, ReadFails, preConsume, rollbackToken, UpstreamFails, At, Early
  <2>2. sess'[r].pc \in {"done", "refundFunding", "refundToken"}
    BY <1>b, <1>d, <2>1 DEF settleToken, Refund, refundWallet, refundToken
  <2> QED BY <1>3, <1>7, <2>2 DEF Early
<1> QED BY <1>4, <1>5, <1>6, <1>7

(* Hence a step of r that changes only its own takings keeps NoneOwed.     *)
LEMMA OwesNothing ==
    ASSUME ChargeInv, NoneOwed, NEW r \in Requests, NewBillingSession(r) \/ Step(r),
           \A s \in Subs, p \in Requests :
               \/ since[s][p] >= 0 => since'[s][p] >= 0
               \/ p = r /\ sess'[r].pc \notin Early
    PROVE  NoneOwed'
<1> SUFFICES ASSUME NEW p \in Requests, sess'[p].pc \in Early, NEW s \in Subs
             PROVE  since'[s][p] >= 0
  BY DEF NoneOwed
<1>1. sess[p].pc \in Early
  BY NobodyEarlyAgain
<1>2. since[s][p] >= 0
  BY <1>1 DEF NoneOwed
<1> QED BY <1>2

LEMMA SubsKept ==
    ASSUME ChargeInv, SubInv, NoneOwed, [Next]_vars
    PROVE  SubInv' /\ NoneOwed'
<1>0. ASSUME UNCHANGED subVars PROVE SubInv' /\ since' = since
  BY <1>0, SubsUnchanged DEF subVars
<1>a. ASSUME NEW r \in Requests, NewBillingSession(r) \/ Step(r), UNCHANGED subVars
      PROVE  SubInv' /\ NoneOwed'
  BY <1>a, <1>0, OwesNothing
<1>1. ASSUME NEW r \in Requests, preConsume(r)
      PROVE  SubInv' /\ NoneOwed'
  <2>1. sess[r].want \in Nat /\ sess[r].pc = "funding"
    BY <1>1, SessionOf DEF preConsume, At, Session, Coherent
  <2>2. CASE SubscriptionPreConsume(r, sess[r].want)
    <3>1. \A s \in Subs : since[s][r] >= 0
      BY <2>1 DEF NoneOwed, Early
    <3>2. /\ SubInv'
          /\ \A s \in Subs, p \in Requests : since[s][p] >= 0 => since'[s][p] >= 0
      BY <2>1, <2>2, <3>1, PreConsumeRows DEF SubscriptionPreConsume
    <3> QED BY <1>1, <3>2, OwesNothing DEF Step
  <2>3. CASE UNCHANGED subVars
    BY <1>a, <1>1, <2>3 DEF Step
  <2> QED BY <1>1, <2>2, <2>3 DEF preConsume, FundingPreConsume, WalletPreConsume,
             QiniuPreConsume, NoFunding
<1>2. ASSUME NEW r \in Requests, Settle(r)
      PROVE  SubInv' /\ NoneOwed'
  <2>1. PICK p \in Prices : \/ FundingSettle(r, p - sess[r].preConsumedQuota)
                            \/ UNCHANGED subVars
    BY <1>2 DEF Settle, NoFunding
  <2> DEFINE d == p - sess[r].preConsumedQuota
  <2>2. d \in Int
    BY SessionOf, BillingConstants DEF Session
  <2>3. CASE FundingSettle(r, d) /\ SubscriptionSettle(r, d)
    <3>1. PostConsumeUserSubscriptionDelta(r, record[r].sub, d)
      BY <2>3 DEF SubscriptionSettle
    <3>2. \A s \in Subs : since[s][r] >= 0
      BY <1>2 DEF Settle, At, NoneOwed, Early
    <3> HIDE DEF d
    <3>3. /\ SubInv'
          /\ \A s \in Subs, q \in Requests : q # r => since'[s][q] = since[s][q]
      BY <2>2, <3>1, <3>2, PostConsumeRows
    <3>4. sess'[r].pc \notin Early
      BY <1>2, NobodyEarlyAgain DEF Step
    <3> QED BY <1>2, <3>3, <3>4, OwesNothing DEF Step
  <2>4. CASE UNCHANGED subVars
    BY <1>a, <1>2, <2>4 DEF Step
  <2> QED BY <2>1, <2>3, <2>4 DEF FundingSettle, WalletSettle, QiniuSettle
<1>3. ASSUME NEW r \in Requests, refundWallet(r)
      PROVE  SubInv' /\ NoneOwed'
  <2>1. UNCHANGED subVars
    BY <1>3 DEF refundWallet, WalletRefund, NoFunding
  <2> QED BY <1>a, <1>3, <2>1 DEF Step
<1>4. ASSUME NEW r \in Requests, refundWithRetry(r)
      PROVE  SubInv' /\ NoneOwed'
  <2> DEFINE d == -record[r].amount
  <2>1. d \in Int /\ ~(d > 0)
    BY SessionOf DEF Record
  <2>2. \/ UNCHANGED subVars
        \/ PostConsumeUserSubscriptionDelta(r, record[r].sub, d)
    BY <1>4 DEF refundWithRetry, SubscriptionRefund, RefundSubscriptionPreConsume,
       RefundHalfCommitted, NoFunding
  <2> HIDE DEF d
  <2>3. CASE PostConsumeUserSubscriptionDelta(r, record[r].sub, d)
    <3>1. /\ SubInv'
          /\ \A s \in Subs, q \in Requests : q # r => since'[s][q] = since[s][q]
      BY <2>1, <2>3, PostConsumeRows
    <3>2. sess'[r].pc \notin Early
      BY <1>4, NobodyEarlyAgain DEF Step
    <3> QED BY <1>4, <3>1, <3>2, OwesNothing DEF Step
  <2>4. CASE UNCHANGED subVars
    BY <1>a, <1>4, <2>4 DEF Step
  <2> QED BY <2>2, <2>3, <2>4
<1>5. ASSUME NEW r \in Requests,
             \/ NewBillingSession(r) \/ buildWalletSession(r) \/ PreConsumeTokenQuota(r)
             \/ preConsumeToken(r) \/ ReadFails(r) \/ rollbackToken(r) \/ settleToken(r)
             \/ UpstreamFails(r) \/ Refund(r) \/ refundToken(r)
      PROVE  SubInv' /\ NoneOwed'
  <2>1. UNCHANGED subVars
    BY <1>5 DEF NewBillingSession, buildWalletSession, PreConsumeTokenQuota,
       preConsumeToken, ReadFails, rollbackToken, settleToken, UpstreamFails, Refund,
       refundToken, NoFunding
  <2> QED BY <1>a, <1>5, <2>1 DEF Step
<1>6. CASE SubscriptionStep
  <2>1. PICK s \in Subs : PeriodEnds(s) \/ Expire(s) \/ ResetDueSubscriptions(s)
    BY <1>6 DEF SubscriptionStep
  <2>2. CASE PeriodEnds(s)
    <3>1. periods' \in 0 .. MaxPeriods
      BY <2>2, SubscriptionConstants DEF PeriodEnds, SubInv
    <3> QED BY <1>6, <2>2, <3>1 DEF PeriodEnds, SubInv, RowsTypeOK, WithinTotal, UsedIsTaken,
               NoneOwed, SubscriptionStep
  <2>3. CASE Expire(s)
    BY <1>6, <2>3 DEF Expire, SubInv, RowsTypeOK, WithinTotal, UsedIsTaken, NoneOwed,
       SubscriptionStep
  <2>4. CASE ResetDueSubscriptions(s)
    <3>1. used' = usedAfterReset({s}) /\ since' = sinceAfterReset({s})
      BY <2>4 DEF ResetDueSubscriptions
    <3>2. RowsTypeOK' /\ WithinTotal'
      BY <3>1, ResetRows DEF SubInv, RowsTypeOK, WithinTotal
    <3>3. UsedIsTaken'
      BY <3>1, ResetShows DEF SubInv, UsedIsTaken
    <3>4. NoneOwed'
      <4>1. \A t \in Subs, p \in Requests : since'[t][p] \in {0, since[t][p]}
        BY <3>1, ResetShows DEF SubInv
      <4>2. sess' = sess
        BY <1>6 DEF SubscriptionStep
      <4> QED BY <4>1, <4>2 DEF NoneOwed
    <3> QED BY <2>4, <3>2, <3>3, <3>4 DEF ResetDueSubscriptions, SubInv
  <2> QED BY <2>1, <2>2, <2>3, <2>4
<1>7. CASE UNCHANGED vars
  <2>1. UNCHANGED subVars /\ sess' = sess
    BY <1>7 DEF vars
  <2> QED BY <1>0, <2>1 DEF NoneOwed
<1> QED BY <1>1, <1>2, <1>3, <1>4, <1>5, <1>6, <1>7 DEF Next, Step

-----------------------------------------------------------------------------
(* A refund of a subscription is repeatable.                               *)

(* A request has not been charged by its funding source.                   *)
Before == {"new", "wallet", "token", "tokenDebit", "funding", "rollback"}

(* The record names the subscription a request took from, and before the   *)
(* first end of a period the row shows all that the request took.          *)
RecordTells(r) ==
    /\ sess[r].pc \in Before => record[r].sub = 0 /\ net[r] = 0
    /\ record[r].sub # 0 => sess[r].funding = "subscription"

RowTells(r) == \A s \in Subs : since[s][r] = IF record[r].sub = s THEN net[r] ELSE 0

FirstPeriodInv ==
    /\ \A r \in Requests : RecordTells(r)
    /\ periods = 0 => due = {} /\ \A r \in Requests : RowTells(r)

LEMMA SessionPath ==
    ASSUME ChargeInv, NEW r \in Requests, NewBillingSession(r) \/ Step(r)
    PROVE  /\ sess'[r].pc \in Before => sess[r].pc \in Before /\ NoFunding
           /\ sess[r].pc \notin Before \/ preConsume(r) => sess'[r].funding = sess[r].funding
           /\ \A p \in Requests : p # r => sess'[p] = sess[p]
<1>1. sess[r] \in Session /\ sess \in [Requests -> Session]
  BY DEF ChargeInv, SessionTypeOK
<1>2. /\ "pc" \in DOMAIN sess[r] /\ "funding" \in DOMAIN sess[r]
  BY <1>1 DEF Session
<1>3. ASSUME NEW s, Goto(r, s) PROVE sess'[r] = s
  BY <1>1, <1>3 DEF Goto
<1>4. \A p \in Requests : p # r => sess'[p] = sess[p]
  BY NobodyEarlyAgain
<1>5. CASE \/ NewBillingSession(r) \/ buildWalletSession(r) \/ PreConsumeTokenQuota(r)
           \/ preConsumeToken(r) \/ ReadFails(r) \/ rollbackToken(r)
  <2>1. sess[r].pc \in Before /\ sess[r].pc # "funding" /\ NoFunding
    BY <1>5 DEF NewBillingSession, buildWalletSession, PreConsumeTokenQuota, preConsumeToken,
       ReadFails, rollbackToken, At, Before
  <2>2. ~preConsume(r)
    BY <2>1 DEF preConsume, At
  <2> QED BY <1>4, <2>1, <2>2
<1>6. CASE preConsume(r)
  <2>1. sess[r].pc \in Before
    BY <1>6 DEF preConsume, At, Before
  <2>2. \/ Goto(r, [sess[r] EXCEPT !.pc = "relay", !.consumed = sess[r].want,
                                   !.preConsumedQuota = sess[r].want])
        \/ NoFunding /\ \E b \in BOOLEAN :
              Goto(r, [sess[r] EXCEPT !.pc = "rollback", !.insufficient = b])
    BY <1>6 DEF preConsume, BySubscription
  <2>3. sess'[r].funding = sess[r].funding /\ (NoFunding \/ sess'[r].pc = "relay")
    BY <1>2, <1>3, <2>2
  <2> QED BY <1>4, <2>1, <2>3 DEF Before
<1>7. CASE Settle(r)
  <2>1. sess[r].pc = "relay"
    BY <1>7 DEF Settle, At
  <2>2. PICK p \in Prices :
           LET d == p - sess[r].preConsumedQuota
           IN  \/ Goto(r, [sess[r] EXCEPT !.pc = "done", !.settled = TRUE,
                                          !.answered = TRUE, !.actual = p])
               \/ Goto(r, [sess[r] EXCEPT !.pc = "settleToken", !.fundingSettled = TRUE,
                                          !.want = d, !.answered = TRUE, !.actual = p,
                                          !.consumed = ConsumedAfterSettle(r, d, TRUE)])
               \/ Goto(r, [sess[r] EXCEPT !.pc = "done", !.answered = TRUE,
                                          !.consumed = ConsumedAfterSettle(r, d, FALSE)])
    BY <1>7 DEF Settle
  <2>3. sess'[r].pc \in {"done", "settleToken"} /\ sess'[r].funding = sess[r].funding
    BY <1>2, <1>3, <2>2
  <2> QED BY <1>4, <2>1, <2>3 DEF Before
<1>8. CASE refundWithRetry(r)
  <2>1. sess[r].pc = "refundFunding"
    BY <1>8 DEF refundWithRetry, At
  <2>2. Goto(r, [sess[r] EXCEPT !.pc = "refundToken"]) \/ RefundFailed(r)
    BY <1>8 DEF refundWithRetry
  <2>3. sess'[r].pc \in {"refundFunding", "refundToken"} /\ sess'[r].funding = sess[r].funding
    BY <1>2, <1>3, <2>1, <2>2 DEF RefundFailed
  <2> QED BY <1>4, <2>1, <2>3 DEF Before
<1>9. CASE settleToken(r) \/ UpstreamFails(r) \/ Refund(r) \/ refundWallet(r) \/ refundToken(r)
  <2>1. sess[r].pc \notin Before
    BY <1>9 DEF settleToken, UpstreamFails, Refund, refundWallet, refundToken, At, Before
  <2>2. /\ sess'[r].pc \in {"done", "failed", "refundFunding", "refundToken"}
        /\ sess'[r].funding = sess[r].funding
    BY <1>2, <1>3, <1>9 DEF settleToken, UpstreamFails, Refund, refundWallet, refundToken
  <2> QED BY <1>4, <2>1, <2>2 DEF Before
<1> QED BY <1>5, <1>6, <1>7, <1>8, <1>9 DEF Step

(* A step of r moves what it took by d.                                    *)
NetMoves(r, d) ==
    net'[r] = net[r] + d /\ \A p \in Requests : p # r => net'[p] = net[p]

LEMMA NetUpdated ==
    ASSUME net \in [Requests -> Int], NEW r \in Requests, NEW d \in Int
    PROVE  /\ net' = [net EXCEPT ![r] = @ + d] => NetMoves(r, d)
           /\ net' = [net EXCEPT ![r] = @ - d] => NetMoves(r, -d)
           /\ net' = net \/ net' = [net EXCEPT ![r] = @ - 0] => NetMoves(r, 0)
<1>1. net[r] \in Int
  OBVIOUS
<1>2. ASSUME NEW x, net' = [net EXCEPT ![r] = x]
      PROVE  net'[r] = x /\ \A p \in Requests : p # r => net'[p] = net[p]
  BY <1>2
<1>3. net[r] - d = net[r] + (-d) /\ net[r] + 0 = net[r] /\ net[r] - 0 = net[r]
  BY <1>1
<1> QED BY <1>2, <1>3 DEF NetMoves

(* What a step of r may do to what the record and the row tell: nothing;   *)
(* charge a wallet d; or charge the subscription of its record d.          *)
LEMMA TellsOfOthers ==
    ASSUME FirstPeriodInv, NEW r \in Requests, NEW p \in Requests, p # r,
           sess'[p] = sess[p], record'[p] = record[p], net'[p] = net[p],
           periods = 0 => \A s \in Subs : since'[s][p] = since[s][p]
    PROVE  RecordTells(p)' /\ (periods = 0 => RowTells(p)')
  BY DEF FirstPeriodInv, RecordTells, RowTells

LEMMA WalletTells ==
    ASSUME ChargeInv, FirstPeriodInv, NEW r \in Requests, NewBillingSession(r) \/ Step(r),
           UNCHANGED subVars, NEW d \in Int, NetMoves(r, d),
           d = 0 \/ sess[r].funding # "subscription" \/ record[r].sub = 0,
           d = 0 \/ sess'[r].pc \notin Before
    PROVE  FirstPeriodInv'
<1>0. net \in [Requests -> Int]
  BY DEF ChargeInv, SessionTypeOK
<1>1. UNCHANGED <<record, since, due, periods>>
  BY DEF subVars
<1>2. /\ sess'[r].pc \in Before => sess[r].pc \in Before
      /\ sess[r].pc \notin Before => sess'[r].funding = sess[r].funding
      /\ \A p \in Requests : p # r => sess'[p] = sess[p]
  BY SessionPath
<1>3. net'[r] = net[r] + d /\ net[r] \in Int /\ \A p \in Requests : p # r => net'[p] = net[p]
  BY <1>0 DEF NetMoves
<1>4. RecordTells(r)
  BY DEF FirstPeriodInv
<1>5. d = 0 \/ record[r].sub = 0
  BY <1>4 DEF RecordTells
<1>6. RecordTells(r)'
  <2>1. record'[r].sub # 0 => sess'[r].funding = "subscription"
    BY <1>1, <1>2, <1>4 DEF RecordTells
  <2>2. sess'[r].pc \in Before => record'[r].sub = 0 /\ net'[r] = 0
    BY <1>1, <1>2, <1>3, <1>4 DEF RecordTells
  <2> QED BY <2>1, <2>2 DEF RecordTells
<1>7. periods = 0 => RowTells(r)'
  <2> SUFFICES ASSUME periods = 0, NEW s \in Subs
               PROVE  since'[s][r] = IF record'[r].sub = s THEN net'[r] ELSE 0
    BY DEF RowTells
  <2>1. since[s][r] = IF record[r].sub = s THEN net[r] ELSE 0
    BY DEF FirstPeriodInv, RowTells
  <2>2. s # 0
    BY SubscriptionConstants
  <2> QED BY <1>1, <1>3, <1>5, <2>1, <2>2
<1>8. ASSUME NEW p \in Requests, p # r PROVE RecordTells(p)' /\ (periods = 0 => RowTells(p)')
  BY <1>1, <1>2, <1>3, <1>8, TellsOfOthers
<1> QED BY <1>1, <1>6, <1>7, <1>8 DEF FirstPeriodInv

LEMMA SubscriptionTells ==
    ASSUME ChargeInv, SubInv, FirstPeriodInv, NEW r \in Requests, Settle(r) \/ refundWithRetry(r),
           NEW d \in Int, PostConsumeUserSubscriptionDelta(r, record[r].sub, d),
           NetMoves(r, d), record'[r].sub = record[r].sub,
           \A p \in Requests : p # r => record'[p] = record[p]
    PROVE  FirstPeriodInv'
<1>0. net \in [Requests -> Int]
  BY DEF ChargeInv, SessionTypeOK
<1>1. UNCHANGED <<due, periods>> /\ since' = [since EXCEPT ![record[r].sub][r] = @ + d]
  BY DEF PostConsumeUserSubscriptionDelta
<1>2. /\ sess[r].pc \notin Before
      /\ sess'[r].pc \in Before => sess[r].pc \in Before
      /\ sess[r].pc \notin Before => sess'[r].funding = sess[r].funding
      /\ \A p \in Requests : p # r => sess'[p] = sess[p]
  BY SessionPath DEF Step, Settle, refundWithRetry, At, Before
<1>3. net'[r] = net[r] + d /\ net[r] \in Int /\ \A p \in Requests : p # r => net'[p] = net[p]
  BY <1>0 DEF NetMoves
<1>4. RecordTells(r)
  BY DEF FirstPeriodInv
<1>6. RecordTells(r)'
  BY <1>2, <1>4 DEF RecordTells
<1> DEFINE c == record[r].sub
<1>a. /\ \A s \in Subs : s # c => since'[s] = since[s]
      /\ c \in Subs => since'[c][r] = since[c][r] + d
      /\ \A s \in Subs, p \in Requests : p # r => since'[s][p] = since[s][p]
  <2> HIDE DEF c
  <2>1. since' = [since EXCEPT ![c][r] = @ + d] /\ since \in [Subs -> [Requests -> Int]]
    BY <1>1 DEF SubInv, RowsTypeOK, c
  <2> QED BY <2>1
<1>7. periods = 0 => RowTells(r)'
  <2> SUFFICES ASSUME periods = 0, NEW s \in Subs
               PROVE  since'[s][r] = IF record'[r].sub = s THEN net'[r] ELSE 0
    BY DEF RowTells
  <2>1. since[s][r] = IF c = s THEN net[r] ELSE 0
    BY DEF FirstPeriodInv, RowTells
  <2> QED BY <1>3, <1>a, <2>1
<1>8. ASSUME NEW p \in Requests, p # r PROVE RecordTells(p)' /\ (periods = 0 => RowTells(p)')
  BY <1>a, <1>2, <1>3, <1>8, TellsOfOthers
<1> QED BY <1>1, <1>6, <1>7, <1>8 DEF FirstPeriodInv

LEMMA PreConsumeTells ==
    ASSUME ChargeInv, SubInv, FirstPeriodInv, NEW r \in Requests, preConsume(r),
           NEW q \in Nat, SubscriptionPreConsume(r, q), NetMoves(r, q),
           sess'[r].pc \notin Before
    PROVE  FirstPeriodInv'
<1> DEFINE c == Candidate(Owner[r], q)
           S == {t \in ActiveOf(Owner[r]) : t <= c}
<1>0. /\ net \in [Requests -> Int] /\ record \in [Requests -> Record]
      /\ since \in [Subs -> [Requests -> Int]]
  BY DEF ChargeInv, SessionTypeOK, SubInv, RowsTypeOK
<1>1. /\ since' = [sinceAfterReset(S) EXCEPT ![c][r] = @ + q]
      /\ due' = due \ S /\ periods' = periods /\ CanPreConsume(Owner[r], q)
      /\ record' = [record EXCEPT ![r] = [status |-> "consumed", sub |-> c, amount |-> q]]
  BY DEF SubscriptionPreConsume, PreConsumeUserSubscription
<1>2. c \in Subs
  BY <1>1, CandidateFits, BillingConstants DEF SubInv
<1> HIDE DEF c, S
<1>3. /\ sess[r].pc \in Before /\ sess[r].funding = "subscription"
      /\ sess'[r].funding = sess[r].funding
      /\ \A p \in Requests : p # r => sess'[p] = sess[p]
  BY SessionPath DEF Step, preConsume, At, Before, SubscriptionPreConsume, BySubscription
<1>4. net'[r] = net[r] + q /\ net[r] \in Int /\ \A p \in Requests : p # r => net'[p] = net[p]
  BY <1>0 DEF NetMoves
<1>5. record'[r].sub = c /\ \A p \in Requests : p # r => record'[p] = record[p]
  BY <1>0, <1>1
<1>6. record[r].sub = 0 /\ net[r] = 0
  BY <1>3 DEF FirstPeriodInv, RecordTells
<1>7. RecordTells(r)'
  BY <1>3, <1>5 DEF RecordTells
<1>8. ASSUME periods = 0
      PROVE  /\ due' = {}
             /\ \A s \in Subs : s # c => since'[s] = since[s]
             /\ since'[c][r] = since[c][r] + q
             /\ \A s \in Subs, p \in Requests : p # r => since'[s][p] = since[s][p]
  <2>1. due = {}
    BY <1>8 DEF FirstPeriodInv
  <2>2. sinceAfterReset(S) = since
    BY <1>0, <2>1 DEF sinceAfterReset
  <2> QED BY <1>0, <1>1, <1>2, <2>1, <2>2
<1>9. periods = 0 => RowTells(r)'
  <2> SUFFICES ASSUME periods = 0, NEW s \in Subs
               PROVE  since'[s][r] = IF record'[r].sub = s THEN net'[r] ELSE 0
    BY DEF RowTells
  <2>1. since[s][r] = IF record[r].sub = s THEN net[r] ELSE 0
    BY DEF FirstPeriodInv, RowTells
  <2>2. since[s][r] = 0
    BY <1>6, <2>1
  <2> QED BY <1>4, <1>5, <1>6, <1>8, <2>2
<1>10. ASSUME NEW p \in Requests, p # r PROVE RecordTells(p)' /\ (periods = 0 => RowTells(p)')
  BY <1>3, <1>4, <1>5, <1>8, <1>10, TellsOfOthers
<1> QED BY <1>1, <1>7, <1>8, <1>9, <1>10 DEF FirstPeriodInv

LEMMA FirstPeriodStep ==
    ASSUME ChargeInv, SubInv, FirstPeriodInv, NEW r \in Requests, NewBillingSession(r) \/ Step(r)
    PROVE  FirstPeriodInv'
<1>0. /\ sess[r] \in Session /\ record[r] \in Record /\ net \in [Requests -> Int]
      /\ record \in [Requests -> Record] /\ sess \in [Requests -> Session]
  BY SessionOf DEF ChargeInv, SessionTypeOK
<1>1. CASE NoFunding
  <2>1. NetMoves(r, 0) /\ UNCHANGED subVars
    BY <1>0, <1>1, NetUpdated DEF NoFunding
  <2> QED BY <2>1, WalletTells
<1>2. CASE preConsume(r) /\ ~NoFunding
  <2>1. /\ FundingPreConsume(r, sess[r].want)
        /\ Goto(r, [sess[r] EXCEPT !.pc = "relay", !.consumed = sess[r].want,
                                   !.preConsumedQuota = sess[r].want])
    BY <1>2 DEF preConsume
  <2>2. "pc" \in DOMAIN sess[r] /\ sess'[r].pc \notin Before
    <3>1. "pc" \in DOMAIN sess[r]
      BY <1>0 DEF Session
    <3> QED BY <1>0, <2>1, <3>1 DEF Goto, Before
  <2>3. sess[r].want \in Nat /\ sess[r].pc \in Before
    BY <1>2, SessionOf DEF preConsume, At, Session, Coherent, Before
  <2>4. record[r].sub = 0
    BY <2>3 DEF FirstPeriodInv, RecordTells
  <2>5. NetMoves(r, sess[r].want)
    <3>1. net' = [net EXCEPT ![r] = @ + sess[r].want] /\ sess[r].want \in Int
      BY <2>1, <2>3 DEF FundingPreConsume
    <3> QED BY <1>0, <3>1, NetUpdated
  <2>6. CASE UNCHANGED subVars
    <3> DEFINE w == sess[r].want
    <3>1. w \in Int /\ NetMoves(r, w)
      BY <2>3, <2>5
    <3> HIDE DEF w
    <3> QED BY <2>2, <2>4, <2>6, <3>1, WalletTells
  <2>7. CASE SubscriptionPreConsume(r, sess[r].want)
    BY <1>2, <2>2, <2>3, <2>5, <2>7, PreConsumeTells
  <2> QED BY <2>1, <2>6, <2>7 DEF FundingPreConsume, WalletPreConsume, QiniuPreConsume
<1>3. CASE Settle(r) /\ ~NoFunding
  <2>1. PICK p \in Prices : FundingSettle(r, p - sess[r].preConsumedQuota)
    BY <1>3 DEF Settle
  <2> DEFINE d == p - sess[r].preConsumedQuota
  <2>2. d \in Int /\ NetMoves(r, d)
    <3>1. d \in Int
      BY <1>0, BillingConstants DEF Session
    <3>2. net' = [net EXCEPT ![r] = @ + d]
      BY <2>1 DEF FundingSettle
    <3> HIDE DEF d
    <3> QED BY <1>0, <3>1, <3>2, NetUpdated
  <2>3. WalletSettle(r, d) \/ QiniuSettle(r, d) \/ SubscriptionSettle(r, d)
    BY <2>1 DEF FundingSettle
  <2>4. sess[r].pc \notin Before
    BY <1>3 DEF Settle, At, Before
  <2>5. sess'[r].pc \notin Before
    BY <2>4, SessionPath
  <2> HIDE DEF d
  <2>6. CASE WalletSettle(r, d) \/ QiniuSettle(r, d)
    <3>1. UNCHANGED subVars /\ sess[r].funding # "subscription"
      BY <2>6 DEF WalletSettle, QiniuSettle, ByWallet, ByQiniu
    <3> QED BY <2>2, <2>5, <3>1, WalletTells
  <2>7. CASE SubscriptionSettle(r, d)
    <3>1. PostConsumeUserSubscriptionDelta(r, record[r].sub, d) /\ record' = record
      BY <2>7 DEF SubscriptionSettle
    <3> QED BY <1>3, <2>2, <3>1, SubscriptionTells
  <2> QED BY <2>3, <2>6, <2>7
<1>4. CASE refundWallet(r) /\ ~NoFunding
  <2>1. WalletRefund(r) /\ sess[r].pc \notin Before /\ sess[r].funding # "subscription"
    BY <1>4 DEF refundWallet, At, Before, BySubscription
  <2> DEFINE a == Positive(sess[r].consumed)
             d == -a
  <2>2. d \in Int /\ NetMoves(r, d) /\ UNCHANGED subVars
    <3>1. a \in Int
      BY <1>0 DEF Positive, Session
    <3>2. net' = [net EXCEPT ![r] = @ - a] /\ UNCHANGED subVars
      BY <2>1 DEF WalletRefund
    <3>3. d \in Int
      BY <3>1
    <3> HIDE DEF a
    <3>4. NetMoves(r, -a)
      BY <1>0, <3>1, <3>2, NetUpdated, Zenon
    <3> QED BY <3>2, <3>3, <3>4
  <2>3. sess'[r].pc \notin Before
    BY <2>1, SessionPath
  <2> HIDE DEF d
  <2> QED BY <2>1, <2>2, <2>3, WalletTells
<1>5. CASE refundWithRetry(r) /\ ~NoFunding
  <2> DEFINE a == record[r].amount
             d == -a
  <2>1. a \in Int /\ d \in Int
    BY <1>0 DEF Record
  <2>2. \/ net' = [net EXCEPT ![r] = @ - 0] /\ UNCHANGED subVars
        \/ /\ net' = [net EXCEPT ![r] = @ - a]
           /\ PostConsumeUserSubscriptionDelta(r, record[r].sub, d)
           /\ record' = record \/ record' = [record EXCEPT ![r].status = "refunded"]
    BY <1>5 DEF refundWithRetry, SubscriptionRefund, RefundSubscriptionPreConsume,
       RefundHalfCommitted
  <2> HIDE DEF a
  <2>5. CASE net' = [net EXCEPT ![r] = @ - 0] /\ UNCHANGED subVars
    <3>1. NetMoves(r, 0)
      BY <1>0, <2>1, <2>5, NetUpdated, Zenon
    <3> QED BY <2>5, <3>1, WalletTells
  <2>6. CASE /\ net' = [net EXCEPT ![r] = @ - a]
             /\ PostConsumeUserSubscriptionDelta(r, record[r].sub, d)
             /\ record' = record \/ record' = [record EXCEPT ![r].status = "refunded"]
    <3>1. record'[r].sub = record[r].sub /\ \A p \in Requests : p # r => record'[p] = record[p]
      BY <1>0, <2>6 DEF Record
    <3>2. NetMoves(r, d)
      BY <1>0, <2>1, <2>6, NetUpdated
    <3> HIDE DEF d
    <3> QED BY <1>5, <2>1, <2>6, <3>1, <3>2, SubscriptionTells
  <2> QED BY <2>2, <2>5, <2>6
<1>6. NoFunding \/ preConsume(r) \/ Settle(r) \/ refundWallet(r) \/ refundWithRetry(r)
  BY DEF Step, NewBillingSession, buildWalletSession, PreConsumeTokenQuota, preConsumeToken,
     ReadFails, rollbackToken, settleToken, UpstreamFails, Refund, refundToken
<1> QED BY <1>1, <1>2, <1>3, <1>4, <1>5, <1>6

LEMMA FirstPeriodKept ==
    ASSUME ChargeInv, SubInv, FirstPeriodInv, [Next]_vars
    PROVE  FirstPeriodInv'
<1>1. ASSUME NEW r \in Requests, NewBillingSession(r) \/ Step(r) PROVE FirstPeriodInv'
  BY <1>1, FirstPeriodStep
<1>2. CASE SubscriptionStep
  <2>1. PICK s \in Subs : PeriodEnds(s) \/ Expire(s) \/ ResetDueSubscriptions(s)
    BY <1>2 DEF SubscriptionStep
  <2>2. \A r \in Requests : RecordTells(r)'
    BY <1>2, <2>1 DEF SubscriptionStep, PeriodEnds, Expire, ResetDueSubscriptions,
       FirstPeriodInv, RecordTells
  <2>3. CASE PeriodEnds(s)
    <3>1. periods' # 0
      BY <2>3 DEF PeriodEnds, SubInv
    <3> QED BY <2>2, <3>1 DEF FirstPeriodInv
  <2>4. CASE Expire(s)
    BY <1>2, <2>2, <2>4 DEF SubscriptionStep, Expire, FirstPeriodInv, RowTells
  <2>5. CASE ResetDueSubscriptions(s)
    <3>1. periods' # 0
      BY <2>5 DEF ResetDueSubscriptions, FirstPeriodInv
    <3> QED BY <2>2, <3>1 DEF FirstPeriodInv
  <2> QED BY <2>1, <2>3, <2>4, <2>5
<1>3. CASE UNCHANGED vars
  BY <1>3 DEF vars, subVars, FirstPeriodInv, RecordTells, RowTells
<1> QED BY <1>1, <1>2, <1>3 DEF Next

-----------------------------------------------------------------------------
(* The inductive invariant and what follows.                               *)

BillingInv ==
    /\ ChargeInv /\ SubInv /\ NoneOwed /\ FirstPeriodInv /\ WalletInv
    /\ faults \in 0 .. MaxFaults

LEMMA BillingStarts == ASSUME Init PROVE BillingInv
<1>1. ChargeInv
  BY ChargeStarts
<1>2. SubInv
  <2>1. UsedIsTaken
    BY NothingTaken DEF Init, SubscriptionInit, UsedIsTaken
  <2> QED BY <2>1, SubscriptionConstants DEF Init, SubscriptionInit, SubInv, RowsTypeOK,
             WithinTotal
<1>5. NoneOwed
  BY DEF Init, SubscriptionInit, NoneOwed
<1>3. WalletInv
  <2>1. BInv
    BY BalanceStarts DEF Init
  <2>2. Whole /\ NoOverdraft
    BY BalanceConstants DEF Init, BalanceInit, Whole, NoOverdraft
  <2> QED BY <2>1, <2>2 DEF WalletInv
<1>4. faults \in 0 .. MaxFaults
  BY BillingConstants DEF Init
<1>6. FirstPeriodInv
  BY DEF Init, SubscriptionInit, NoRecord, FirstPeriodInv, RecordTells, RowTells
<1> QED BY <1>1, <1>2, <1>3, <1>4, <1>5, <1>6 DEF BillingInv

LEMMA FaultsBounded ==
    ASSUME faults \in 0 .. MaxFaults, [Next]_vars
    PROVE  faults' \in 0 .. MaxFaults
<1>1. faults' = faults \/ (faults < MaxFaults /\ faults' = faults + 1)
  <2>1. ASSUME NEW r \in Requests, NoFault \/ Fault(r)
        PROVE  faults' = faults \/ (faults < MaxFaults /\ faults' = faults + 1)
    BY <2>1 DEF NoFault, Fault
  <2>2. ASSUME NEW r \in Requests, NewBillingSession(r) \/ Step(r)
        PROVE  NoFault \/ Fault(r)
    BY <2>2 DEF Step, NewBillingSession, buildWalletSession, PreConsumeTokenQuota,
       preConsumeToken, ReadFails, preConsume, rollbackToken, Settle, settleToken,
       UpstreamFails, Refund, refundWallet, refundWithRetry, refundToken
  <2> QED BY <2>1, <2>2 DEF Next, SubscriptionStep, vars
<1> QED BY <1>1, BillingConstants

LEMMA BillingKept ==
    ASSUME BillingInv, [Next]_vars
    PROVE  BillingInv'
<1>1. ChargeInv'
  BY ChargeKept DEF BillingInv, SubInv
<1> QED BY <1>1, SubsKept, FirstPeriodKept, WalletKept, FaultsBounded DEF BillingInv

(* The columns and sessions of relay billing keep their types; a           *)
(* subscription is never used beyond amount_total, neither by pre-consumes *)
(* of requests that run at the same time nor by a settlement or refund     *)
(* that arrives after a reset or after the subscription has expired; and   *)
(* amount_used is what requests took from the row since its last reset,    *)
(* summed over all of them: at least the balance of what they took and     *)
(* gave back, at most what those that still hold quota took.  Also when    *)
(* refunds commit by half.                                                 *)
THEOREM SubscriptionsAddUp == Spec => []BillingBooks
<1>1. BillingInv => BillingBooks
  <2> SUFFICES ASSUME BillingInv PROVE BillingTypeOK /\ SubscriptionBooks
    BY DEF BillingBooks
  <2>1. BalanceTypeOK
    BY DEF BillingInv, WalletInv, BInv
  <2>2. SubscriptionTypeOK
    BY DEF BillingInv, SubInv, RowsTypeOK, ChargeInv, SessionTypeOK, Record, SubscriptionTypeOK
  <2>3. \A r \in Requests : /\ sess[r].pc \in PCs
                            /\ sess[r].funding \in {"wallet", "qiniu", "subscription"}
    BY SessionOf DEF BillingInv, Session
  <2>4. SubscriptionBooks
    BY DEF BillingInv, SubInv, WithinTotal, UsedIsTaken, ShowsTaken, SubscriptionBooks
  <2> QED BY <2>1, <2>2, <2>3, <2>4 DEF BillingTypeOK, BillingInv, ChargeInv, SessionTypeOK
<1> QED BY <1>1, BillingStarts, BillingKept, PTL DEF Spec

(* A request none of whose transactions failed costs exactly its price     *)
(* when it was settled, what preConsume took when Settle was refused, and  *)
(* nothing when it failed or was rejected, on its funding source and on    *)
(* its token alike: through trusted bypasses, fallbacks between wallet and *)
(* subscription, refunds in the background, and whatever other requests do *)
(* to the same accounts.  This holds also when refunds commit by half.     *)
THEOREM RequestsCostTheirPrice == Spec => []ChargedExactly
<1>1. BillingInv => ChargedExactly
  <2> SUFFICES ASSUME BillingInv, NEW r \in Requests \ hurt, Ended(r)
               PROVE  /\ net[r] = Due(r)
                      /\ tokenNet[r] = IF sess[r].playground THEN 0 ELSE Due(r)
    BY DEF ChargedExactly
  <2>1. /\ sess[r].pc \in {"rejected", "done"} /\ Coherent(sess[r], record[r])
        /\ Exactly(sess[r], net[r], tokenNet[r]) /\ sess[r] \in Session
    BY SessionOf DEF BillingInv, Ended
  <2>2. Due(r) = TakenBySession(sess[r])
    BY <2>1 DEF Due, TakenBySession, Session
  <2>3. CASE sess[r].pc = "rejected"
    <3>1. TakenBySession(sess[r]) = 0
      BY <2>1, <2>3 DEF TakenBySession, Coherent
    <3> QED BY <2>1, <2>2, <2>3, <3>1 DEF Exactly, FundingOf, FromToken, Paying
  <2>4. CASE sess[r].pc = "done"
    BY <2>1, <2>2, <2>4 DEF Exactly, FundingOf, FromToken, Paying
  <2> QED BY <2>1, <2>3, <2>4
<1> QED BY <1>1, BillingStarts, BillingKept, PTL DEF Spec

LEMMA NothingOverRefunded ==
    ASSUME BillingInv, SplitRefund = FALSE
    PROVE  NeverOverRefunded
<1> SUFFICES ASSUME NEW r \in Requests
             PROVE  net[r] >= 0 /\ tokenNet[r] >= 0
  BY DEF NeverOverRefunded
<1>1. /\ sess[r] \in Session /\ Coherent(sess[r], record[r])
      /\ AtLeast(sess[r], net[r], tokenNet[r])
      /\ net[r] \in Int /\ tokenNet[r] \in Int
  BY SessionOf DEF BillingInv
<1> DEFINE s == sess[r]
<1>2. s.pc \in Paying => s.want = s.tokenConsumed
  BY <1>1 DEF Coherent
<1>3. /\ s.tokenConsumed \in Nat /\ s.actual \in Nat /\ s.preConsumedQuota \in Nat
  BY <1>1 DEF Session
<1> HIDE DEF s
<1>4. s.pc # "done" => FundingOf(s) \in Nat /\ FromToken(s) \in Nat
  BY <1>2, <1>3 DEF FundingOf, FromToken
<1> QED BY <1>1, <1>4 DEF AtLeast, s

(* No request gets back more than was taken for it, from its funding       *)
(* source or its token, however many transactions fail and in whichever    *)
(* half of preConsume, Settle or Refund: provided that the two             *)
(* transactions of RefundSubscriptionPreConsume commit together, which the *)
(* code does not guarantee (SplitRefund).                                  *)
THEOREM RefundsAreBounded ==
    ASSUME SplitRefund = FALSE
    PROVE  Spec => []NeverOverRefunded
<1>1. BillingInv => NeverOverRefunded
  BY NothingOverRefunded
<1> QED BY <1>1, BillingStarts, BillingKept, PTL DEF Spec

(* Under the same proviso the refund of a subscription can be repeated:    *)
(* before its first reset a row shows at least what all the requests in    *)
(* flight have pre-consumed from it, so a retry of refundWithRetry never   *)
(* gives back quota that other requests hold.  With SplitRefund it does:   *)
(* the run refund_split.                                                   *)
THEOREM RefundsAreRepeatable ==
    ASSUME SplitRefund = FALSE
    PROVE  Spec => []RefundIdempotent
<1>1. BillingInv => RefundIdempotent
  <2> SUFFICES ASSUME BillingInv, periods = 0, NEW s \in Subs
               PROVE  used[s] >= SumFunction([r \in Requests |-> HeldFrom(s, r)])
    BY DEF RefundIdempotent
  <2> DEFINE held == [r \in Requests |-> HeldFrom(s, r)]
  <2>1. since[s] \in [Requests -> Int] /\ used[s] \in Nat /\ IsFiniteSet(Requests)
    BY SubscriptionConstants DEF BillingInv, SubInv, RowsTypeOK
  <2>2. ASSUME NEW r \in Requests
        PROVE  HeldFrom(s, r) \in Int /\ HeldFrom(s, r) <= since[s][r]
    <3>1. since[s][r] = IF record[r].sub = s THEN net[r] ELSE 0
      BY DEF BillingInv, FirstPeriodInv, RowTells
    <3>2. net[r] >= 0
      BY NothingOverRefunded DEF NeverOverRefunded
    <3>3. /\ sess[r] \in Session /\ record[r] \in Record /\ Coherent(sess[r], record[r])
          /\ AtLeast(sess[r], net[r], tokenNet[r]) /\ net[r] \in Int
      BY SessionOf DEF BillingInv
    <3>4. CASE BySubscription(r) /\ At(r, "relay") /\ record[r].sub = s
      <4>1. sess[r].pc = "relay" /\ sess[r].pc \in Paying
        BY <3>4 DEF At, Paying
      <4>2. record[r].amount = sess[r].want
        BY <3>3, <3>4, <4>1 DEF Coherent, BySubscription
      <4>3. net[r] >= sess[r].want
        BY <3>3, <4>1 DEF AtLeast, FundingOf
      <4>4. record[r].amount \in Nat
        BY <3>3 DEF Record
      <4> QED BY <3>1, <3>4, <4>2, <4>3, <4>4 DEF HeldFrom
    <3>5. CASE ~(BySubscription(r) /\ At(r, "relay") /\ record[r].sub = s)
      BY <3>1, <3>2, <3>5 DEF HeldFrom
    <3> QED BY <3>4, <3>5
  <2>3. held \in [Requests -> Int] /\ \A r \in Requests : held[r] <= since[s][r]
    BY <2>2
  <2> HIDE DEF held
  <2>4. SumFunction(held) <= SumFunction(since[s])
    BY <2>1, <2>3, SumGrows
  <2>5. SumFunction(held) \in Int
    BY <2>1, <2>3, SumInt
  <2>6. SumFunction(since[s]) \in Int /\ SumFunction(since[s]) <= used[s]
    BY <2>1, SumInt DEF BillingInv, SubInv, UsedIsTaken, ShowsTaken
  <2>7. SumFunction(held) <= used[s]
    BY <2>1, <2>4, <2>5, <2>6
  <2> QED BY <2>1, <2>5, <2>7 DEF held
<1> QED BY <1>1, BillingStarts, BillingKept, PTL DEF Spec

(* Requests that run at the same time do not overdraw a wallet, although   *)
(* each reads users.quota before it takes any and trusted ones take        *)
(* nothing until Settle: debitBalanceByQuotaTx compares the balance only,  *)
(* and the balance tracks the quota.  Only a settlement on the Qiniu       *)
(* wallet (debitBalanceByQuotaSilentlyAllowDebtTx) leaves a debt.          *)
THEOREM WalletsNotOverdrawn == Spec => []NoOverdraft
<1>1. BillingInv => NoOverdraft
  BY DEF BillingInv, WalletInv
<1> QED BY <1>1, BillingStarts, BillingKept, PTL DEF Spec
=============================================================================
