----------------------------- MODULE MCPayments -----------------------------
(***************************************************************************)
(* Money that comes in, for TLC: top-up orders, VIP activations and the    *)
(* balance of the wallet, which are extended, and redemption codes,        *)
(* check-ins and the cooldown of withdrawals, which are instances.  They   *)
(* share no state, so one behaviour exercises one of them, in one          *)
(* deployment: the variable part says which.                               *)
(***************************************************************************)
EXTENDS TopUpOrders, VipActivation, WalletBalanceSpec, TLC

CONSTANTS Codes, Payees,    \* codes, and users who enter them, interchangeable
          Quotas,           \* amounts of codes an administrator may ask for
          DefaultQuota, MaxCalls, MaxTries, NoUser, NoCode,
          Cards, MaxDay, MaxFaults,         \* of the check-ins of a user
          Cooldown, Commission, MaxClock    \* of the withdrawals of a user

(* The clock of the codes starts at 1, and so does the calendar.           *)
ASSUME GiftAssumption ==
    /\ Quotas \subseteq Nat /\ DefaultQuota \in Nat /\ MaxTime \in Nat \ {0}
    /\ MaxCalls \in Nat /\ MaxTries \in Nat /\ MaxDay \in Nat \ {0}

ASSUME CooldownAssumption == Cooldown \in Nat /\ Commission \in Nat /\ MaxClock \in Nat

VARIABLES
    part,
    code, credited, redeeming, shown, loading, drawer, call,    \* Redemption
    now, calls, tries, asked, payments, payee, reopened,
    day, records, request, checked, faults, awards, told, broken,   \* Checkin
    time, pc, withdrawable, orders                              \* WithdrawCooldown

(* Two nodes, and payments reported while they are under way.              *)
TwoNodes == INSTANCE TopUpOrders WITH
    Nodes <- {"n1", "n2"}, Providers <- {"stripe", "waffo"}, Interim <- TRUE

(* One console creates, edits, switches, deletes and cleans codes, and     *)
(* users enter them.                                                       *)
Redeem == INSTANCE Redemption WITH
    Users <- Payees, Consoles <- {"a1"},
    AdminOps <- {"create", "edit", "toggle", "delete", "clean"},
    RowLocks <- TRUE, quota <- credited, tx <- redeeming

(* The pages of a user on SQLite: two statements and a compensating        *)
(* delete.                                                                 *)
CheckIn == INSTANCE Checkin WITH UsingSQLite <- TRUE

(* The same on MySQL or PostgreSQL: record and award in one transaction.   *)
Transaction == INSTANCE Checkin WITH UsingSQLite <- FALSE

(* One withdrawal request at a time, sent again when its answer is lost.   *)
Withdraw == INSTANCE WithdrawCooldown WITH
    Requests <- {"r1"}, MaxTime <- MaxClock, now <- time, commission <- withdrawable

LegacyQuota == [u \in Users |-> 2]

redeemVars == <<code, credited, redeeming, shown, loading, drawer, call,
                now, calls, tries, asked, payments, payee, reopened>>
checkinVars == <<day, records, request, checked, faults, awards, told, broken>>
withdrawVars == <<time, pc, withdrawable, orders>>

PaymentsInit ==
    /\ part \in {"top-up", "nodes", "vip", "balance", "redemption",
                 "checkin", "transaction", "cooldown"}
    /\ IF part = "nodes" THEN TwoNodes!Init ELSE Init
    /\ VipInit /\ BalanceInit
    /\ Redeem!Init
    /\ part # "redemption" => code = [c \in Codes |-> Redeem!NoRow]
    /\ IF part = "transaction" THEN Transaction!Init ELSE CheckIn!Init
    /\ Withdraw!Init

PaymentsNext ==
    /\ UNCHANGED part
    /\ \/ part = "top-up" /\ Next
          /\ UNCHANGED <<vipVars, balanceVars, redeemVars, checkinVars, withdrawVars>>
       \/ part = "nodes" /\ TwoNodes!Next
          /\ UNCHANGED <<vipVars, balanceVars, redeemVars, checkinVars, withdrawVars>>
       \/ part = "vip" /\ VipNext
          /\ UNCHANGED <<vars, balanceVars, redeemVars, checkinVars, withdrawVars>>
       \/ part = "balance" /\ BalanceNext
          /\ UNCHANGED <<vars, vipVars, redeemVars, checkinVars, withdrawVars>>
       \/ part = "redemption" /\ Redeem!Next
          /\ UNCHANGED <<vars, vipVars, balanceVars, checkinVars, withdrawVars>>
       \/ part = "checkin" /\ CheckIn!Next
          /\ UNCHANGED <<vars, vipVars, balanceVars, redeemVars, withdrawVars>>
       \/ part = "transaction" /\ Transaction!Next
          /\ UNCHANGED <<vars, vipVars, balanceVars, redeemVars, withdrawVars>>
       \/ part = "cooldown" /\ Withdraw!Next
          /\ UNCHANGED <<vars, vipVars, balanceVars, redeemVars, checkinVars>>

PaymentsSpec ==
    PaymentsInit /\ [][PaymentsNext]_<<part, vars, vipVars, balanceVars, redeemVars,
                                       checkinVars, withdrawVars>>

Symmetry == Permutations(Payees)

(* Codes and awards are paid once, to whom the rows say, and in full.      *)
PaidOnce ==
    CASE part = "redemption" ->
            /\ Redeem!RedemptionTypeOK /\ Redeem!RedeemedOnceUnlessReopened
            /\ Redeem!UsedNamesThePayee /\ Redeem!WorthAsAsked
      [] part = "checkin" -> CheckIn!AwardedOncePerDay /\ CheckIn!RecordMeansAward
      [] part = "transaction" -> Transaction!AwardedOncePerDay /\ Transaction!RecordMeansAward
      [] OTHER -> TRUE

(* What every step of redemption codes and check-ins preserves:            *)
(*   Redeem never pays a code twice, whatever runs beside it: each payment *)
(*     after the first follows an update that set the paid code back to    *)
(*     Enabled;                                                            *)
(*   a row that says Used was paid, and names whom Redeem paid last,       *)
(*     however stale the page an administrator updates it from;            *)
(*   a code is worth what the last create or edit asked for: neither an    *)
(*     UpdateRedemption with status_only nor Redeem changes its amount,    *)
(*     nor does the loop of AddRedemption, which may break off;            *)
(*   a code that DeleteRedemptionById or DeleteInvalidRedemptions deleted  *)
(*     is neither brought back nor paid by what was under way;             *)
(*   UserCheckin pays the award of a day once at most, and a day the user  *)
(*     was told of was paid, around midnight and whatever fails;           *)
(*   a day is recorded exactly when it was paid, except in between and     *)
(*     after a crash or a failed compensation.                             *)
GiftsAreSound ==
    [][/\ PaidOnce'
       /\ part = "redemption" => Redeem!DeletedStaysDead]_<<redeemVars, checkinVars>>

(* checkPiggyWithdrawEligibility: orders of a user who sends one request   *)
(* at a time are the cooldown apart, also when a request is repeated.      *)
OrdersSpaced == Withdraw!OrdersSpaced
=============================================================================
