--------------------------- MODULE ManualWithdraw ---------------------------
(***************************************************************************)
(* Withdrawals an administrator pays by hand (service/withdraw.go): one    *)
(* action per exported operation, each of them one transaction that locks  *)
(* the order row.  The admin routes accept any order id, so the guards on  *)
(* the provider column are what keeps these operations away from orders    *)
(* of the piggy channel.                                                   *)
(***************************************************************************)
EXTENDS WithdrawLedger

SubmitWithdrawOrder(o) ==
    /\ o \in Manual
    /\ status[o] = "none"
    /\ Freeze(o)
    /\ SetStatus(o, "pending")

ApproveWithdrawOrder(o) ==
    /\ o \in Manual
    /\ status[o] = "pending"
    /\ SetStatus(o, "approved")
    /\ NoMoney

(* Mutants: the rejection forgets one of the final statuses.               *)
RejectWithdrawOrder_Twice(o) ==
    /\ o \in Manual
    /\ status[o] \notin {"none", "paid"}
    /\ Release(o, "reject")
    /\ SetStatus(o, "rejected")

RejectWithdrawOrder_Paid(o) ==
    /\ o \in Manual
    /\ status[o] \notin {"none", "rejected"}
    /\ Release(o, "reject")
    /\ SetStatus(o, "rejected")

RejectWithdrawOrder(o) ==
    /\ o \in Manual
    /\ status[o] \notin {"none", "rejected", "paid"}
    /\ Release(o, "reject")
    /\ SetStatus(o, "rejected")

(* Mutant: the admin may mark a paid order as paid again.                  *)
MarkWithdrawOrderPaid_Twice(o) ==
    /\ o \in Manual
    /\ status[o] \in {"approved", "failed", "paid"}
    /\ PayOut(o)
    /\ SetStatus(o, "paid")

MarkWithdrawOrderPaid(o) ==
    /\ o \in Manual
    /\ status[o] \in {"approved", "failed"}
    /\ PayOut(o)
    /\ SetStatus(o, "paid")

MarkWithdrawOrderFailed(o) ==
    /\ o \in Manual
    /\ status[o] = "approved"
    /\ SetStatus(o, "failed")
    /\ NoMoney

ManualNext ==
    /\ \E o \in Orders :
          \/ SubmitWithdrawOrder(o)
          \/ ApproveWithdrawOrder(o)
          \/ RejectWithdrawOrder(o)
          \/ MarkWithdrawOrderPaid(o)
          \/ MarkWithdrawOrderFailed(o)
    /\ UNCHANGED incomeVars
=============================================================================
