------------------------------ MODULE TopUpOrders ------------------------------
(***************************************************************************)
(* Top-up orders: their creation, the notifications of the payment         *)
(* providers, completion and reversal by an administrator                  *)
(* (service/topup_completion.go, service/payment_reverse.go, model/topup.go*)
(* and the handlers controller/topup*.go, alipay_notify.go and             *)
(* wechat_pay_notify.go).                                                  *)
(*                                                                         *)
(* CompleteTopUpOrder and ReverseTopUpOrder lock the row of the order and  *)
(* are one step each.  The handlers that fail an order ask for the lock    *)
(* with an option of gorm 1, which go.mod's gorm 1.25 ignores: they read   *)
(* the row in one step and save it whole in another.  LockOrder is a mutex *)
(* in the memory of one node.                                              *)
(*                                                                         *)
(* Amounts, signatures, audit logs and the grants of the provider Qiniu    *)
(* are left out; the effect of a credit or debit on the account is in      *)
(* WalletBalance, here a flow is there or not.  A provider sends a notice  *)
(* again until it is acknowledged, and possibly after that.                *)
(***************************************************************************)
EXTENDS Naturals

CONSTANTS
    Orders, Nodes, Providers,
    AdminChecks,        \* an administrator completes only what has been paid
    Interim,            \* Waffo may notify of a payment that is still under way
    Faults,             \* database and commission settlement may fail
    None

ASSUME TopUpAssumption ==
    /\ Providers \subseteq {"stripe", "epay", "alipay", "wechat", "waffo", "pancake", "creem"}
    /\ AdminChecks \in BOOLEAN /\ Interim \in BOOLEAN /\ Faults \in BOOLEAN
    /\ None \notin Orders

VARIABLES
    provider,           \* of each order, None before it is requested
    status,             \* of the row
    link,               \* the payment link: "none", "asked", "given" or "refused"
    flows,              \* wallet flows written for the order
    commission,         \* commission of the inviter: "none", "settled", "failed" or "reversed"
    prov,               \* at the provider: "none", "open", "paid", "closed" or "refunded"
    due,                \* notices the provider still sends
    failing             \* per node: a handler between its read and its save

rowVars == <<status, flows, commission>>
provVars == <<provider, link, prov>>
vars == <<rowVars, provVars, due, failing>>

Idle == [order |-> None, to |-> "failed", locked |-> FALSE, notice |-> "none"]

(* LockOrder(o) does not have to wait on node n.                           *)
LockOrder(n, o) == ~(failing[n].order = o /\ failing[n].locked)

(***************************************************************************)
(* The provider                                                            *)
(***************************************************************************)

(* Links are made before the row is inserted, or after it.                 *)
LinkFirst == {"stripe", "epay"}

RequestPay(o, p) ==
    /\ status[o] = "none"
    /\ provider' = [provider EXCEPT ![o] = p]
    /\ status' = [status EXCEPT ![o] = "pending"]
    /\ link' = [link EXCEPT ![o] = IF p \in LinkFirst THEN "given" ELSE "asked"]
    /\ prov' = [prov EXCEPT ![o] = IF p \in LinkFirst THEN "open" ELSE "none"]
    /\ UNCHANGED <<flows, commission, due, failing>>

LinkGiven(o) ==
    /\ link[o] = "asked"
    /\ link' = [link EXCEPT ![o] = "given"]
    /\ prov' = [prov EXCEPT ![o] = "open"]
    /\ UNCHANGED <<provider, rowVars, due, failing>>

(* The order is failed: by saving the row as it was inserted (Waffo), by   *)
(* UpdatePendingTopUpStatus (Alipay, WeChat), or not at all (Creem).       *)
LinkRefused(n, o) ==
    /\ link[o] = "asked" /\ failing[n] = Idle
    /\ link' = [link EXCEPT ![o] = "refused"]
    /\ status' = [status EXCEPT ![o] = IF provider[o] \in {"waffo", "pancake"} THEN "failed" ELSE @]
    /\ failing' = [failing EXCEPT ![n] =
          IF provider[o] \in {"alipay", "wechat"} /\ status[o] = "pending"
          THEN [order |-> o, to |-> "failed", locked |-> FALSE, notice |-> "none"]
          ELSE @]
    /\ UNCHANGED <<provider, prov, flows, commission, due>>

Pay(o) ==
    /\ prov[o] = "open"
    /\ prov' = [prov EXCEPT ![o] = "paid"]
    /\ due' = [due EXCEPT ![o] = @ \cup {"success"}]
    /\ UNCHANGED <<provider, link, rowVars, failing>>

(* The user never pays.  The other providers' notices of this are ignored. *)
Close(o) ==
    /\ prov[o] = "open"
    /\ prov' = [prov EXCEPT ![o] = "closed"]
    /\ \E k \in {"failed", "expired"} :
          /\ k = "expired" => provider[o] = "stripe"
          /\ due' = [due EXCEPT ![o] =
                IF provider[o] \in {"stripe", "alipay", "waffo"} THEN @ \cup {k} ELSE @]
    /\ UNCHANGED <<provider, link, rowVars, failing>>

(* A payment under way: Stripe's session is complete and not paid.         *)
UnderWay(o) ==
    /\ prov[o] = "open"
    /\ \E k \in {"interim", "unpaid"} :
          /\ k = "interim" => Interim /\ provider[o] = "waffo"
          /\ k = "unpaid" => provider[o] = "stripe"
          /\ due' = [due EXCEPT ![o] = @ \cup {k}]
    /\ UNCHANGED <<rowVars, provVars, failing>>

(* Stripe reports a refund; Alipay closes the trade.                       *)
Refund(o) ==
    /\ prov[o] = "paid"
    /\ prov' = [prov EXCEPT ![o] = "refunded"]
    /\ due' = [due EXCEPT ![o] = @ \cup
          (CASE provider[o] = "stripe" -> {"refund"}
             [] provider[o] = "alipay" -> {"failed"}
             [] OTHER -> {})]
    /\ UNCHANGED <<provider, link, rowVars, failing>>

(* The answer to notice k; one that is acknowledged may still be repeated. *)
Acknowledge(o, k, acknowledged) ==
    \/ UNCHANGED due
    \/ acknowledged /\ due' = [due EXCEPT ![o] = @ \ {k}]

(* Acknowledged whatever came of it.                                       *)
AcksAnyway == {"stripe", "epay"}

(***************************************************************************)
(* Transactions on a locked row                                            *)
(***************************************************************************)

(* A commission that was recorded, even as failed, is not settled again.   *)
settleTopUpCommissions(o) ==
    \E c \in IF commission[o] # "none" THEN {commission[o]}
             ELSE IF Faults THEN {"settled", "failed", "none"} ELSE {"settled"} :
        commission' = [commission EXCEPT ![o] = c]

(* A repeated notice settles the commission of an order that stands; an    *)
(* order that was reversed, failed or has expired is left alone.           *)
CompleteTopUpOrder(o) ==
    \/ /\ status[o] = "success"
       /\ settleTopUpCommissions(o)
       /\ UNCHANGED <<status, flows>>
    \/ /\ status[o] = "pending"
       /\ status' = [status EXCEPT ![o] = "success"]
       /\ flows' = [flows EXCEPT ![o] = @ \cup {"recharge"}]
       /\ settleTopUpCommissions(o)
    \/ /\ status[o] \notin {"pending", "success"}
       /\ UNCHANGED rowVars

(* The debit fails, and all with it, when the balance has been spent.      *)
ReverseTopUpOrder(o) ==
    \/ /\ status[o] = "success"
       /\ status' = [status EXCEPT ![o] = "reversed"]
       /\ flows' = [flows EXCEPT ![o] = @ \cup {"reverse"}]
       /\ commission' = [commission EXCEPT ![o] = IF @ = "settled" THEN "reversed" ELSE @]
    \/ UNCHANGED rowVars

(***************************************************************************)
(* Notifications                                                           *)
(***************************************************************************)

(* Epay and Creem look at the row first and complete only a pending one.   *)
Rechecks == {"epay", "creem"}

SuccessNotify(n, o) ==
    /\ "success" \in due[o] /\ LockOrder(n, o)
    /\ IF provider[o] \in Rechecks /\ status[o] # "pending"
       THEN UNCHANGED rowVars /\ Acknowledge(o, "success", TRUE)
       ELSE /\ CompleteTopUpOrder(o)
            /\ Acknowledge(o, "success",
                  status[o] \in {"pending", "success"} \/ provider[o] \in AcksAnyway)
    /\ UNCHANGED <<provVars, failing>>

(* Fault: a complete session is taken for a paid one.                      *)
CompletedIsPaid(n, o) ==
    /\ "unpaid" \in due[o] /\ LockOrder(n, o)
    /\ CompleteTopUpOrder(o)
    /\ Acknowledge(o, "unpaid", TRUE)
    /\ UNCHANGED <<provVars, failing>>

(* A complete session that is not paid waits for the asynchronous result.  *)
CompletedUnpaid(n, o) ==
    /\ "unpaid" \in due[o]
    /\ Acknowledge(o, "unpaid", TRUE)
    /\ UNCHANGED <<rowVars, provVars, failing>>

(* Fault: every notice is acknowledged before it is handled.               *)
NotifyFailsAcknowledged(o, k) ==
    /\ Faults /\ k \in due[o]
    /\ Acknowledge(o, k, TRUE)
    /\ UNCHANGED <<rowVars, provVars, failing>>

(* The database fails, and the notice has no effect.                       *)
NotifyFails(o, k) ==
    /\ Faults /\ k \in due[o]
    /\ Acknowledge(o, k, provider[o] \in AcksAnyway)
    /\ UNCHANGED <<rowVars, provVars, failing>>

(* Fault: no handler that fails an order takes LockOrder.                  *)
LocksNever == {}

(* Stripe's and Alipay's handlers take LockOrder, Waffo's does not.        *)
LocksWhenFailing == {"stripe", "alipay"}

(* The order was not paid; every notice of Waffo that is not a success     *)
(* says so.  What is not pending stays: Alipay asks that it be failed.     *)
FailNotify(n, o, k) ==
    /\ k \in due[o] \cap {"failed", "expired", "interim"}
    /\ failing[n] = Idle /\ LockOrder(n, o)
    /\ IF status[o] = "pending"
       THEN /\ failing' = [failing EXCEPT ![n] =
                  [order |-> o, to |-> IF k = "expired" THEN k ELSE "failed",
                   locked |-> provider[o] \in LocksWhenFailing, notice |-> k]]
            /\ UNCHANGED due
       ELSE /\ Acknowledge(o, k, provider[o] # "alipay" \/ status[o] = "failed")
            /\ UNCHANGED failing
    /\ UNCHANGED <<rowVars, provVars>>

(* The row is saved as it was read, with its new status.                   *)
SaveFailed(n) ==
    /\ failing[n] # Idle
    /\ status' = [status EXCEPT ![failing[n].order] = failing[n].to]
    /\ failing' = [failing EXCEPT ![n] = Idle]
    /\ Acknowledge(failing[n].order, failing[n].notice, TRUE)
    /\ UNCHANGED <<flows, commission, provVars>>

(* The answer to Stripe is the same when the reversal was refused.         *)
RefundNotify(n, o) ==
    /\ "refund" \in due[o] /\ LockOrder(n, o)
    /\ ReverseTopUpOrder(o)
    /\ Acknowledge(o, "refund", TRUE)
    /\ UNCHANGED <<provVars, failing>>

(***************************************************************************)
(* Administrators                                                          *)
(***************************************************************************)

AdminCompleteTopUp(n, o) ==
    /\ status[o] # "none" /\ LockOrder(n, o)
    /\ AdminChecks => prov[o] \in {"paid", "refunded"}
    /\ CompleteTopUpOrder(o)
    /\ UNCHANGED <<provVars, due, failing>>

AdminReverseTopUpOrder(o) ==
    /\ ReverseTopUpOrder(o)
    /\ UNCHANGED <<provVars, due, failing>>

Init ==
    /\ provider = [o \in Orders |-> None] /\ status = [o \in Orders |-> "none"]
    /\ link = [o \in Orders |-> "none"] /\ prov = [o \in Orders |-> "none"]
    /\ flows = [o \in Orders |-> {}] /\ commission = [o \in Orders |-> "none"]
    /\ due = [o \in Orders |-> {}] /\ failing = [n \in Nodes |-> Idle]

Next ==
    \/ \E o \in Orders :
          \/ \E p \in Providers : RequestPay(o, p)
          \/ LinkGiven(o) \/ Pay(o) \/ Close(o) \/ UnderWay(o) \/ Refund(o)
          \/ \E k \in due[o] : NotifyFails(o, k)
          \/ AdminReverseTopUpOrder(o)
          \/ \E n \in Nodes :
                \/ LinkRefused(n, o) \/ SuccessNotify(n, o) \/ CompletedUnpaid(n, o) \/ RefundNotify(n, o)
                \/ \E k \in due[o] : FailNotify(n, o, k)
                \/ AdminCompleteTopUp(n, o)
    \/ \E n \in Nodes : SaveFailed(n)

Spec == Init /\ [][Next]_vars

(* A notice that is repeated is handled some time, a handler that has read *)
(* the row saves it.                                                       *)
LiveSpec ==
    /\ Spec
    /\ \A o \in Orders : WF_vars(\E n \in Nodes : SuccessNotify(n, o))
    /\ \A n \in Nodes : WF_vars(SaveFailed(n))

(***************************************************************************)
(* Properties                                                              *)
(***************************************************************************)

Statuses == {"none", "pending", "success", "failed", "expired", "reversed"}
Notices == {"success", "failed", "expired", "interim", "unpaid", "refund"}

TopUpTypeOK ==
    /\ provider \in [Orders -> Providers \cup {None}] /\ status \in [Orders -> Statuses]
    /\ link \in [Orders -> {"none", "asked", "given", "refused"}]
    /\ flows \in [Orders -> SUBSET {"recharge", "reverse"}]
    /\ commission \in [Orders -> {"none", "settled", "failed", "reversed"}]
    /\ prov \in [Orders -> {"none", "open", "paid", "closed", "refunded"}]
    /\ due \in [Orders -> SUBSET Notices]
    /\ failing \in [Nodes -> [order : Orders \cup {None}, to : {"failed", "expired"},
                              locked : BOOLEAN, notice : Notices \cup {"none"}]]

(* Whatever the row says: only what was paid is credited, only what was    *)
(* credited is taken back or earns a commission, and what was taken back   *)
(* leaves none.                                                            *)
BooksAreSound ==
    \A o \in Orders :
        /\ "recharge" \in flows[o] => prov[o] \in {"paid", "refunded"}
        /\ "reverse" \in flows[o] => "recharge" \in flows[o] /\ commission[o] # "settled"
        /\ commission[o] \in {"settled", "reversed"} => "recharge" \in flows[o]

(* The row of an order tells what was booked for it: credited exactly when *)
(* it is successful or reversed, taken back exactly when it is reversed.   *)
OrderTellsBooks ==
    \A o \in Orders :
        /\ "recharge" \in flows[o] <=> status[o] \in {"success", "reversed"}
        /\ "reverse" \in flows[o] <=> status[o] = "reversed"

(* The inviter keeps a commission only of an order that stands.            *)
CommissionFollowsOrder ==
    \A o \in Orders : commission[o] = "settled" => status[o] = "success"

(* An order is failed or expired only if it cannot have been paid for, or  *)
(* the money went back.                                                    *)
FailedWasUnpaid ==
    \A o \in Orders : status[o] \in {"failed", "expired"} => prov[o] \in {"none", "closed", "refunded"}

(* What holds of every order on one node, where LockOrder keeps all        *)
(* handlers of an order apart: rows, flows, commissions and payments tell  *)
(* the same story.                                                         *)
OnOneNode == \A m, n \in DOMAIN failing : m = n
OrdersTellBooks ==
    OnOneNode => OrderTellsBooks /\ CommissionFollowsOrder /\ FailedWasUnpaid

(* A payment is credited, unless it is refunded first.                     *)
PaidIsCredited ==
    \A o \in Orders : prov[o] = "paid" ~> ("recharge" \in flows[o] \/ prov[o] = "refunded")
================================================================================
