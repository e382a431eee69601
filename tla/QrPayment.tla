----------------------------- MODULE QrPayment ------------------------------
(***************************************************************************)
(* Paying a top-up by scanning a code: the dialog in the browser           *)
(* (web/default/src/features/wallet, hooks use-qr-payment-status-polling   *)
(* and use-qr-payment-success-close), the shared GET requests of           *)
(* web/default/src/lib/api.ts, and the order on the server                 *)
(* (controller/topup_wechat_pay.go, wechat_pay_notify.go,                  *)
(* service/topup_completion.go, payment_reverse.go).                       *)
(*                                                                         *)
(* A handler of the browser runs up to its next await in one step, the     *)
(* re-rendering after it included.  A call is one run of refreshStatus; it *)
(* sits in a slot while it waits.  The code numbers its requests and       *)
(* compares a number with that of the latest one: the slot stands for the  *)
(* number.  A transaction of the server is one step.                       *)
(***************************************************************************)
EXTENDS Naturals

CONSTANTS Trades,    \* trade numbers, one per order
          NoTrade,   \* the empty trade number
          Slots,     \* bound on the calls under way
          NoSlot,
          MaxFaults  \* bound on requests that fail

VARIABLES order,       \* top_ups.status, "absent" before there is a row
          credit,      \* history: how often the wallet holds the order's credit
          scan,        \* external: whether the user has the code, and has paid
          confirm,     \* the order handlePaymentConfirm is waiting for
          open,        \* qrDialogOpen
          payment,     \* qrPayment
          status,      \* status the dialog shows
          refreshing,
          closing,     \* closeAfterSuccess: "no", waiting, or ready to close
          session,     \* sessionRef
          inFlight,    \* pollingInFlightRef
          latest,      \* pollingRequestIdRef
          handled,     \* handledTradeNoRef
          call,        \* the calls of refreshStatus under way
          get,         \* inFlightGet of /api/user/self
          shown,       \* orders the balance on the page includes
          toasts,      \* history: success messages per order
          interrupted, \* history: a session ended while its success was handled
          faults

serverVars == <<order, credit>>
pageVars == <<open, payment, status, refreshing, closing>>
refVars == <<session, inFlight, latest, handled>>
historyVars == <<toasts, interrupted>>
vars == <<serverVars, scan, confirm, pageVars, refVars, call, get, shown, historyVars, faults>>

Idle == [stage |-> "idle"]
NoGet == [stage |-> "none"]

initialQrPaymentSession == [id |-> 0, open |-> FALSE, trade |-> NoTrade]

Init ==
    /\ order = [t \in Trades |-> "absent"] /\ credit = [t \in Trades |-> 0]
    /\ scan = [t \in Trades |-> "unseen"]
    /\ confirm = NoTrade
    /\ open = FALSE /\ payment = NoTrade /\ status = "pending"
    /\ refreshing = FALSE /\ closing = "no"
    /\ session = initialQrPaymentSession
    /\ inFlight = FALSE /\ latest = NoSlot /\ handled = NoTrade
    /\ call = [s \in Slots |-> Idle]
    /\ get = [stage |-> "asked"]      \* fetchUser when the page is mounted
    /\ shown = {}
    /\ toasts = [t \in Trades |-> 0] /\ interrupted = FALSE
    /\ faults = 0

NoFault == UNCHANGED faults
Fault == faults < MaxFaults /\ faults' = faults + 1

-----------------------------------------------------------------------------
(* The server.                                                             *)

(* RequestWechatPayPay: the row is inserted, then WeChat asked for a code. *)
RequestWechatPayPay(t) ==
    /\ confirm = t /\ order[t] = "absent"
    /\ \/ order' = [order EXCEPT ![t] = "pending"] /\ NoFault
       \/ order' = [order EXCEPT ![t] = "failed"] /\ Fault
    /\ UNCHANGED <<credit, scan, confirm, pageVars, refVars, call, get, shown, historyVars>>

CompleteTopUpOrder(t) ==
    /\ order[t] \in {"pending", "success"}
    /\ order' = [order EXCEPT ![t] = "success"]
    /\ credit' = IF order[t] = "pending" THEN [credit EXCEPT ![t] = @ + 1] ELSE credit

(* WeChat notifies until it is acknowledged, possibly several times.       *)
WechatPayNotify(t) ==
    /\ scan[t] = "paid"
    /\ CompleteTopUpOrder(t)
    /\ UNCHANGED <<scan, confirm, pageVars, refVars, call, get, shown, historyVars, faults>>

AdminCompleteTopUp(t) ==
    /\ CompleteTopUpOrder(t)
    /\ UNCHANGED <<scan, confirm, pageVars, refVars, call, get, shown, historyVars, faults>>

ReverseTopUpOrder(t) ==
    /\ order[t] = "success"
    /\ order' = [order EXCEPT ![t] = "reversed"]
    /\ credit' = [credit EXCEPT ![t] = @ - 1]
    /\ UNCHANGED <<scan, confirm, pageVars, refVars, call, get, shown, historyVars, faults>>

(* The user pays with the code, which works after the dialog is closed too. *)
Pay(t) ==
    /\ scan[t] = "seen"
    /\ scan' = [scan EXCEPT ![t] = "paid"]
    /\ UNCHANGED <<serverVars, confirm, pageVars, refVars, call, get, shown, historyVars, faults>>

-----------------------------------------------------------------------------
(* Sessions of the dialog.                                                 *)

(* isCurrentQrPaymentSession.  Mutant: any open session will do.           *)
isCurrentQrPaymentSession_Open(c) == session.open /\ c.trade # NoTrade

isCurrentQrPaymentSession(c) ==
    /\ session.open /\ c.trade # NoTrade
    /\ session.id = c.session /\ session.trade = c.trade

Handling(s) == call[s].stage \in {"refresh", "refreshed"}

(* Both ends of a session forget the calls under way.                      *)
NewSession(isOpen, t) ==
    /\ session' = [id |-> session.id + 1, open |-> isOpen, trade |-> t]
    /\ latest' = NoSlot /\ inFlight' = FALSE /\ handled' = NoTrade
    /\ status' = "pending" /\ refreshing' = FALSE
    /\ interrupted' = (interrupted \/ \E s \in Slots : Handling(s) /\ isCurrentQrPaymentSession(call[s]))

activatePayment(t) == NewSession(TRUE, t)
closeSession == NewSession(FALSE, NoTrade)

(* api.get: a GET that is under way is shared.                             *)
JoinGet == get' = IF get = NoGet THEN [stage |-> "asked"] ELSE get

-----------------------------------------------------------------------------
(* The page.                                                               *)

(* handlePaymentConfirm up to its await, once an amount was chosen.  The   *)
(* button is disabled while an order is being made, and both it and the    *)
(* page are covered by the dialog while that is open.                      *)
handlePaymentConfirm(t) ==
    /\ ~open /\ confirm = NoTrade /\ order[t] = "absent"
    /\ confirm' = t
    /\ UNCHANGED <<serverVars, scan, pageVars, refVars, call, get, shown, historyVars, faults>>

(* ... and the rest: the dialog opens with the new order, or there is none. *)
PaymentConfirmed(t) ==
    /\ confirm = t /\ order[t] # "absent"
    /\ confirm' = NoTrade
    /\ \/ /\ order[t] # "failed"
          /\ activatePayment(t)
          /\ payment' = t /\ open' = TRUE
          /\ scan' = [scan EXCEPT ![t] = "seen"]
          /\ NoFault /\ UNCHANGED closing
       \/ /\ \/ order[t] = "failed" /\ NoFault
             \/ Fault                 \* the reply is lost
          /\ UNCHANGED <<scan, pageVars, refVars, interrupted>>
    /\ UNCHANGED <<serverVars, call, get, shown, toasts>>

(* refreshStatus up to its first await waits for the call under way.       *)
MayStart == ~inFlight /\ session.open /\ session.trade = payment /\ payment # NoTrade

StartCall(s, manual) ==
    /\ MayStart
    /\ call[s] = Idle
    /\ call' = [call EXCEPT ![s] = [stage |-> "asked", trade |-> payment,
                                    session |-> session.id, manual |-> manual]]
    /\ latest' = s /\ inFlight' = TRUE /\ refreshing' = TRUE
    /\ UNCHANGED <<serverVars, scan, confirm, open, payment, status, closing,
                   session, handled, get, shown, historyVars, faults>>

(* The interval, which starts with a call and runs while payment pends.    *)
Tick(s) ==
    /\ open /\ payment # NoTrade /\ status = "pending"
    /\ StartCall(s, FALSE)

(* The button of the dialog.                                               *)
refresh(s) ==
    /\ open /\ status # "success" /\ ~refreshing
    /\ StartCall(s, TRUE)

(* getUserTopupStatusByTradeNo at the server, which may fail.              *)
ServerAnswers(s) ==
    LET c == call[s]
    IN  /\ c.stage = "asked"
        /\ \/ /\ call' = [call EXCEPT ![s] = [stage |-> "answered", trade |-> c.trade,
                              session |-> c.session, manual |-> c.manual, status |-> order[c.trade]]]
              /\ NoFault
           \/ /\ call' = [call EXCEPT ![s] = [stage |-> "answered", trade |-> c.trade,
                              session |-> c.session, manual |-> c.manual, status |-> "none"]]
              /\ Fault
        /\ UNCHANGED <<serverVars, scan, confirm, pageVars, refVars, get, shown, historyVars>>

(* The finally block, which must not touch the flags of a later call.      *)
(* Mutant: the flag is not lowered.                                        *)
CallEnds_Stuck(s) ==
    /\ call' = [call EXCEPT ![s] = Idle]
    /\ refreshing' = FALSE
    /\ UNCHANGED <<session, latest, inFlight>>

CallEnds(s) ==
    /\ call' = [call EXCEPT ![s] = Idle]
    /\ IF latest = s
       THEN /\ inFlight' = FALSE
            /\ refreshing' = (refreshing /\ ~isCurrentQrPaymentSession(call[s]))
       ELSE UNCHANGED <<inFlight, refreshing>>
    /\ UNCHANGED <<session, latest>>

(* refreshStatus after the reply: out of date, without a status, with one, *)
(* or with a success, for which handleQrPaymentSuccessOnce refreshes the   *)
(* page first unless that was done already.                                *)
PollReply(s) ==
    LET c == call[s]
    IN  /\ c.stage = "answered"
        /\ \/ /\ ~isCurrentQrPaymentSession(c)
              /\ CallEnds(s)
              /\ UNCHANGED <<status, get>>
           \/ /\ isCurrentQrPaymentSession(c) /\ c.status = "none"
              /\ CallEnds(s)
              /\ IF c.manual THEN JoinGet ELSE UNCHANGED get
              /\ UNCHANGED status
           \/ /\ isCurrentQrPaymentSession(c) /\ c.status # "none"
              /\ c.status # "success" \/ handled = c.trade
              /\ CallEnds(s)
              /\ status' = c.status
              /\ UNCHANGED get
           \/ /\ isCurrentQrPaymentSession(c) /\ c.status = "success" /\ handled # c.trade
              /\ call' = [call EXCEPT ![s] = [stage |-> "refresh", trade |-> c.trade, session |-> c.session]]
              /\ JoinGet
              /\ UNCHANGED <<session, latest, inFlight, refreshing, status>>
        /\ UNCHANGED <<serverVars, scan, confirm, open, payment, closing, handled, shown,
                       historyVars, faults>>

(* getSelf at the server.                                                  *)
SelfAnswers ==
    /\ get.stage = "asked"
    /\ get' = [stage |-> "answered", balance |-> {t \in Trades : credit[t] > 0}]
    /\ UNCHANGED <<serverVars, scan, confirm, pageVars, refVars, call, shown, historyVars, faults>>

(* Its reply goes to everyone who waits for it.                            *)
SelfReply ==
    /\ get.stage = "answered"
    /\ get' = NoGet
    /\ \E ok \in BOOLEAN :
         /\ IF ok THEN NoFault ELSE Fault
         /\ shown' = IF ok THEN get.balance ELSE shown
         /\ call' = [s \in Slots |->
                       IF call[s].stage # "refresh" THEN call[s]
                       ELSE [stage |-> "refreshed", trade |-> call[s].trade,
                             session |-> call[s].session, ok |-> ok]]
    /\ closing' = IF closing = "waiting" THEN "ready" ELSE closing
    /\ UNCHANGED <<serverVars, scan, confirm, open, payment, status, refreshing, refVars, historyVars>>

(* runQrPaymentSuccessRefreshTasks is done, the account included; the rest *)
(* of handleQrPaymentSuccessOnce and of refreshStatus.                     *)
RefreshDone(s) ==
    LET c == call[s]
    IN  /\ c.stage = "refreshed"
        /\ CallEnds(s)
        /\ \/ /\ c.ok
              /\ handled' = c.trade
              /\ toasts' = [toasts EXCEPT ![c.trade] = @ + 1]
              /\ status' = "success"
              /\ NoFault
           \/ /\ IF c.ok THEN Fault ELSE NoFault
              /\ status' = "pending"
              /\ UNCHANGED <<handled, toasts>>
        /\ UNCHANGED <<serverVars, scan, confirm, open, payment, closing, get, shown, interrupted>>

(* The user closes the dialog, or goes to the order history.               *)
handleOpenChange ==
    /\ open
    /\ \/ /\ status = "success" /\ closing = "no"
          /\ closing' = "waiting"
          /\ JoinGet
          /\ UNCHANGED <<open, status, refreshing, refVars, interrupted>>
       \/ /\ status # "success"
          /\ closeSession
          /\ open' = FALSE
          /\ UNCHANGED <<closing, get>>
    /\ UNCHANGED <<serverVars, scan, confirm, payment, call, shown, toasts, faults>>

(* closeAfterSuccess after its await.                                      *)
closeAfterSuccess ==
    /\ closing = "ready"
    /\ closeSession
    /\ open' = FALSE /\ closing' = "no"
    /\ UNCHANGED <<serverVars, scan, confirm, payment, call, get, shown, toasts, faults>>

-----------------------------------------------------------------------------
ServerStep(t) ==
    RequestWechatPayPay(t) \/ WechatPayNotify(t) \/ AdminCompleteTopUp(t) \/ ReverseTopUpOrder(t)

CallStep(s) == ServerAnswers(s) \/ PollReply(s) \/ RefreshDone(s)

Next ==
    \/ \E t \in Trades : ServerStep(t) \/ Pay(t) \/ handlePaymentConfirm(t) \/ PaymentConfirmed(t)
    \/ \E s \in Slots : Tick(s) \/ refresh(s) \/ CallStep(s)
    \/ SelfAnswers \/ SelfReply \/ handleOpenChange \/ closeAfterSuccess

Spec == Init /\ [][Next]_vars

(* The interval fires, requests are answered or fail, and promises settle. *)
LiveSpec ==
    /\ Spec
    /\ WF_vars(\E s \in Slots : Tick(s))
    /\ \A s \in Slots : WF_vars(CallStep(s))
    /\ WF_vars(SelfAnswers) /\ WF_vars(SelfReply) /\ WF_vars(closeAfterSuccess)

-----------------------------------------------------------------------------
OrderStatuses == {"absent", "pending", "success", "failed", "reversed"}

CallRecords ==
    {Idle}
    \cup [stage : {"asked"}, trade : Trades, session : Nat, manual : BOOLEAN]
    \cup [stage : {"answered"}, trade : Trades, session : Nat, manual : BOOLEAN,
          status : {"none"} \cup OrderStatuses]
    \cup [stage : {"refresh"}, trade : Trades, session : Nat]
    \cup [stage : {"refreshed"}, trade : Trades, session : Nat, ok : BOOLEAN]

QrTypeOK ==
    /\ order \in [Trades -> OrderStatuses] /\ credit \in [Trades -> Nat]
    /\ scan \in [Trades -> {"unseen", "seen", "paid"}]
    /\ confirm \in Trades \cup {NoTrade}
    /\ open \in BOOLEAN /\ payment \in Trades \cup {NoTrade}
    /\ status \in {"pending", "success", "reversed"}
    /\ refreshing \in BOOLEAN /\ closing \in {"no", "waiting", "ready"}
    /\ session \in [id : Nat, open : BOOLEAN, trade : Trades \cup {NoTrade}]
    /\ inFlight \in BOOLEAN /\ latest \in Slots \cup {NoSlot}
    /\ handled \in Trades \cup {NoTrade}
    /\ call \in [Slots -> CallRecords]
    /\ get \in {NoGet, [stage |-> "asked"]} \cup [stage : {"answered"}, balance : SUBSET Trades]
    /\ shown \subseteq Trades
    /\ toasts \in [Trades -> Nat] /\ interrupted \in BOOLEAN
    /\ faults \in 0 .. MaxFaults

(* However often WeChat notifies, whoever completes or reverses an order:  *)
(* the wallet holds its credit once while it counts as paid, and else not. *)
CreditedOnce == \A t \in Trades : credit[t] = IF order[t] = "success" THEN 1 ELSE 0

Current(s) == call[s] # Idle /\ isCurrentQrPaymentSession(call[s])

(* There is never more than one call under way for the order on display,   *)
(* and the flag that keeps others from starting is up exactly while there  *)
(* is one: neither a late call of an earlier order can lower it, nor can   *)
(* it stay up and stop the polling.                                        *)
OneCallAtATime ==
    /\ \A s1, s2 \in Slots : Current(s1) /\ Current(s2) => s1 = s2
    /\ inFlight <=> \E s \in Slots : Current(s)
    /\ refreshing = inFlight

(* The dialog never says that the order it shows was paid when it was not. *)
SuccessIsOfThisOrder == open /\ status = "success" => order[payment] \in {"success", "reversed"}

(* The same, as long as no dialog was closed while the page was being      *)
(* refreshed after a success.                                              *)
SuccessIsOfThisOrderUnlessInterrupted == interrupted \/ SuccessIsOfThisOrder

(* Nobody is told twice that an order was paid, with the same proviso.     *)
ToldOnce == interrupted \/ \A t \in Trades : toasts[t] <= 1

(* When the user is told that the balance has been refreshed, the balance  *)
(* on the page includes the order, unless that was reversed.  It does not  *)
(* hold: the refresh may share a request that was sent before the payment. *)
BalanceHasBeenRefreshed ==
    [][\A t \in Trades : toasts'[t] > toasts[t] => t \in shown \/ order[t] = "reversed"]_vars

(* An order that is paid while the dialog shows it is shown as paid in the *)
(* end, unless the user closes the dialog or the order is reversed.        *)
PaidIsShown ==
    \A t \in Trades :
        open /\ payment = t /\ order[t] = "success"
            ~> status = "success" \/ ~open \/ payment # t \/ order[t] = "reversed"
=============================================================================
