----------------------------- MODULE MCProgress -----------------------------
(***************************************************************************)
(* What must happen in the end, for TLC: instances of the components that  *)
(* promise it, under the fairness their loops, timers and peers give.      *)
(* They share no state, so one behaviour exercises one of them: the        *)
(* variable part says which, and only that part has to make progress.      *)
(***************************************************************************)
EXTENDS Integers

CONSTANTS NoOrder, NoTrade, NoSlot, NoWindow

VARIABLES
    part,
    row, upstream, overdue, orphan, phase, todo, seen, job,     \* TaskBilling
    net, tokenNet, taskFaults, hurt,
    provider, rowStatus, link, flows, commission, prov, due, failing,   \* TopUpOrders
    app, charged, tokenCharged, stats, logs, entries, pc, copy, \* RealtimeWallet
    settlementApplied, task, polled, refunded, appFaults,
    order, credit, scan, confirm, open, payment, status, refreshing,    \* QrPayment
    closing, session, inFlight, latest, handled, call, get, shown,
    toasts, interrupted, faults,
    main, server, exitCode, closeDue, serverProcess, onClose, killTimer,    \* Desktop
    attempt, requests, retries, available, crashDialog, startDialog,
    window, mainWindow, tray, isQuitting, asked

(* One node with an old task and one whose channel may disappear.          *)
Task == INSTANCE TaskBilling WITH
    Tasks <- {"video", "qiniu"}, Loops <- {"l1"}, Fetches <- {},
    Platform <- [t \in {"video", "qiniu"} |-> "video"],
    Legacy <- {"qiniu"}, PerCall <- {"video"}, Qiniu <- {"qiniu"}, Deletable <- {"video"},
    Estimate <- [t \in {"video", "qiniu"} |-> IF t = "qiniu" THEN 1 ELSE 2],
    Price <- [t \in {"video", "qiniu"} |-> 2],
    Sweeping <- TRUE, Finals <- {3}, MaxFaults <- 1, faults <- taskFaults

(* The providers that repeat a notice which was not handled.               *)
TopUp == INSTANCE TopUpOrders WITH
    Orders <- {"o1"}, Nodes <- {"n1"},
    Providers <- {"alipay", "wechat", "waffo", "pancake", "creem"},
    AdminChecks <- TRUE, Interim <- FALSE, Faults <- TRUE, None <- NoOrder, status <- rowStatus

(* Two master nodes scan while the request works on its row; one fault.    *)
Realtime == INSTANCE RealtimeWallet WITH
    Online <- "online", Repairers <- {"r1", "r2"}, Pre <- 2, Actual <- 3, IsTask <- FALSE,
    LogConsumeEnabled <- TRUE, Overlap <- TRUE, SettleFaults <- {"funding", "token"},
    MaxFaults <- 1, flows <- entries, faults <- appFaults

(* Two orders and one call at a time; a request may fail.                  *)
Qr == INSTANCE QrPayment WITH
    Trades <- {"o1", "o2"}, Slots <- {"c1"}, MaxFaults <- 1

(* Windows and Linux.                                                      *)
Shell == INSTANCE Desktop WITH
    Windows <- {"w1", "w2"}, MaxRetries <- 3, Mac <- FALSE, app <- main

taskVars == <<row, upstream, overdue, orphan, phase, todo, seen, job, net, tokenNet, taskFaults, hurt>>
orderVars == <<provider, rowStatus, link, flows, commission, prov, due, failing>>
appVars == <<app, charged, tokenCharged, stats, logs, entries, pc, copy,
             settlementApplied, task, polled, refunded, appFaults>>
qrVars == <<order, credit, scan, confirm, open, payment, status, refreshing, closing, session,
            inFlight, latest, handled, call, get, shown, toasts, interrupted, faults>>
shellVars == <<main, server, exitCode, closeDue, serverProcess, onClose, killTimer,
               attempt, requests, retries, available, crashDialog, startDialog,
               window, mainWindow, tray, isQuitting, asked>>

ProgressInit ==
    /\ part \in {"tasks", "top-up", "application", "payment code", "desktop"}
    /\ Task!Init /\ TopUp!Init /\ Realtime!Init /\ Qr!Init /\ Shell!Init

ProgressNext ==
    /\ UNCHANGED part
    /\ \/ part = "tasks" /\ Task!Next /\ UNCHANGED <<orderVars, appVars, qrVars, shellVars>>
       \/ part = "top-up" /\ TopUp!Next /\ UNCHANGED <<taskVars, appVars, qrVars, shellVars>>
       \/ part = "application" /\ Realtime!Next /\ UNCHANGED <<taskVars, orderVars, qrVars, shellVars>>
       \/ part = "payment code" /\ Qr!Next /\ UNCHANGED <<taskVars, orderVars, appVars, shellVars>>
       \/ part = "desktop" /\ Shell!Next /\ UNCHANGED <<taskVars, orderVars, appVars, qrVars>>

(* The polling loop never blocks for good, and time passes.                *)
TasksFair ==
    /\ WF_taskVars(part = "tasks" /\ Task!LoopStep("l1"))
    /\ \A t \in {"video", "qiniu"} : WF_taskVars(part = "tasks" /\ Task!TimesOut(t))

(* A notice that is repeated is handled some time, a handler that has read *)
(* the row saves it.                                                       *)
TopUpFair ==
    /\ WF_orderVars(part = "top-up" /\ TopUp!SuccessNotify("n1", "o1"))
    /\ WF_orderVars(part = "top-up" /\ TopUp!SaveFailed("n1"))

(* A goroutine runs on until it ends, and the ticker of the scan never     *)
(* stops.                                                                  *)
ApplicationFair ==
    /\ WF_appVars(part = "application" /\ Realtime!OnlineStep)
    /\ \A r \in {"r1", "r2"} : WF_appVars(part = "application" /\ Realtime!RepairStep(r))

(* The interval fires, requests are answered or fail, and promises settle. *)
QrFair ==
    /\ WF_qrVars(part = "payment code" /\ Qr!Tick("c1"))
    /\ WF_qrVars(part = "payment code" /\ Qr!CallStep("c1"))
    /\ WF_qrVars(part = "payment code" /\ Qr!SelfAnswers)
    /\ WF_qrVars(part = "payment code" /\ Qr!SelfReply)
    /\ WF_qrVars(part = "payment code" /\ Qr!closeAfterSuccess)

(* Callbacks run, requests end, timers fire, and dialogs are answered in   *)
(* the end; the server need not exit by itself, nor the user do anything   *)
(* else.                                                                   *)
DesktopFair ==
    /\ WF_shellVars(part = "desktop" /\ Shell!startServer)
    /\ WF_shellVars(part = "desktop" /\ Shell!RequestEnds)
    /\ WF_shellVars(part = "desktop" /\ Shell!tryConnect)
    /\ WF_shellVars(part = "desktop" /\ Shell!Started)
    /\ WF_shellVars(part = "desktop" /\ Shell!StartFailed)
    /\ WF_shellVars(part = "desktop" /\ Shell!KillTimerFires)
    /\ WF_shellVars(part = "desktop" /\ Shell!ServerCloses)
    /\ WF_shellVars(part = "desktop" /\ Shell!CrashDialogAnswered)
    /\ WF_shellVars(part = "desktop" /\ Shell!StartDialogAnswered)

ProgressSpec ==
    /\ ProgressInit
    /\ [][ProgressNext]_<<part, taskVars, orderVars, appVars, qrVars, shellVars>>
    /\ TasksFair /\ TopUpFair /\ ApplicationFair /\ QrFair /\ DesktopFair

(* Every task comes to an end, whatever upstream answers and although its  *)
(* channel may be deleted (sweepTimedOutTasks); and every application row  *)
(* is applied in the end, by the request or by a repair scan               *)
(* (RepairQiniuRealtimeApplications).                                      *)
MeteringConcludes ==
    /\ part = "tasks" => Task!TaskEnds
    /\ part = "application" => Realtime!EventuallyApplied

(* A payment whose provider repeats its notice is credited in the end, or  *)
(* refunded, whatever fails on the way (CompleteTopUpOrder).               *)
PaidIsCredited == TopUp!PaidIsCredited

(* useQrPaymentStatus: an order paid while its dialog is open is shown as  *)
(* paid in the end, unless the dialog is closed or the order reversed.     *)
PaidIsShown == Qr!PaidIsShown

(* The start of the desktop app comes to an end, with a window or with a   *)
(* dialog; who asks the app to quit gets that, although the server may     *)
(* hang or have died before (before-quit); and a server that crashes takes *)
(* the app with it, once the dialog has been answered.                     *)
DesktopEnds == Shell!StartEnds /\ Shell!QuitQuits /\ Shell!CrashEnds
=============================================================================
