------------------------------ MODULE MCClient ------------------------------
(***************************************************************************)
(* The clients for TLC: the withdrawal form, which is extended, and the    *)
(* dialog of a payment code, the playground, the settings form of the      *)
(* administrators and the desktop shell, which are instances.              *)
(* They share no state, so one behaviour exercises one of them: the        *)
(* variable part says which.                                               *)
(***************************************************************************)
EXTENDS WithdrawForm, TLC

CONSTANTS Streams,      \* requests of the playground, interchangeable
          NoStream, NoKey, MaxReloads,
          Trades, NoTrade, Slots, NoSlot, MaxFaults,    \* of the payment codes
          Windows, NoWindow, MaxRetries, Mac,       \* of the desktop shell
          Fields, Values, Initial, MaxOthers, NoField   \* of the settings form

ASSUME ClientAssumption ==
    /\ NoTrade \notin Trades /\ NoSlot \notin Slots /\ MaxFaults \in Nat
    /\ NoStream \notin Streams /\ "typed" \notin Streams /\ "error" \notin Streams
    /\ MaxReloads \in Nat

VARIABLES
    part,
    messages, editing, source, complete, sse, ended, overlapped, reloads,   \* Playground
    order, credit, scan, confirm, dialog, payment, status, refreshing,      \* QrPayment
    closing, session, inFlight, current, handled, call, get, shown,
    toasts, interrupted, faults,
    app, server, exitCode, closeDue, serverProcess, onClose, killTimer,     \* Desktop
    attempt, requests, retries, ready, crashDialog, startDialog,
    window, mainWindow, tray, isQuitting, asked,
    options, had, others, fetch, defaults, values, baseline,    \* SettingsForm
    typed, saving, data, fields, put

Chat == INSTANCE Playground

Qr == INSTANCE QrPayment WITH open <- dialog, latest <- current

Shell == INSTANCE Desktop WITH available <- ready

(* Writes and fetches may fail; the server refuses no write.               *)
Settings == INSTANCE SettingsForm WITH
    Refusals <- FALSE, Faults <- TRUE, None <- NoField,
    server <- options, get <- fetch, todo <- fields

chatVars == <<messages, editing, source, complete, sse, ended, overlapped, reloads>>
qrVars == <<order, credit, scan, confirm, dialog, payment, status, refreshing, closing, session,
            inFlight, current, handled, call, get, shown, toasts, interrupted, faults>>
shellVars == <<app, server, exitCode, closeDue, serverProcess, onClose, killTimer,
               attempt, requests, retries, ready, crashDialog, startDialog,
               window, mainWindow, tray, isQuitting, asked>>
settingsVars == <<options, had, others, fetch, defaults, values, baseline,
                  typed, saving, data, fields, put>>

ClientInit ==
    /\ part \in {"withdrawal", "playground", "payment code", "desktop", "settings"}
    /\ Init /\ Chat!Init /\ Qr!Init /\ Shell!Init /\ Settings!Init

ClientNext ==
    /\ UNCHANGED part
    /\ \/ part = "withdrawal" /\ Next /\ UNCHANGED <<chatVars, qrVars, shellVars, settingsVars>>
       \/ part = "playground" /\ Chat!Next /\ UNCHANGED <<vars, qrVars, shellVars, settingsVars>>
       \/ part = "payment code" /\ Qr!Next /\ UNCHANGED <<vars, chatVars, shellVars, settingsVars>>
       \/ part = "desktop" /\ Shell!Next /\ UNCHANGED <<vars, chatVars, qrVars, settingsVars>>
       \/ part = "settings" /\ Settings!Next /\ UNCHANGED <<vars, chatVars, qrVars, shellVars>>

ClientSpec ==
    ClientInit /\ [][ClientNext]_<<part, vars, chatVars, qrVars, shellVars, settingsVars>>

(* The properties of the playground make no claim once requests overlap.   *)
NotOverlapped == ~overlapped

Symmetry == Permutations(Streams)

(* The playground, with messages and references of their types, as long as *)
(* no request is sent while one is generating:                             *)
(*   every open stream is the one the stop button ends (useStreamRequest); *)
(*   an answer holds text of its own request only, whatever was stopped,   *)
(*     regenerated, edited or deleted before (updateAssistantMessage);     *)
(*   an answer that looks unfinished is the last message and can be ended, *)
(*     also after a reload (loadMessages);                                 *)
(*   how an answer is shown is how its request ended (handleStreamError,   *)
(*     handleStreamComplete).                                              *)
AnswersAreTrue ==
    /\ Chat!PlaygroundTypeOK /\ Chat!OpenStreamIsHeldUnlessOverlapped
    /\ Chat!OwnText /\ Chat!NothingIsStuck /\ Chat!EndIsTold

(* The dialog of a payment code, with calls, flags and orders of their     *)
(* types:                                                                  *)
(*   however often WeChat notifies, whoever completes or reverses an       *)
(*     order, the wallet holds its credit once while it counts as paid,    *)
(*     and else not (WechatPayNotify, CompleteTopUpOrder);                 *)
(*   one call at a time is under way for the order on display, and the     *)
(*     flag that keeps others out is up exactly then (useQrPaymentStatus); *)
(*   the dialog says paid only of an order that is, and nobody is told     *)
(*     twice that it was (handledTradeNoRef), as long as no dialog was     *)
(*     closed while the page was being refreshed after a success.          *)
QrDialogIsTrue ==
    /\ Qr!QrTypeOK /\ Qr!CreditedOnce /\ Qr!OneCallAtATime
    /\ Qr!SuccessIsOfThisOrderUnlessInterrupted /\ Qr!ToldOnce

(* main.js, whose variables keep their types: the server never outlives    *)
(* the app, however that came to its end: from the tray, a dialog, during  *)
(* the start or after a crash (before-quit).                               *)
NoOrphan == Shell!DesktopTypeOK /\ Shell!NoOrphan

(* useSettingsForm: a save writes only what the administrator edited, so   *)
(* it does not take back what somebody else changed meanwhile; and what    *)
(* the form takes for saved, and resets to, the server has had.            *)
SavesOnlyEdits == Settings!OnlyEditsAreSaved /\ Settings!BaselineWasSaved
=============================================================================
