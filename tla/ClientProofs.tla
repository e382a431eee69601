------------------------------ MODULE ClientProofs ------------------------------
(***************************************************************************)
(* The clients, for any number of requests, orders, messages and windows:  *)
(* the withdrawal form shows and sends what it should, the desktop shell   *)
(* leaves no server behind, the settings form writes only edits, the       *)
(* dialog of a payment code and the answers of the playground are true.    *)
(***************************************************************************)
EXTENDS MCClient, Sequences, SequenceTheorems, WellFoundedInduction, TLAPS

Estimates == TrialIsOfThisAmount /\ LoadingHasAnEnd /\ LatestIsOfThisAmount

(* A reset leaves no estimate on display and none that may still come.     *)
LEMMA ResetClears ==
    ASSUME clearWithdrawTaxTrial PROVE Estimates'
BY DEF clearWithdrawTaxTrial, Estimates, TrialIsOfThisAmount, LoadingHasAnEnd,
       LatestIsOfThisAmount

(* What leaves the dialog and its estimates alone preserves them.          *)
LEMMA EstimatesUntouched ==
    ASSUME Estimates, UNCHANGED <<open, amount, trialVars>> PROVE Estimates'
BY DEF Estimates, TrialIsOfThisAmount, LoadingHasAnEnd, LatestIsOfThisAmount, trialVars

LEMMA SubmitUntouched ==
    ASSUME OneWithdrawalAtATime, UNCHANGED submitVars PROVE OneWithdrawalAtATime'
BY DEF OneWithdrawalAtATime, submitVars

LEMMA DraftIsAnAmount ==
    ASSUME NEW min \in Mins \cup {0} PROVE Draft(min) \in Amounts
BY WithdrawFormAssumption DEF Draft

LEMMA LoadKeepsTypes ==
    ASSUME WithdrawFormTypeOK, AccountLoads
    PROVE  /\ amount' \in Amounts /\ minAmount' \in Mins \cup {0} /\ available' \in Amounts
           /\ eligibility' \in {"none", "blocked", "waiting", "ok"}
           /\ taxTrial' \in Amounts \cup {None} /\ taxTrialLoading' \in BOOLEAN
           /\ latest' \in Trials \cup {None} /\ trial' \in [Trials -> Amounts \cup {None}]
<1>1. minAmount' \in Mins \cup {0} /\ available' \in Amounts
  BY DEF WithdrawFormTypeOK, AccountLoads
<1>2. eligibility' \in {"none", "blocked", "waiting", "ok"}
  BY DEF AccountLoads
<1>3. CASE open /\ minAmount' # minAmount
  BY <1>1, <1>2, <1>3, DraftIsAnAmount
     DEF AccountLoads, clearWithdrawTaxTrial, WithdrawFormTypeOK
<1>4. CASE ~(open /\ minAmount' # minAmount)
  BY <1>1, <1>2, <1>4 DEF AccountLoads, WithdrawFormTypeOK, trialVars
<1> QED BY <1>3, <1>4

LEMMA LoadKeepsEstimates ==
    ASSUME Estimates, AccountLoads, open' = open PROVE Estimates'
<1>1. CASE open /\ minAmount' # minAmount
  BY <1>1, ResetClears DEF AccountLoads
<1>2. CASE ~(open /\ minAmount' # minAmount)
  BY <1>2, EstimatesUntouched DEF AccountLoads
<1> QED BY <1>1, <1>2

LEMMA InitEstablishes == Init => WithdrawFormInv
BY WithdrawFormAssumption
   DEF Init, WithdrawFormInv, WithdrawFormTypeOK, TrialIsOfThisAmount, LoadingHasAnEnd,
       LatestIsOfThisAmount, OneWithdrawalAtATime

(* Each step keeps the types.                                              *)
LEMMA TypesKept ==
    ASSUME WithdrawFormTypeOK, [Next]_vars PROVE WithdrawFormTypeOK'
<1> USE WithdrawFormAssumption DEF WithdrawFormTypeOK
<1>1. CASE Open
  BY <1>1, DraftIsAnAmount DEF Open, clearWithdrawTaxTrial, accountVars, submitVars
<1>2. CASE Close
  BY <1>2 DEF Close, clearWithdrawTaxTrial, accountVars, submitVars
<1>3. CASE Reload
  BY <1>3, LoadKeepsTypes DEF Reload, submitVars
<1>4. ASSUME NEW a \in Amounts, SetAmount(a) PROVE WithdrawFormTypeOK'
  BY <1>4 DEF SetAmount, clearWithdrawTaxTrial, accountVars, submitVars
<1>5. ASSUME NEW t \in Trials, trialWithdrawTax(t) PROVE WithdrawFormTypeOK'
  BY <1>5 DEF trialWithdrawTax, dialogVars, accountVars, submitVars
<1>6. ASSUME NEW t \in Trials, NEW ok \in BOOLEAN, TrialReplies(t, ok)
      PROVE  WithdrawFormTypeOK'
  <2>1. /\ taxTrial' \in Amounts \cup {None} /\ taxTrialLoading' \in BOOLEAN
        /\ latest' \in Trials \cup {None} /\ trial' \in [Trials -> Amounts \cup {None}]
    BY <1>6 DEF TrialReplies
  <2> QED BY <1>6, <2>1 DEF TrialReplies, dialogVars, accountVars, submitVars
<1>7. ASSUME NEW s \in Submissions, handleSubmit(s) PROVE WithdrawFormTypeOK'
  BY <1>7 DEF handleSubmit, trialVars, dialogVars, accountVars
<1>8. ASSUME NEW s \in Submissions, NEW ok \in BOOLEAN, SubmitReplies(s, ok)
      PROVE  WithdrawFormTypeOK'
  BY <1>8 DEF SubmitReplies, trialVars, dialogVars, accountVars
<1>9. ASSUME NEW s \in Submissions, SubmitLoads(s) PROVE WithdrawFormTypeOK'
  BY <1>9, LoadKeepsTypes DEF SubmitLoads
<1>10. ASSUME NEW s \in Submissions, Refresh(s) PROVE WithdrawFormTypeOK'
  BY <1>10, LoadKeepsTypes DEF Refresh, submitVars
<1>11. ASSUME NEW s \in Submissions, RefreshEnds(s) PROVE WithdrawFormTypeOK'
  BY <1>11 DEF RefreshEnds, clearWithdrawTaxTrial, trialVars, accountVars
<1>12. CASE UNCHANGED vars
  BY <1>12 DEF vars, trialVars, dialogVars, accountVars, submitVars
<1> QED
  BY <1>1, <1>2, <1>3, <1>4, <1>5, <1>6, <1>7, <1>8, <1>9, <1>10, <1>11, <1>12 DEF Next

(* Each step keeps the estimates right: whatever changes the amount or the *)
(* dialog resets them, and an answer counts only while the ref names it.   *)
LEMMA EstimatesKept ==
    ASSUME WithdrawFormTypeOK, Estimates, [Next]_vars PROVE Estimates'
<1>1. CASE Open \/ Close \/ \E a \in Amounts : SetAmount(a)
  BY <1>1, ResetClears DEF Open, Close, SetAmount
<1>2. CASE Reload
  BY <1>2, LoadKeepsEstimates DEF Reload
<1>3. ASSUME NEW t \in Trials, trialWithdrawTax(t) PROVE Estimates'
  <2>1. trial'[t] = amount /\ latest' = t /\ open' /\ amount' = amount
    BY <1>3 DEF trialWithdrawTax, canRequestWithdrawTaxTrial, WithdrawFormTypeOK, dialogVars
  <2>2. t # None /\ amount # None
    BY WithdrawFormAssumption DEF WithdrawFormTypeOK
  <2>3. taxTrial' = taxTrial /\ open
    BY <1>3 DEF trialWithdrawTax, canRequestWithdrawTaxTrial
  <2> QED BY <2>1, <2>2, <2>3
          DEF Estimates, TrialIsOfThisAmount, LoadingHasAnEnd, LatestIsOfThisAmount
<1>4. ASSUME NEW t \in Trials, NEW ok \in BOOLEAN, TrialReplies(t, ok) PROVE Estimates'
  <2>1. open' = open /\ amount' = amount /\ latest' = latest
    BY <1>4 DEF TrialReplies, dialogVars
  <2>2. trial' = [trial EXCEPT ![t] = None] /\ trial[t] # None
    BY <1>4 DEF TrialReplies
  <2>3. CASE latest = t
    <3>1. taxTrial' \in {trial[t], None} /\ ~taxTrialLoading'
      BY <1>4, <2>3 DEF TrialReplies
    <3>2. t # None
      BY WithdrawFormAssumption
    <3>3. open /\ trial[t] = amount
      BY <2>2, <2>3, <3>2 DEF Estimates, LatestIsOfThisAmount
    <3>4. trial'[latest'] = None
      BY <2>1, <2>2, <2>3 DEF WithdrawFormTypeOK
    <3> QED BY <2>1, <3>1, <3>3, <3>4
            DEF Estimates, TrialIsOfThisAmount, LoadingHasAnEnd, LatestIsOfThisAmount
  <2>4. CASE latest # t
    <3>1. taxTrial' = taxTrial /\ taxTrialLoading' = taxTrialLoading
      BY <1>4, <2>4 DEF TrialReplies
    <3>2. latest # None => trial'[latest] = trial[latest]
      BY <2>2, <2>4 DEF WithdrawFormTypeOK
    <3> QED BY <2>1, <3>1, <3>2
            DEF Estimates, TrialIsOfThisAmount, LoadingHasAnEnd, LatestIsOfThisAmount
  <2> QED BY <2>3, <2>4
<1>5. ASSUME NEW s \in Submissions, handleSubmit(s) PROVE Estimates'
  BY <1>5, EstimatesUntouched DEF handleSubmit, dialogVars
<1>6. ASSUME NEW s \in Submissions, NEW ok \in BOOLEAN, SubmitReplies(s, ok)
      PROVE  Estimates'
  BY <1>6, EstimatesUntouched DEF SubmitReplies, dialogVars
<1>7. ASSUME NEW s \in Submissions, SubmitLoads(s) \/ Refresh(s) PROVE Estimates'
  BY <1>7, LoadKeepsEstimates DEF SubmitLoads, Refresh
<1>8. ASSUME NEW s \in Submissions, RefreshEnds(s) PROVE Estimates'
  BY <1>8, ResetClears, EstimatesUntouched DEF RefreshEnds
<1>9. CASE UNCHANGED vars
  BY <1>9, EstimatesUntouched DEF vars, dialogVars
<1> QED BY <1>1, <1>2, <1>3, <1>4, <1>5, <1>6, <1>7, <1>8, <1>9 DEF Next

(* Each step keeps the submissions apart.                                  *)
LEMMA SubmissionsKept ==
    ASSUME WithdrawFormTypeOK, OneWithdrawalAtATime, [Next]_vars
    PROVE  OneWithdrawalAtATime'
<1>1. CASE Open \/ Close \/ Reload \/ \E a \in Amounts : SetAmount(a)
  BY <1>1, SubmitUntouched DEF Open, Close, Reload, SetAmount
<1>2. ASSUME NEW t \in Trials, trialWithdrawTax(t) PROVE OneWithdrawalAtATime'
  BY <1>2, SubmitUntouched DEF trialWithdrawTax
<1>3. ASSUME NEW t \in Trials, NEW ok \in BOOLEAN, TrialReplies(t, ok)
      PROVE  OneWithdrawalAtATime'
  BY <1>3, SubmitUntouched DEF TrialReplies
<1>4. ASSUME NEW s \in Submissions, handleSubmit(s) PROVE OneWithdrawalAtATime'
  BY <1>4 DEF handleSubmit, OneWithdrawalAtATime, WithdrawFormTypeOK
<1>5. ASSUME NEW s \in Submissions, NEW ok \in BOOLEAN, SubmitReplies(s, ok)
      PROVE  OneWithdrawalAtATime'
  BY <1>5 DEF SubmitReplies, OneWithdrawalAtATime, WithdrawFormTypeOK
<1>6. ASSUME NEW s \in Submissions, SubmitLoads(s) PROVE OneWithdrawalAtATime'
  BY <1>6 DEF SubmitLoads, OneWithdrawalAtATime, WithdrawFormTypeOK
<1>7. ASSUME NEW s \in Submissions, Refresh(s) PROVE OneWithdrawalAtATime'
  BY <1>7, SubmitUntouched DEF Refresh
<1>8. ASSUME NEW s \in Submissions, RefreshEnds(s) PROVE OneWithdrawalAtATime'
  BY <1>8 DEF RefreshEnds, OneWithdrawalAtATime, WithdrawFormTypeOK
<1>9. CASE UNCHANGED vars
  BY <1>9, SubmitUntouched DEF vars
<1> QED BY <1>1, <1>2, <1>3, <1>4, <1>5, <1>6, <1>7, <1>8, <1>9 DEF Next

(* The inductive invariant holds in every state of the form.               *)
THEOREM WithdrawFormInvariant == Spec => []WithdrawFormInv
<1>1. WithdrawFormInv /\ [Next]_vars => WithdrawFormInv'
  BY TypesKept, EstimatesKept, SubmissionsKept DEF WithdrawFormInv, Estimates
<1> QED BY InitEstablishes, <1>1, PTL DEF Spec

(* An estimate on display, and one still loading, is of the amount in the  *)
(* field: the numbering in useWalletAccount and the resets of the dialog   *)
(* together keep every outdated answer from the screen.  Two withdrawals   *)
(* of a form are never on the way together.                                *)
THEOREM FormStaysCoherent == Spec => []FormIsCoherent
<1>1. WithdrawFormInv => FormIsCoherent
  BY DEF WithdrawFormInv, FormIsCoherent
<1> QED BY WithdrawFormInvariant, <1>1, PTL

(***************************************************************************)
(* The desktop shell                                                       *)
(***************************************************************************)

(* A server that runs is held by the variable through which before-quit    *)
(* stops it, and has not been reported closed.                             *)
ServerIsHeld == Shell!Running => serverProcess /\ ~closeDue

(* No server outlives the app, and none runs before the start.             *)
ShellInv ==
    /\ Shell!DesktopTypeOK /\ Shell!NoOrphan /\ ServerIsHeld
    /\ app = "launch" => server = "none" /\ ~closeDue

LEMMA ShellStarts == Shell!Init => ShellInv
<1> SUFFICES ASSUME Shell!Init PROVE ShellInv
  OBVIOUS
<1>1. window \in [Windows -> {"none", "shown", "hidden"}] /\ mainWindow = NoWindow
  BY DEF Shell!Init
<1>2. {closeDue, serverProcess, onClose, killTimer, tray, isQuitting, asked} \subseteq BOOLEAN
  BY DEF Shell!Init
<1>3. Shell!DesktopTypeOK
  BY <1>1, <1>2 DEF Shell!Init, Shell!DesktopTypeOK
<1>4. ~Shell!Running /\ app = "launch" /\ server = "none" /\ ~closeDue
  BY DEF Shell!Init, Shell!Running
<1> QED BY <1>3, <1>4 DEF ShellInv, Shell!NoOrphan, ServerIsHeld

(* The windows keep their types whatever is done with them.                *)
WindowsOK ==
    /\ window \in [Windows -> {"none", "shown", "hidden"}]
    /\ mainWindow \in {NoWindow} \cup {w \in Windows : window[w] # "none"}

LEMMA WindowIsMade ==
    ASSUME WindowsOK, Shell!createWindow PROVE WindowsOK'
BY DEF WindowsOK, Shell!createWindow

LEMMA WindowIsHidden ==
    ASSUME WindowsOK, UNCHANGED mainWindow, NEW how \in {"shown", "hidden"},
           window' = [window EXCEPT ![mainWindow] = how]
    PROVE  WindowsOK'
BY DEF WindowsOK

LEMMA WindowIsClosed ==
    ASSUME WindowsOK, NEW w, Shell!closeWindow(w) PROVE WindowsOK'
<1>1. CASE isQuitting
  BY <1>1 DEF Shell!closeWindow, WindowsOK
<1>2. CASE ~isQuitting
  BY <1>2, WindowIsHidden DEF Shell!closeWindow
<1> QED BY <1>1, <1>2

LEMMA ExitClosesWindows ==
    ASSUME Shell!exit PROVE WindowsOK' /\ app' = "exited"
BY DEF Shell!exit, WindowsOK

LEMMA WindowsUntouched ==
    ASSUME WindowsOK, UNCHANGED <<window, mainWindow>> PROVE WindowsOK'
BY DEF WindowsOK

(* app.quit ends the app only when there is no server to stop.             *)
LEMMA QuitWaits ==
    ASSUME ShellInv, NEW quitting \in BOOLEAN, Shell!quit(quitting),
           UNCHANGED <<server, exitCode, closeDue, serverProcess, attempt, requests, retries,
                       ready, tray>>,
           {crashDialog', startDialog'} \subseteq {"none", "asking", "logged"}
    PROVE  ShellInv'
<1>1. WindowsOK BY DEF ShellInv, Shell!DesktopTypeOK, WindowsOK
<1>2. CASE serverProcess
  <2>1. WindowsOK' BY <1>1, <1>2, WindowsUntouched DEF Shell!quit
  <2> QED BY <1>2, <2>1
          DEF Shell!quit, ShellInv, Shell!DesktopTypeOK, Shell!NoOrphan, ServerIsHeld,
              Shell!Running, WindowsOK
<1>3. CASE ~serverProcess /\ (quitting \/ mainWindow = NoWindow)
  <2>1. WindowsOK' /\ app' = "exited" BY <1>3, ExitClosesWindows DEF Shell!quit
  <2> QED BY <1>3, <2>1
          DEF Shell!quit, ShellInv, Shell!DesktopTypeOK, Shell!NoOrphan, ServerIsHeld,
              Shell!Running, WindowsOK
<1>4. CASE ~serverProcess /\ ~(quitting \/ mainWindow = NoWindow)
  <2>1. WindowsOK' BY <1>1, <1>4, WindowIsHidden DEF Shell!quit
  <2> QED BY <1>4, <2>1
          DEF Shell!quit, ShellInv, Shell!DesktopTypeOK, Shell!NoOrphan, ServerIsHeld,
              Shell!Running, WindowsOK
<1> QED BY <1>2, <1>3, <1>4

(* The requests of checkServerAvailability concern neither server nor      *)
(* windows.                                                                *)
LEMMA ChecksKeep ==
    ASSUME ShellInv, Shell!RequestEnds \/ Shell!tryConnect PROVE ShellInv'
<1>1. /\ UNCHANGED <<app, server, exitCode, closeDue, serverProcess, onClose, killTimer,
                     isQuitting, asked, crashDialog, startDialog, window, mainWindow, tray>>
      /\ attempt' \in Nat /\ requests' \in Nat /\ retries' \in Nat
      /\ ready' \in {"no", "yes", "failed"}
  <2>1. CASE Shell!tryConnect
    BY <2>1 DEF Shell!tryConnect, ShellInv, Shell!DesktopTypeOK, Shell!childVars,
                Shell!quitVars, Shell!dialogVars, Shell!windowVars
  <2>2. CASE Shell!RequestEnds
    <3>1. /\ requests' \in Nat /\ attempt' \in Nat
          /\ UNCHANGED <<app, server, exitCode, closeDue, serverProcess, onClose, killTimer,
                         isQuitting, asked, crashDialog, startDialog, window, mainWindow, tray>>
      BY <2>2 DEF Shell!RequestEnds, ShellInv, Shell!DesktopTypeOK, Shell!childVars,
                  Shell!quitVars, Shell!dialogVars, Shell!windowVars
    <3>2. retries' \in Nat /\ ready' \in {"no", "yes", "failed"}
      BY <2>2 DEF Shell!RequestEnds, Shell!RetryOrReject, Shell!Settle, ShellInv,
                  Shell!DesktopTypeOK
    <3> QED BY <3>1, <3>2
  <2> QED BY <2>1, <2>2
<1> QED BY <1>1 DEF ShellInv, Shell!DesktopTypeOK, Shell!NoOrphan, ServerIsHeld, Shell!Running

(* What only the windows are asked to do leaves the server alone.          *)
LEMMA WindowStepsKeep ==
    ASSUME ShellInv,
           \/ Shell!Started \/ Shell!TrayClick \/ Shell!activate
           \/ \E w \in Windows : Shell!UserCloses(w)
    PROVE  ShellInv'
<1>1. WindowsOK BY DEF ShellInv, Shell!DesktopTypeOK, WindowsOK
<1>2. WindowsOK'
  <2>1. CASE Shell!Started \/ Shell!activate
    BY <1>1, <2>1, WindowIsMade DEF Shell!Started, Shell!activate
  <2>2. CASE Shell!TrayClick
    <3>1. CASE mainWindow = NoWindow
      BY <1>1, <2>2, <3>1, WindowIsMade DEF Shell!TrayClick
    <3>2. CASE mainWindow # NoWindow
      BY <1>1, <2>2, <3>2, WindowIsHidden DEF Shell!TrayClick
    <3> QED BY <3>1, <3>2
  <2>3. ASSUME NEW w \in Windows, Shell!UserCloses(w) PROVE WindowsOK'
    BY <1>1, <2>3, WindowIsClosed DEF Shell!UserCloses
  <2> QED BY <2>1, <2>2, <2>3
<1>3. /\ UNCHANGED <<server, exitCode, closeDue, serverProcess, onClose, killTimer, isQuitting,
                     asked, attempt, requests, retries, ready, crashDialog, startDialog>>
      /\ tray' \in {tray, TRUE} /\ app' \in {app, "running"}
      /\ app' # "exited" /\ app # "exited"
      /\ app' = "launch" => app = "launch"
  BY DEF Shell!Started, Shell!TrayClick, Shell!activate, Shell!UserCloses, Shell!Alive,
         Shell!childVars, Shell!quitVars, Shell!checkVars, Shell!dialogVars
<1> QED BY <1>2, <1>3 DEF ShellInv, Shell!DesktopTypeOK, Shell!NoOrphan, ServerIsHeld,
                          Shell!Running, WindowsOK

(* Every step of the shell.                                                *)
LEMMA ShellKeeps ==
    ASSUME ShellInv, [Shell!Next]_shellVars PROVE ShellInv'
<1> USE DEF ShellInv, Shell!DesktopTypeOK, Shell!NoOrphan, ServerIsHeld, Shell!Running
<1>w. WindowsOK BY DEF WindowsOK
<1>1. CASE Shell!startServer
  <2>0. server = "none" /\ ~closeDue /\ app' = "starting"
    BY <1>1 DEF Shell!startServer
  <2>1. /\ server' \in {"none", "booting", "exited"} /\ exitCode' \in {"none", "zero", "nonzero"}
        /\ closeDue' \in BOOLEAN /\ serverProcess' \in BOOLEAN
        /\ server' = "booting" => serverProcess' /\ ~closeDue'
        /\ attempt' \in Nat /\ requests' \in Nat /\ ready' \in {"no", "yes", "failed"}
    <3>1. CASE ready' = "failed" /\ UNCHANGED <<Shell!childVars, serverProcess, attempt, requests>>
      BY <2>0, <3>1 DEF Shell!childVars
    <3>2. CASE /\ ready' = "failed" /\ server' = "exited" /\ exitCode' = "nonzero" /\ closeDue' = TRUE
               /\ serverProcess' = TRUE /\ attempt' = 1 /\ requests' = 1
      BY <3>2
    <3>3. CASE /\ server' = "booting" /\ UNCHANGED <<ready, exitCode, closeDue>>
               /\ serverProcess' = TRUE /\ attempt' = 1 /\ requests' = 1
      BY <2>0, <3>3
    <3> QED BY <1>1, <3>1, <3>2, <3>3 DEF Shell!startServer
  <2> QED BY <1>1, <2>0, <2>1 DEF Shell!startServer, Shell!dialogVars, Shell!windowVars
<1>2. CASE Shell!ServerListens
  BY <1>2 DEF Shell!ServerListens, Shell!Alive, Shell!quitVars, Shell!checkVars,
              Shell!dialogVars, Shell!windowVars
<1>3. CASE Shell!ServerExits
  BY <1>3 DEF Shell!ServerExits, Shell!quitVars, Shell!checkVars,
              Shell!dialogVars, Shell!windowVars
<1>4. CASE Shell!RequestEnds \/ Shell!tryConnect
  BY <1>4, ChecksKeep
<1>5. CASE \/ Shell!Started \/ Shell!TrayClick \/ Shell!activate
           \/ \E w \in Windows : Shell!UserCloses(w)
  BY <1>5, WindowStepsKeep
<1>6. CASE Shell!StartFailed
  BY <1>6 DEF Shell!StartFailed, Shell!childVars, Shell!quitVars, Shell!checkVars,
              Shell!windowVars
<1>7. CASE Shell!KillTimerFires
  <2>1. WindowsOK' /\ app' = "exited"
    BY <1>7, ExitClosesWindows DEF Shell!KillTimerFires
  <2> QED BY <1>7, <2>1 DEF Shell!KillTimerFires, WindowsOK, Shell!quitVars, Shell!checkVars,
                            Shell!dialogVars
<1>8. CASE Shell!ServerCloses
  <2>1. ~Shell!Running
    BY <1>8 DEF Shell!ServerCloses
  <2>2. WindowsOK' /\ app' \in {app, "exited"} /\ serverProcess' \in BOOLEAN
    <3>1. CASE onClose
      BY <1>8, <3>1, ExitClosesWindows DEF Shell!ServerCloses
    <3>2. CASE ~onClose /\ exitCode = "zero" /\ mainWindow # NoWindow
      BY <1>8, <3>2, <1>w, WindowIsClosed DEF Shell!ServerCloses
    <3>3. CASE ~onClose /\ ~(exitCode = "zero" /\ mainWindow # NoWindow)
      BY <1>8, <3>3, <1>w, WindowsUntouched DEF Shell!ServerCloses
    <3> QED BY <3>1, <3>2, <3>3
  <2> QED BY <1>8, <2>1, <2>2 DEF Shell!ServerCloses, WindowsOK, Shell!checkVars
<1>9. CASE Shell!CrashDialogAnswered
  <2>1. CASE crashDialog' = "none" /\ Shell!quit(TRUE)
    BY <1>9, <2>1, QuitWaits DEF Shell!CrashDialogAnswered, Shell!childVars, Shell!checkVars
  <2>2. CASE crashDialog' = "logged" /\ UNCHANGED <<app, isQuitting, asked, onClose, killTimer, window, mainWindow>>
    BY <1>9, <2>2 DEF Shell!CrashDialogAnswered, Shell!childVars, Shell!checkVars
  <2> QED BY <1>9, <2>1, <2>2 DEF Shell!CrashDialogAnswered
<1>10. CASE Shell!StartDialogAnswered
  <2>1. CASE startDialog' = "none" /\ Shell!quit(isQuitting)
    BY <1>10, <2>1, QuitWaits DEF Shell!StartDialogAnswered, Shell!childVars, Shell!checkVars
  <2>2. CASE startDialog' = "logged" /\ UNCHANGED <<app, isQuitting, asked, onClose, killTimer, window, mainWindow>>
    BY <1>10, <2>2 DEF Shell!StartDialogAnswered, Shell!childVars, Shell!checkVars
  <2> QED BY <1>10, <2>1, <2>2 DEF Shell!StartDialogAnswered
<1>11. CASE Shell!TrayQuit
  BY <1>11, QuitWaits DEF Shell!TrayQuit, Shell!childVars, Shell!checkVars, Shell!dialogVars
<1>12. CASE Shell!MenuQuit
  BY <1>12, QuitWaits DEF Shell!MenuQuit, Shell!childVars, Shell!checkVars, Shell!dialogVars
<1>13. CASE UNCHANGED shellVars
  BY <1>13 DEF shellVars
<1> QED BY <1>1, <1>2, <1>3, <1>4, <1>5, <1>6, <1>7, <1>8, <1>9, <1>10, <1>11, <1>12, <1>13
        DEF Shell!Next

(* The step of a client that is not on the screen changes nothing of it.   *)
LEMMA ShellStep ==
    ASSUME [ClientNext]_<<part, vars, chatVars, qrVars, shellVars, settingsVars>>
    PROVE  [Shell!Next]_shellVars
BY DEF ClientNext, shellVars

(* However the app comes to its end, from the tray, a dialog, the menu,    *)
(* during the start or after a crash of the server, no server it started   *)
(* is left running (the before-quit handler of main.js and its five        *)
(* seconds), with any number of windows and attempts, on macOS or not.     *)
THEOREM NoServerIsLeft == ClientSpec => []NoOrphan
<1>1. ClientInit => ShellInv
  BY ShellStarts DEF ClientInit
<1>2. ShellInv /\ [ClientNext]_<<part, vars, chatVars, qrVars, shellVars, settingsVars>>
      => ShellInv'
  BY ShellStep, ShellKeeps
<1>3. ShellInv => NoOrphan
  BY DEF ShellInv, NoOrphan
<1> QED BY <1>1, <1>2, <1>3, PTL DEF ClientSpec

(***************************************************************************)
(* The settings form                                                       *)
(***************************************************************************)

Known == Values \cup {Initial}

(* Options as the server once had them, setting by setting.                *)
WasHad(opts) == \A f \in Fields : opts[f] \in had[f]

SettingsTypes ==
    /\ options \in [Fields -> Known] /\ had \in [Fields -> SUBSET Known]
    /\ fetch \in [state : {"none", "sent", "answered"}, options : [Fields -> Known]]
    /\ defaults \in [Fields -> Known]
    /\ values \in [Fields -> Known] /\ baseline \in [Fields -> Known] /\ typed \subseteq Fields
    /\ saving \in BOOLEAN /\ data \in [Fields -> Known] /\ fields \subseteq Fields
    /\ put # NoField => put \in [field : Fields, outcome : {"done", "error"}]

(* What a running save has left behind: each setting is still to be        *)
(* written, or the server has had the submitted value.                     *)
SaveIsOnItsWay ==
    /\ saving => \A f \in Fields : f \in fields \/ data[f] \in had[f]
    /\ put # NoField => saving /\ (put.outcome = "done" => data[put.field] \in had[put.field])

SettingsInv ==
    /\ SettingsTypes /\ WasHad(options) /\ WasHad(fetch.options) /\ WasHad(defaults)
    /\ WasHad(baseline) /\ SaveIsOnItsWay /\ Settings!Dirty \subseteq typed

LEMMA SettingsStart == Settings!Init => SettingsInv
<1> SUFFICES ASSUME Settings!Init PROVE SettingsInv
  OBVIOUS
<1>1. options \in [Fields -> Known] /\ had \in [Fields -> SUBSET Known]
  BY DEF Settings!Init, Known
<1>2. \A f \in Fields : options[f] \in had[f]
  BY DEF Settings!Init
<1> QED BY <1>1, <1>2 DEF Settings!Init, SettingsInv, SettingsTypes, WasHad, SaveIsOnItsWay,
                          Settings!Dirty

(* A reset shows what it makes the baseline.                               *)
LEMMA AdoptKeeps ==
    ASSUME SettingsInv, NEW new \in [Fields -> Known], WasHad(new), UNCHANGED had,
           Settings!Adopt(new)
    PROVE  /\ values' \in [Fields -> Known] /\ baseline' \in [Fields -> Known]
           /\ typed' \subseteq Fields
           /\ WasHad(baseline)' /\ Settings!Dirty' \subseteq typed'
<1>1. CASE new = baseline
  BY <1>1 DEF Settings!Adopt, Settings!formVars, SettingsInv, SettingsTypes, WasHad,
              Settings!Dirty
<1>2. CASE new # baseline
  BY <1>2 DEF Settings!Adopt, Settings!Reset, SettingsInv, WasHad, Settings!Dirty
<1> QED BY <1>1, <1>2

(* A write adds to what a setting has had and takes nothing away.          *)
LEMMA StoreKeeps ==
    ASSUME SettingsInv, NEW f \in Fields, NEW v \in Known, Settings!Store(f, v)
    PROVE  /\ options' \in [Fields -> Known] /\ had' \in [Fields -> SUBSET Known]
           /\ WasHad(options)' /\ v \in had'[f]
           /\ \A g \in Fields : had[g] \subseteq had'[g]
BY DEF Settings!Store, SettingsInv, SettingsTypes, WasHad

(* Fetching the options and looking at them: nothing is written.           *)
LEMMA FetchesKeep ==
    ASSUME SettingsInv,
           \/ Settings!Refetch \/ Settings!GetOptions \/ Settings!GetReplies
           \/ Settings!GetFails \/ Settings!Rerender
    PROVE  SettingsInv'
<1> USE DEF Settings!serverVars, Settings!saveVars, Settings!formVars, Settings!fetchVars
<1>0. UNCHANGED <<options, had, saving, data, fields, put>>
  BY DEF Settings!Refetch, Settings!GetOptions, Settings!GetReplies, Settings!GetFails,
         Settings!Rerender
<1>1. SaveIsOnItsWay' /\ WasHad(options)'
  BY <1>0 DEF SettingsInv, SaveIsOnItsWay, WasHad
<1>2. /\ fetch' \in [state : {"none", "sent", "answered"}, options : [Fields -> Known]]
      /\ defaults' \in [Fields -> Known]
      /\ WasHad(fetch.options)' /\ WasHad(defaults)'
  BY <1>0 DEF Settings!Refetch, Settings!GetOptions, Settings!GetReplies, Settings!GetFails,
              Settings!Rerender, Settings!Invalidate, SettingsInv, SettingsTypes, WasHad
<1>3. /\ values' \in [Fields -> Known] /\ baseline' \in [Fields -> Known]
      /\ typed' \subseteq Fields /\ WasHad(baseline)' /\ Settings!Dirty' \subseteq typed'
  <2>1. CASE \/ Settings!Refetch \/ Settings!GetOptions \/ Settings!GetFails
             \/ (Settings!GetReplies /\ fetch.options = defaults)
    <3>1. UNCHANGED <<values, baseline, typed>>
      BY <2>1 DEF Settings!Refetch, Settings!GetOptions, Settings!GetReplies, Settings!GetFails
    <3> QED BY <1>0, <3>1 DEF SettingsInv, SettingsTypes, WasHad, Settings!Dirty
  <2>2. CASE Settings!GetReplies /\ fetch.options # defaults
    <3>1. fetch.options \in [Fields -> Known] /\ WasHad(fetch.options)
      BY DEF SettingsInv, SettingsTypes
    <3> QED BY <1>0, <2>2, <3>1, AdoptKeeps DEF Settings!GetReplies
  <2>3. CASE Settings!Rerender
    <3>1. defaults \in [Fields -> Known] /\ WasHad(defaults)
      BY DEF SettingsInv, SettingsTypes
    <3> QED BY <1>0, <2>3, <3>1, AdoptKeeps DEF Settings!Rerender
  <2> QED BY <2>1, <2>2, <2>3
<1> QED BY <1>0, <1>1, <1>2, <1>3 DEF SettingsInv, SettingsTypes

(* A write, of another administrator or of a save, leaves the page alone.  *)
LEMMA WritesKeep ==
    ASSUME SettingsInv, NEW f \in Fields,
           (\E v \in Values : Settings!OtherAdmin(f, v)) \/ Settings!UpdateOption(f)
    PROVE  SettingsInv'
<1> USE DEF Settings!formVars, Settings!fetchVars, Settings!saveVars
<1>1. UNCHANGED <<fetch, defaults, values, baseline, typed, saving, data, fields>>
  BY DEF Settings!OtherAdmin, Settings!UpdateOption
<1>2. /\ options' \in [Fields -> Known] /\ had' \in [Fields -> SUBSET Known]
      /\ WasHad(options)' /\ \A g \in Fields : had[g] \subseteq had'[g]
  <2>1. ASSUME NEW v \in Values, Settings!OtherAdmin(f, v)
        PROVE  Settings!Store(f, v) /\ v \in Known
    BY <2>1 DEF Settings!OtherAdmin, Known
  <2>2. ASSUME Settings!UpdateOption(f)
        PROVE  (Settings!Store(f, data[f]) \/ UNCHANGED <<options, had>>) /\ data[f] \in Known
    BY <2>2 DEF Settings!UpdateOption, SettingsInv, SettingsTypes
  <2>3. CASE UNCHANGED <<options, had>>
    BY <2>3 DEF SettingsInv, SettingsTypes, WasHad
  <2> QED BY <2>1, <2>2, <2>3, StoreKeeps
<1>3. WasHad(fetch.options)' /\ WasHad(defaults)' /\ WasHad(baseline)'
  BY <1>1, <1>2 DEF SettingsInv, WasHad
<1>4. /\ put' # NoField => put' \in [field : Fields, outcome : {"done", "error"}]
      /\ SaveIsOnItsWay'
  <2>1. saving' => \A g \in Fields : g \in fields' \/ data'[g] \in had'[g]
    BY <1>1, <1>2 DEF SettingsInv, SaveIsOnItsWay
  <2>2. CASE \E v \in Values : Settings!OtherAdmin(f, v)
    <3>1. put' = put
      BY <2>2 DEF Settings!OtherAdmin
    <3> QED BY <1>1, <1>2, <2>1, <3>1 DEF SettingsInv, SettingsTypes, SaveIsOnItsWay
  <2>3. CASE Settings!UpdateOption(f)
    <3>1. PICK outcome \in {"done", "error"} :
              /\ put' = [field |-> f, outcome |-> outcome] /\ saving
              /\ outcome = "done" => Settings!Store(f, data[f])
      BY <2>3 DEF Settings!UpdateOption
    <3>2. data[f] \in Known
      BY DEF SettingsInv, SettingsTypes
    <3>3. outcome = "done" => data'[f] \in had'[f]
      BY <1>1, <3>1, <3>2, StoreKeeps
    <3>4. put'.field = f /\ put'.outcome = outcome /\ saving'
      BY <1>1, <3>1
    <3> QED BY <2>1, <3>1, <3>3, <3>4 DEF SaveIsOnItsWay
  <2> QED BY <2>2, <2>3
<1> QED BY <1>1, <1>2, <1>3, <1>4 DEF SettingsInv, SettingsTypes, Settings!Dirty

(* The administrator's own steps, the end of a save included: by then      *)
(* every submitted value is one the server has had.                        *)
LEMMA FormKeeps ==
    ASSUME SettingsInv,
           \/ \E f \in Fields, v \in Values : Settings!Edit(f, v)
           \/ Settings!handleReset \/ Settings!handleSubmit \/ Settings!SaveEnds
    PROVE  SettingsInv'
<1> USE DEF Settings!serverVars, Settings!formVars, Settings!fetchVars, Settings!saveVars
<1>0. UNCHANGED <<options, had, fetch, defaults, put>>
  BY DEF Settings!Edit, Settings!handleReset, Settings!handleSubmit, Settings!SaveEnds
<1>1. WasHad(options)' /\ WasHad(fetch.options)' /\ WasHad(defaults)'
  BY <1>0 DEF SettingsInv, WasHad
<1>2. ASSUME NEW f \in Fields, NEW v \in Values, Settings!Edit(f, v) PROVE SettingsInv'
  <2>1. values' = [values EXCEPT ![f] = v] /\ typed' = typed \cup {f}
        /\ UNCHANGED <<baseline, saving, data, fields>>
    BY <1>2 DEF Settings!Edit
  <2>2. values' \in [Fields -> Known] /\ typed' \subseteq Fields
    BY <2>1 DEF SettingsInv, SettingsTypes, Known
  <2>3. Settings!Dirty' \subseteq typed'
    BY <2>1 DEF SettingsInv, SettingsTypes, Settings!Dirty
  <2> QED BY <1>0, <1>1, <2>1, <2>2, <2>3 DEF SettingsInv, SettingsTypes, WasHad, SaveIsOnItsWay
<1>3. CASE Settings!handleReset
  <2>1. values' = baseline /\ typed' = {} /\ UNCHANGED <<baseline, saving, data, fields>>
    BY <1>3 DEF Settings!handleReset
  <2> QED BY <1>0, <1>1, <2>1
          DEF SettingsInv, SettingsTypes, WasHad, SaveIsOnItsWay, Settings!Dirty
<1>4. CASE Settings!handleSubmit
  <2>1. /\ ~saving /\ saving' = TRUE /\ data' = values /\ fields' = Settings!Dirty
        /\ UNCHANGED <<values, baseline, typed>>
    BY <1>4 DEF Settings!handleSubmit
  <2>2. put = NoField
    BY <2>1 DEF SettingsInv, SaveIsOnItsWay
  <2>3. SaveIsOnItsWay'
    BY <1>0, <2>1, <2>2 DEF SaveIsOnItsWay, SettingsInv, WasHad, Settings!Dirty
  <2>4. Settings!Dirty' \subseteq typed' /\ WasHad(baseline)'
    BY <1>0, <2>1 DEF SettingsInv, Settings!Dirty, WasHad
  <2> QED BY <1>0, <1>1, <2>1, <2>3, <2>4 DEF SettingsInv, SettingsTypes, Settings!Dirty
<1>5. CASE Settings!SaveEnds
  <2>1. /\ saving /\ fields = {} /\ put = NoField /\ saving' = FALSE
        /\ baseline' = data /\ values' = data /\ typed' = {} /\ UNCHANGED <<data, fields>>
    BY <1>5 DEF Settings!SaveEnds, Settings!Reset
  <2>2. WasHad(baseline)'
    BY <1>0, <2>1 DEF SettingsInv, SaveIsOnItsWay, WasHad
  <2>3. Settings!Dirty' = {} /\ SaveIsOnItsWay'
    BY <1>0, <2>1 DEF Settings!Dirty, SaveIsOnItsWay
  <2> QED BY <1>0, <1>1, <2>1, <2>2, <2>3 DEF SettingsInv, SettingsTypes
<1> QED BY <1>2, <1>3, <1>4, <1>5

(* The answer to a write.                                                  *)
LEMMA AnswerKeeps ==
    ASSUME SettingsInv, Settings!mutateAsync PROVE SettingsInv'
<1> USE DEF Settings!serverVars, Settings!formVars
<1>1. /\ put # NoField /\ put' = NoField
      /\ UNCHANGED <<options, had, defaults, values, baseline, typed, data>>
  BY DEF Settings!mutateAsync
<1>2. put \in [field : Fields, outcome : {"done", "error"}]
  BY <1>1 DEF SettingsInv, SettingsTypes
<1>3. /\ fetch' \in [state : {"none", "sent", "answered"}, options : [Fields -> Known]]
      /\ fetch'.options = fetch.options
  BY DEF Settings!mutateAsync, Settings!Invalidate, SettingsInv, SettingsTypes
<1>4. /\ saving' \in BOOLEAN /\ fields' \subseteq Fields
      /\ saving' => saving /\ put.outcome = "done" /\ fields' = fields \ {put.field}
  BY <1>2 DEF Settings!mutateAsync, SettingsInv, SettingsTypes
<1>5. SaveIsOnItsWay'
  <2>1. ASSUME saving', NEW f \in Fields PROVE f \in fields' \/ data'[f] \in had'[f]
    BY <1>1, <1>2, <1>4, <2>1 DEF SettingsInv, SaveIsOnItsWay
  <2> QED BY <1>1, <2>1 DEF SaveIsOnItsWay
<1> QED BY <1>1, <1>3, <1>4, <1>5 DEF SettingsInv, SettingsTypes, WasHad, Settings!Dirty

(* Every step of the settings form.                                        *)
LEMMA SettingsKeep ==
    ASSUME SettingsInv, [Settings!Next]_settingsVars PROVE SettingsInv'
<1>1. CASE UNCHANGED settingsVars
  BY <1>1 DEF settingsVars, SettingsInv, SettingsTypes, WasHad, SaveIsOnItsWay, Settings!Dirty
<1>2. CASE Settings!Next
  BY <1>2, FetchesKeep, WritesKeep, FormKeeps, AnswerKeeps DEF Settings!Next
<1> QED BY <1>1, <1>2

LEMMA SettingsStep ==
    ASSUME [ClientNext]_<<part, vars, chatVars, qrVars, shellVars, settingsVars>>
    PROVE  [Settings!Next]_settingsVars
BY DEF ClientNext, settingsVars

(* useSettingsForm never writes a setting the administrator did not edit   *)
(* since the last reset, and what it takes for saved the server has had,   *)
(* with any number of settings, fetches that fail or come late, writes     *)
(* that fail half-way and other administrators.                            *)
THEOREM OnlyEditsAreWritten == ClientSpec => []SavesOnlyEdits
<1>1. ClientInit => SettingsInv
  BY SettingsStart DEF ClientInit
<1>2. SettingsInv /\ [ClientNext]_<<part, vars, chatVars, qrVars, shellVars, settingsVars>>
      => SettingsInv'
  BY SettingsStep, SettingsKeep
<1>3. SettingsInv => SavesOnlyEdits
  BY DEF SettingsInv, SavesOnlyEdits, Settings!OnlyEditsAreSaved, Settings!BaselineWasSaved,
         WasHad
<1> QED BY <1>1, <1>2, <1>3, PTL DEF ClientSpec

(***************************************************************************)
(* The dialog of a payment code                                            *)
(***************************************************************************)

(* Orders with a row that holds, and orders that were paid.  Neither set   *)
(* ever loses an order.                                                    *)
Live(t) == order[t] \in {"pending", "success", "reversed"}
Paid(t) == order[t] \in {"success", "reversed"}

Busy(s) == call[s].stage # "idle"

(* The session on the page is that of the dialog, and of an order that is  *)
(* not being made any more.                                                *)
SessionIsShown ==
    /\ dialog = session.open
    /\ session.open => session.trade = payment /\ payment \in Trades /\ Live(payment)
                       /\ confirm # payment

(* A call under way is of an order with a row, and of this session or an   *)
(* earlier one; what it was told is still true.                            *)
CallsAreTrue ==
    \A s \in Slots : Busy(s) =>
        /\ Live(call[s].trade) /\ call[s].session <= session.id
        /\ call[s].stage = "answered" =>
              /\ call[s].status \in {"none", "pending", "success", "reversed"}
              /\ call[s].status = "success" => Paid(call[s].trade)
        /\ Qr!Handling(s) => Paid(call[s].trade)

(* The flag is up while the call that the request number names is under    *)
(* way; that call is of this session, and no other is.                     *)
NumberedIsCurrent ==
    /\ inFlight => current \in Slots /\ Busy(current)
    /\ refreshing = inFlight
    /\ \A s \in Slots : Busy(s) =>
          /\ Qr!isCurrentQrPaymentSession(call[s]) => s = current
          /\ s = current => inFlight /\ Qr!isCurrentQrPaymentSession(call[s])

(* While no session has ended in the middle of a success: what is being    *)
(* handled is of this session and was not told before, and what was told   *)
(* of the order on display is remembered.                                  *)
SuccessIsHandledOnce ==
    ~interrupted =>
        /\ \A s \in Slots : Qr!Handling(s) =>
              Qr!isCurrentQrPaymentSession(call[s]) /\ toasts[call[s].trade] = 0
        /\ session.open /\ toasts[session.trade] # 0 => handled = session.trade
        /\ dialog /\ status = "success" => Paid(payment)
        /\ \A t \in Trades : toasts[t] <= 1

ToldOrdersAreMade ==
    \A t \in Trades : order[t] = "absent" \/ confirm = t => interrupted \/ toasts[t] = 0

QrInv ==
    /\ Qr!QrTypeOK /\ Qr!CreditedOnce /\ SessionIsShown /\ CallsAreTrue
    /\ NumberedIsCurrent /\ SuccessIsHandledOnce /\ ToldOrdersAreMade

LEMMA CallShape ==
    ASSUME NEW c \in Qr!CallRecords
    PROVE  /\ c.stage \in {"idle", "asked", "answered", "refresh", "refreshed"}
           /\ c = Qr!Idle <=> c.stage = "idle"
           /\ c.stage # "idle" => c.trade \in Trades /\ c.session \in Nat
           /\ c.stage \in {"asked", "answered"} => c.manual \in BOOLEAN
           /\ c.stage = "answered" => c.status \in {"none"} \cup Qr!OrderStatuses
           /\ c.stage = "refreshed" => c.ok \in BOOLEAN
BY DEF Qr!CallRecords, Qr!Idle

LEMMA CallsMade ==
    ASSUME NEW t \in Trades, NEW n \in Nat, NEW b \in BOOLEAN,
           NEW st \in {"none"} \cup Qr!OrderStatuses
    PROVE  /\ Qr!Idle \in Qr!CallRecords
           /\ [stage |-> "asked", trade |-> t, session |-> n, manual |-> b] \in Qr!CallRecords
           /\ [stage |-> "answered", trade |-> t, session |-> n, manual |-> b, status |-> st]
                  \in Qr!CallRecords
           /\ [stage |-> "refresh", trade |-> t, session |-> n] \in Qr!CallRecords
           /\ [stage |-> "refreshed", trade |-> t, session |-> n, ok |-> b] \in Qr!CallRecords
BY DEF Qr!CallRecords

LEMMA CallIsTyped ==
    ASSUME Qr!QrTypeOK, NEW s \in Slots
    PROVE  /\ call[s] \in Qr!CallRecords
           /\ Busy(s) => call[s].trade \in Trades /\ call[s].session \in Nat
           /\ call[s] # Qr!Idle <=> Busy(s)
           /\ Qr!Handling(s) => Busy(s)
BY CallShape DEF Qr!QrTypeOK, Busy, Qr!Handling

(* Fault counts the requests that fail.                                    *)
LEMMA FaultsCounted ==
    ASSUME Qr!QrTypeOK, Qr!NoFault \/ Qr!Fault PROVE faults' \in 0 .. MaxFaults
BY ClientAssumption DEF Qr!QrTypeOK, Qr!NoFault, Qr!Fault

LEMMA QrStarts == Qr!Init => QrInv
<1> SUFFICES ASSUME Qr!Init PROVE QrInv
  OBVIOUS
<1>1. \A s \in Slots : call[s] = Qr!Idle /\ ~Busy(s) /\ ~Qr!Handling(s)
  BY DEF Qr!Init, Qr!Idle, Busy, Qr!Handling
<1>2. call \in [Slots -> Qr!CallRecords]
  BY DEF Qr!Init, Qr!CallRecords
<1>3. /\ session \in [id : Nat, open : BOOLEAN, trade : Trades \cup {NoTrade}]
      /\ session.open = FALSE
  BY DEF Qr!Init, Qr!initialQrPaymentSession
<1>4. order \in [Trades -> Qr!OrderStatuses] /\ credit \in [Trades -> Nat]
      /\ scan \in [Trades -> {"unseen", "seen", "paid"}] /\ toasts \in [Trades -> Nat]
  BY DEF Qr!Init, Qr!OrderStatuses
<1>a. dialog \in BOOLEAN /\ refreshing \in BOOLEAN /\ inFlight \in BOOLEAN /\ interrupted \in BOOLEAN
  BY DEF Qr!Init
<1>b. get \in {Qr!NoGet, [stage |-> "asked"]} \cup [stage : {"answered"}, balance : SUBSET Trades]
      /\ shown \subseteq Trades
  BY DEF Qr!Init
<1>c. /\ confirm = NoTrade /\ payment = NoTrade /\ handled = NoTrade /\ current = NoSlot
      /\ status = "pending" /\ closing = "no" /\ faults = 0
  BY DEF Qr!Init
<1>5. Qr!QrTypeOK
  BY <1>2, <1>3, <1>4, <1>a, <1>b, <1>c, ClientAssumption DEF Qr!QrTypeOK
<1>6. Qr!CreditedOnce
  BY DEF Qr!Init, Qr!CreditedOnce
<1>7. SessionIsShown
  BY <1>3 DEF Qr!Init, SessionIsShown
<1>8. CallsAreTrue
  BY <1>1 DEF CallsAreTrue
<1>9. NumberedIsCurrent
  BY <1>1 DEF Qr!Init, NumberedIsCurrent
<1>10. SuccessIsHandledOnce
  BY <1>1, <1>3 DEF Qr!Init, SuccessIsHandledOnce
<1>11. ToldOrdersAreMade
  BY DEF Qr!Init, ToldOrdersAreMade
<1> QED BY <1>5, <1>6, <1>7, <1>8, <1>9, <1>10, <1>11 DEF QrInv

(* What leaves calls, session and dialog alone, while orders only go on.   *)
LEMMA PageUntouched ==
    ASSUME QrInv,
           UNCHANGED <<dialog, payment, status, refreshing, session, inFlight, current, handled,
                       call, toasts, interrupted>>,
           \A t \in Trades : (Live(t) => Live(t)') /\ (Paid(t) => Paid(t)')
    PROVE  CallsAreTrue' /\ NumberedIsCurrent' /\ SuccessIsHandledOnce'
<1>1. \A s \in Slots : Busy(s) => call[s].trade \in Trades
  BY CallIsTyped DEF QrInv
<1>2. CallsAreTrue'
  BY <1>1 DEF QrInv, CallsAreTrue, Busy, Qr!Handling
<1>3. NumberedIsCurrent'
  BY DEF QrInv, NumberedIsCurrent, Busy, Qr!isCurrentQrPaymentSession
<1>4. SuccessIsHandledOnce'
  BY DEF QrInv, SuccessIsHandledOnce, SessionIsShown, Qr!Handling, Qr!isCurrentQrPaymentSession
<1> QED BY <1>2, <1>3, <1>4

(* The server: an order that was made stays made, one that was paid stays  *)
(* paid, and the credit follows it.                                        *)
LEMMA ServerKeeps ==
    ASSUME QrInv, NEW t \in Trades, Qr!ServerStep(t) \/ Qr!Pay(t)
    PROVE  QrInv'
<1> USE DEF Qr!ServerStep, Qr!RequestWechatPayPay, Qr!WechatPayNotify, Qr!AdminCompleteTopUp,
            Qr!ReverseTopUpOrder, Qr!Pay
<1>1. UNCHANGED <<confirm, dialog, payment, status, refreshing, closing, session, inFlight,
                  current, handled, call, get, shown, toasts, interrupted>>
  BY DEF Qr!pageVars, Qr!refVars, Qr!historyVars
<1>2. faults' \in 0 .. MaxFaults
  <2>1. Qr!NoFault \/ Qr!Fault
    BY DEF Qr!NoFault
  <2> QED BY <2>1, FaultsCounted DEF QrInv
<1>3. scan' \in [Trades -> {"unseen", "seen", "paid"}]
  BY DEF QrInv, Qr!QrTypeOK
<1>4. \/ UNCHANGED <<order, credit>>
      \/ /\ order[t] = "absent" /\ UNCHANGED credit
         /\ \E o \in {"pending", "failed"} : order' = [order EXCEPT ![t] = o]
      \/ /\ order[t] = "success" /\ order' = [order EXCEPT ![t] = "success"] /\ UNCHANGED credit
      \/ /\ order[t] = "pending" /\ order' = [order EXCEPT ![t] = "success"]
         /\ credit' = [credit EXCEPT ![t] = @ + 1]
      \/ /\ order[t] = "success" /\ order' = [order EXCEPT ![t] = "reversed"]
         /\ credit' = [credit EXCEPT ![t] = @ - 1]
  BY DEF Qr!CompleteTopUpOrder, Qr!serverVars
<1>5. order \in [Trades -> Qr!OrderStatuses] /\ credit \in [Trades -> Nat] /\ Qr!CreditedOnce
  BY DEF QrInv, Qr!QrTypeOK
<1>6. order' \in [Trades -> Qr!OrderStatuses]
      /\ \A u \in Trades : /\ Live(u) => Live(u)'
                           /\ Paid(u) => Paid(u)'
                           /\ order'[u] = "absent" => order[u] = "absent"
  BY <1>4, <1>5 DEF Live, Paid, Qr!OrderStatuses
<1>7. credit' \in [Trades -> Nat] /\ Qr!CreditedOnce'
  BY <1>4, <1>5 DEF Qr!CreditedOnce
<1>8. CallsAreTrue' /\ NumberedIsCurrent' /\ SuccessIsHandledOnce'
  BY <1>1, <1>6, PageUntouched
<1>9. SessionIsShown' /\ ToldOrdersAreMade'
  BY <1>1, <1>6 DEF QrInv, SessionIsShown, ToldOrdersAreMade
<1>10. Qr!QrTypeOK'
  BY <1>1, <1>2, <1>3, <1>6, <1>7 DEF QrInv, Qr!QrTypeOK
<1> QED BY <1>7, <1>8, <1>9, <1>10 DEF QrInv

(* The page asks for an order; the dialog is not open then.                *)
LEMMA ConfirmKeeps ==
    ASSUME QrInv, NEW t \in Trades, Qr!handlePaymentConfirm(t)
    PROVE  QrInv'
<1>1. /\ ~dialog /\ order[t] = "absent" /\ confirm' = t
      /\ UNCHANGED <<order, credit, scan, dialog, payment, status, refreshing, closing, session,
                     inFlight, current, handled, call, get, shown, toasts, interrupted, faults>>
  BY DEF Qr!handlePaymentConfirm, Qr!serverVars, Qr!pageVars, Qr!refVars, Qr!historyVars
<1>2. CallsAreTrue' /\ NumberedIsCurrent' /\ SuccessIsHandledOnce'
  BY <1>1, PageUntouched DEF Live, Paid
<1>3. SessionIsShown' /\ ToldOrdersAreMade'
  BY <1>1 DEF QrInv, SessionIsShown, ToldOrdersAreMade
<1>4. Qr!QrTypeOK' /\ Qr!CreditedOnce'
  BY <1>1 DEF QrInv, Qr!QrTypeOK, Qr!CreditedOnce
<1> QED BY <1>2, <1>3, <1>4 DEF QrInv

(* A new session has no call of its own yet, and forgets those under way.  *)
LEMMA SessionsChange ==
    ASSUME QrInv, NEW isOpen \in BOOLEAN, NEW t \in Trades \cup {NoTrade},
           Qr!NewSession(isOpen, t), UNCHANGED <<order, call, toasts>>,
           isOpen => t \in Trades /\ (interrupted \/ toasts[t] = 0)
    PROVE  /\ CallsAreTrue' /\ NumberedIsCurrent' /\ SuccessIsHandledOnce'
           /\ session' \in [id : Nat, open : BOOLEAN, trade : Trades \cup {NoTrade}]
           /\ session'.open = isOpen /\ session'.trade = t
           /\ interrupted' \in BOOLEAN /\ (interrupted => interrupted')
<1>0. session.id \in Nat /\ interrupted \in BOOLEAN
  BY DEF QrInv, Qr!QrTypeOK
<1>1. /\ session' = [id |-> session.id + 1, open |-> isOpen, trade |-> t]
      /\ current' = NoSlot /\ inFlight' = FALSE /\ handled' = NoTrade
      /\ status' = "pending" /\ refreshing' = FALSE
  BY DEF Qr!NewSession
<1>2. session'.id = session.id + 1 /\ session'.open = isOpen /\ session'.trade = t
      /\ session' \in [id : Nat, open : BOOLEAN, trade : Trades \cup {NoTrade}]
  BY <1>0, <1>1
<1>3. interrupted' \in BOOLEAN /\ (interrupted => interrupted')
      /\ (~interrupted' => ~interrupted /\ \A s \in Slots :
             ~(Qr!Handling(s) /\ Qr!isCurrentQrPaymentSession(call[s])))
  <2>1. interrupted' = (interrupted \/ \E s \in Slots :
            Qr!Handling(s) /\ Qr!isCurrentQrPaymentSession(call[s]))
    BY DEF Qr!NewSession
  <2> QED BY <1>0, <2>1
<1>4. \A s \in Slots : Busy(s) => call[s].session \in Nat /\ call[s].session <= session.id
  BY CallIsTyped DEF QrInv, CallsAreTrue
<1>5. CallsAreTrue'
  BY <1>0, <1>2, <1>4 DEF QrInv, CallsAreTrue, Busy, Qr!Handling, Live, Paid
<1>6. \A s \in Slots : Busy(s)' => ~Qr!isCurrentQrPaymentSession(call[s])'
  BY <1>0, <1>2, <1>4 DEF Busy, Qr!isCurrentQrPaymentSession
<1>7. NumberedIsCurrent'
  BY <1>1, <1>6, ClientAssumption DEF NumberedIsCurrent
<1>8. SuccessIsHandledOnce'
  <2>1. ASSUME ~interrupted', NEW s \in Slots PROVE ~Qr!Handling(s)'
    BY <1>3, <2>1 DEF QrInv, SuccessIsHandledOnce, Qr!Handling
  <2>2. ASSUME ~interrupted', session'.open PROVE toasts'[session'.trade] = 0
    BY <1>2, <1>3, <2>2
  <2>3. ASSUME ~interrupted' PROVE \A u \in Trades : toasts'[u] <= 1
    BY <1>3, <2>3 DEF QrInv, SuccessIsHandledOnce
  <2> QED BY <1>1, <2>1, <2>2, <2>3 DEF SuccessIsHandledOnce
<1> QED BY <1>2, <1>3, <1>5, <1>7, <1>8

(* The dialog opens with the order that was made, or there is none.        *)
LEMMA ConfirmedKeeps ==
    ASSUME QrInv, NEW t \in Trades, Qr!PaymentConfirmed(t)
    PROVE  QrInv'
<1>0. /\ confirm = t /\ order[t] # "absent" /\ confirm' = NoTrade
      /\ UNCHANGED <<order, credit, call, get, shown, toasts>>
  BY DEF Qr!PaymentConfirmed, Qr!serverVars
<1>1. faults' \in 0 .. MaxFaults
  BY FaultsCounted DEF Qr!PaymentConfirmed, QrInv
<1>2. Qr!CreditedOnce' /\ NoTrade \notin Trades
  BY <1>0, ClientAssumption DEF QrInv, Qr!CreditedOnce
<1>3. CASE /\ order[t] # "failed" /\ Qr!activatePayment(t)
           /\ payment' = t /\ dialog' = TRUE
           /\ scan' = [scan EXCEPT ![t] = "seen"] /\ UNCHANGED closing
  <2>1. Qr!NewSession(TRUE, t)
    BY <1>3 DEF Qr!activatePayment
  <2>2. interrupted \/ toasts[t] = 0
    BY <1>0 DEF QrInv, ToldOrdersAreMade
  <2>3. /\ CallsAreTrue' /\ NumberedIsCurrent' /\ SuccessIsHandledOnce'
        /\ session' \in [id : Nat, open : BOOLEAN, trade : Trades \cup {NoTrade}]
        /\ session'.open = TRUE /\ session'.trade = t
        /\ interrupted' \in BOOLEAN /\ (interrupted => interrupted')
    BY <1>0, <2>1, <2>2, SessionsChange
  <2>4. Live(t)'
    BY <1>0, <1>3 DEF Live, QrInv, Qr!QrTypeOK, Qr!OrderStatuses
  <2>5. SessionIsShown'
    BY <1>0, <1>2, <1>3, <2>3, <2>4 DEF SessionIsShown
  <2>6. ToldOrdersAreMade'
    BY <1>0, <1>2, <2>3 DEF QrInv, ToldOrdersAreMade
  <2>7. /\ inFlight' = FALSE /\ refreshing' = FALSE /\ status' = "pending"
        /\ current' = NoSlot /\ handled' = NoTrade
    BY <2>1 DEF Qr!NewSession
  <2>8. scan' \in [Trades -> {"unseen", "seen", "paid"}]
    BY <1>3 DEF QrInv, Qr!QrTypeOK
  <2>9. Qr!QrTypeOK'
    BY <1>0, <1>1, <1>3, <2>3, <2>7, <2>8 DEF QrInv, Qr!QrTypeOK
  <2> QED BY <1>2, <2>3, <2>5, <2>6, <2>9 DEF QrInv
<1>4. CASE UNCHANGED <<scan, dialog, payment, status, refreshing, closing, session, inFlight,
                       current, handled, interrupted>>
  <2>1. CallsAreTrue' /\ NumberedIsCurrent' /\ SuccessIsHandledOnce'
    BY <1>0, <1>4, PageUntouched DEF Live, Paid
  <2>2. SessionIsShown' /\ ToldOrdersAreMade'
    BY <1>0, <1>2, <1>4 DEF QrInv, SessionIsShown, ToldOrdersAreMade, Live
  <2>3. Qr!QrTypeOK'
    BY <1>0, <1>1, <1>4 DEF QrInv, Qr!QrTypeOK
  <2> QED BY <1>2, <2>1, <2>2, <2>3 DEF QrInv
<1> QED BY <1>3, <1>4 DEF Qr!PaymentConfirmed, Qr!pageVars, Qr!refVars

(* api.get                                                                 *)
Gets == {Qr!NoGet, [stage |-> "asked"]} \cup [stage : {"answered"}, balance : SUBSET Trades]

LEMMA JoinIsTyped ==
    ASSUME Qr!QrTypeOK, Qr!JoinGet \/ UNCHANGED get PROVE get' \in Gets
BY DEF Qr!QrTypeOK, Qr!JoinGet, Gets

LEMMA SelfAnswersKeeps ==
    ASSUME QrInv, Qr!SelfAnswers PROVE QrInv'
<1>1. /\ UNCHANGED <<order, credit, scan, confirm, dialog, payment, status, refreshing, closing,
                     session, inFlight, current, handled, call, shown, toasts, interrupted, faults>>
      /\ get' = [stage |-> "answered", balance |-> {t \in Trades : credit[t] > 0}]
  BY DEF Qr!SelfAnswers, Qr!serverVars, Qr!pageVars, Qr!refVars, Qr!historyVars
<1>2. get' \in Gets
  BY <1>1 DEF Gets
<1>3. CallsAreTrue' /\ NumberedIsCurrent' /\ SuccessIsHandledOnce'
  BY <1>1, PageUntouched DEF Live, Paid
<1>4. SessionIsShown' /\ ToldOrdersAreMade' /\ Qr!CreditedOnce'
  BY <1>1 DEF QrInv, SessionIsShown, ToldOrdersAreMade, Live, Qr!CreditedOnce
<1>5. Qr!QrTypeOK'
  BY <1>1, <1>2 DEF QrInv, Qr!QrTypeOK, Gets
<1> QED BY <1>3, <1>4, <1>5 DEF QrInv

(* The dialog closes.                                                      *)
LEMMA CloseKeeps ==
    ASSUME QrInv, Qr!closeAfterSuccess \/ Qr!handleOpenChange PROVE QrInv'
<1>0. /\ UNCHANGED <<order, credit, scan, confirm, payment, call, shown, toasts, faults>>
      /\ Qr!JoinGet \/ UNCHANGED get
      /\ closing' \in {"no", "waiting", closing}
  BY DEF Qr!closeAfterSuccess, Qr!handleOpenChange, Qr!serverVars
<1>1. get' \in Gets
  BY <1>0, JoinIsTyped DEF QrInv
<1>2. CASE Qr!closeSession /\ dialog' = FALSE
  <2>1. Qr!NewSession(FALSE, NoTrade)
    BY <1>2 DEF Qr!closeSession
  <2>2. /\ CallsAreTrue' /\ NumberedIsCurrent' /\ SuccessIsHandledOnce'
        /\ session' \in [id : Nat, open : BOOLEAN, trade : Trades \cup {NoTrade}]
        /\ session'.open = FALSE
        /\ interrupted' \in BOOLEAN /\ (interrupted => interrupted')
    BY <1>0, <2>1, SessionsChange
  <2>3. SessionIsShown' /\ ToldOrdersAreMade' /\ Qr!CreditedOnce'
    BY <1>0, <1>2, <2>2 DEF QrInv, SessionIsShown, ToldOrdersAreMade, Qr!CreditedOnce
  <2>4. /\ inFlight' = FALSE /\ refreshing' = FALSE /\ status' = "pending"
        /\ current' = NoSlot /\ handled' = NoTrade
    BY <2>1 DEF Qr!NewSession
  <2>5. Qr!QrTypeOK'
    BY <1>0, <1>1, <1>2, <2>2, <2>4 DEF QrInv, Qr!QrTypeOK, Gets
  <2> QED BY <2>2, <2>3, <2>5 DEF QrInv
<1>3. CASE UNCHANGED <<dialog, status, refreshing, session, inFlight, current, handled, interrupted>>
  <2>1. CallsAreTrue' /\ NumberedIsCurrent' /\ SuccessIsHandledOnce'
    BY <1>0, <1>3, PageUntouched DEF Live, Paid
  <2>2. SessionIsShown' /\ ToldOrdersAreMade' /\ Qr!CreditedOnce'
    BY <1>0, <1>3 DEF QrInv, SessionIsShown, ToldOrdersAreMade, Live, Qr!CreditedOnce
  <2>3. Qr!QrTypeOK'
    BY <1>0, <1>1, <1>3 DEF QrInv, Qr!QrTypeOK, Gets
  <2> QED BY <2>1, <2>2, <2>3 DEF QrInv
<1> QED BY <1>2, <1>3 DEF Qr!closeAfterSuccess, Qr!handleOpenChange, Qr!refVars

(* A call starts when none of this session is under way.                   *)
LEMMA StartKeeps ==
    ASSUME QrInv, NEW s \in Slots, NEW manual \in BOOLEAN, Qr!StartCall(s, manual)
    PROVE  QrInv'
<1>1. /\ ~inFlight /\ session.open /\ session.trade = payment /\ payment # NoTrade
      /\ ~Busy(s) /\ current' = s /\ inFlight' = TRUE /\ refreshing' = TRUE
      /\ UNCHANGED <<order, credit, scan, confirm, dialog, payment, status, closing, session,
                     handled, get, shown, toasts, interrupted, faults>>
  BY CallIsTyped DEF Qr!StartCall, Qr!MayStart, QrInv, Qr!serverVars, Qr!historyVars
<1>2. payment \in Trades /\ Live(payment) /\ session.id \in Nat
  BY <1>1 DEF QrInv, SessionIsShown, Qr!QrTypeOK
<1>3. /\ call'[s] = [stage |-> "asked", trade |-> payment, session |-> session.id, manual |-> manual]
      /\ \A r \in Slots \ {s} : call'[r] = call[r]
      /\ call' \in [Slots -> Qr!CallRecords]
  <2>1. [stage |-> "asked", trade |-> payment, session |-> session.id, manual |-> manual]
            \in Qr!CallRecords
    BY <1>2 DEF Qr!CallRecords
  <2> QED BY <2>1 DEF Qr!StartCall, QrInv, Qr!QrTypeOK
<1>4. call'[s].stage = "asked" /\ call'[s].trade = payment /\ call'[s].session = session.id
  BY <1>3
<1>5. CallsAreTrue'
  <2>1. ASSUME NEW r \in Slots \ {s}, Busy(r)'
        PROVE  Busy(r) /\ call'[r] = call[r]
    BY <1>3, <2>1 DEF Busy
  <2>2. ~Qr!Handling(s)' /\ call'[s].stage # "answered"
    BY <1>4 DEF Qr!Handling
  <2> QED BY <1>1, <1>2, <1>3, <1>4, <2>1, <2>2
          DEF QrInv, CallsAreTrue, Qr!Handling, Live, Paid
<1>6. NumberedIsCurrent'
  <2>1. ASSUME NEW r \in Slots, Busy(r) PROVE ~Qr!isCurrentQrPaymentSession(call[r])
    BY <1>1, <2>1 DEF QrInv, NumberedIsCurrent
  <2>2. Qr!isCurrentQrPaymentSession(call[s])' /\ Busy(s)'
    BY <1>1, <1>4 DEF Qr!isCurrentQrPaymentSession, Busy
  <2>3. ASSUME NEW r \in Slots, Busy(r)', Qr!isCurrentQrPaymentSession(call[r])' PROVE r = s
    BY <1>1, <1>3, <2>1, <2>3 DEF Busy, Qr!isCurrentQrPaymentSession
  <2> QED BY <1>1, <2>2, <2>3 DEF NumberedIsCurrent
<1>7. SuccessIsHandledOnce'
  <2>1. ASSUME NEW r \in Slots, Qr!Handling(r)'
        PROVE  Qr!Handling(r) /\ call'[r] = call[r]
    BY <1>3, <1>4, <2>1 DEF Qr!Handling
  <2> QED BY <1>1, <2>1
          DEF QrInv, SuccessIsHandledOnce, Paid, Qr!isCurrentQrPaymentSession
<1>8. SessionIsShown' /\ ToldOrdersAreMade' /\ Qr!CreditedOnce'
  BY <1>1 DEF QrInv, SessionIsShown, ToldOrdersAreMade, Live, Qr!CreditedOnce
<1>9. Qr!QrTypeOK'
  BY <1>1, <1>3 DEF QrInv, Qr!QrTypeOK
<1> QED BY <1>5, <1>6, <1>7, <1>8, <1>9 DEF QrInv

(* Calls that go on, for the same order in the same session.               *)
LEMMA CallsGoOn ==
    ASSUME QrInv, UNCHANGED <<session, current, inFlight, refreshing>>,
           \A s \in Slots : /\ Busy(s)' <=> Busy(s)
                            /\ Busy(s) => /\ call'[s].trade = call[s].trade
                                          /\ call'[s].session = call[s].session
    PROVE  /\ NumberedIsCurrent'
           /\ \A s \in Slots : Busy(s) => (Qr!isCurrentQrPaymentSession(call[s])'
                                             <=> Qr!isCurrentQrPaymentSession(call[s]))
<1>1. \A s \in Slots : Busy(s) => (Qr!isCurrentQrPaymentSession(call[s])'
                                     <=> Qr!isCurrentQrPaymentSession(call[s]))
  BY DEF Qr!isCurrentQrPaymentSession
<1> QED BY <1>1 DEF QrInv, NumberedIsCurrent

(* The server tells a call how its order stands.                           *)
LEMMA AnswersKeep ==
    ASSUME QrInv, NEW s \in Slots, Qr!ServerAnswers(s) PROVE QrInv'
<1>1. /\ call[s].stage = "asked" /\ Busy(s)
      /\ UNCHANGED <<order, credit, scan, confirm, dialog, payment, status, refreshing, closing,
                     session, inFlight, current, handled, get, shown, toasts, interrupted>>
  BY DEF Qr!ServerAnswers, Busy, Qr!serverVars, Qr!pageVars, Qr!refVars, Qr!historyVars
<1>2. call[s].trade \in Trades /\ call[s].session \in Nat /\ call[s].manual \in BOOLEAN
      /\ Live(call[s].trade)
  BY <1>1, CallIsTyped, CallShape DEF QrInv, CallsAreTrue
<1>3. faults' \in 0 .. MaxFaults
  BY FaultsCounted DEF Qr!ServerAnswers, QrInv
<1>4. PICK st \in {"none", order[call[s].trade]} :
          call' = [call EXCEPT ![s] = [stage |-> "answered", trade |-> call[s].trade,
                      session |-> call[s].session, manual |-> call[s].manual, status |-> st]]
  BY DEF Qr!ServerAnswers
<1>5. st \in {"none", "pending", "success", "reversed"} /\ (st = "success" => Paid(call[s].trade))
  BY <1>2 DEF Live, Paid
<1>6. /\ call' \in [Slots -> Qr!CallRecords]
      /\ call'[s].stage = "answered" /\ call'[s].trade = call[s].trade
      /\ call'[s].session = call[s].session /\ call'[s].status = st
      /\ \A r \in Slots \ {s} : call'[r] = call[r]
  <2>1. [stage |-> "answered", trade |-> call[s].trade, session |-> call[s].session,
         manual |-> call[s].manual, status |-> st] \in Qr!CallRecords
    BY <1>2, <1>5, CallsMade DEF Qr!OrderStatuses
  <2> QED BY <1>4, <2>1 DEF QrInv, Qr!QrTypeOK
<1>7. \A r \in Slots : /\ Busy(r)' <=> Busy(r)
                       /\ Busy(r) => call'[r].trade = call[r].trade /\ call'[r].session = call[r].session
                       /\ Qr!Handling(r)' => Qr!Handling(r) /\ Busy(r)
  BY <1>1, <1>6 DEF Busy, Qr!Handling
<1>8. CallsAreTrue'
  <2>1. ASSUME NEW r \in Slots, Busy(r)'
        PROVE  /\ Live(call[r].trade)' /\ call'[r].session <= session'.id
               /\ call'[r].stage = "answered" =>
                     /\ call'[r].status \in {"none", "pending", "success", "reversed"}
                     /\ call'[r].status = "success" => Paid(call[r].trade)'
               /\ Qr!Handling(r)' => Paid(call[r].trade)'
    <3>1. CASE r = s
      BY <1>1, <1>2, <1>5, <1>6, <1>7, <3>1 DEF QrInv, CallsAreTrue, Qr!Handling, Live, Paid
    <3>2. CASE r # s
      BY <1>1, <1>6, <1>7, <2>1, <3>2 DEF QrInv, CallsAreTrue, Qr!Handling, Live, Paid
    <3> QED BY <3>1, <3>2
  <2> QED BY <2>1 DEF CallsAreTrue
<1>9. /\ NumberedIsCurrent'
      /\ \A r \in Slots : Busy(r) => (Qr!isCurrentQrPaymentSession(call[r])'
                                        <=> Qr!isCurrentQrPaymentSession(call[r]))
  BY <1>1, <1>7, CallsGoOn
<1>10. SuccessIsHandledOnce'
  BY <1>1, <1>7, <1>9 DEF QrInv, SuccessIsHandledOnce, Paid
<1>11. SessionIsShown' /\ ToldOrdersAreMade' /\ Qr!CreditedOnce'
  BY <1>1 DEF QrInv, SessionIsShown, ToldOrdersAreMade, Live, Qr!CreditedOnce
<1>12. Qr!QrTypeOK'
  BY <1>1, <1>3, <1>6 DEF QrInv, Qr!QrTypeOK
<1> QED BY <1>8, <1>9, <1>10, <1>11, <1>12 DEF QrInv

(* The finally block lowers the flags of the call the number names, which  *)
(* is the only one of this session.                                        *)
LEMMA CallEndsKeeps ==
    ASSUME QrInv, NEW s \in Slots, Busy(s), Qr!CallEnds(s), UNCHANGED order
    PROVE  /\ CallsAreTrue' /\ NumberedIsCurrent'
           /\ call' \in [Slots -> Qr!CallRecords]
           /\ UNCHANGED <<session, current>>
           /\ inFlight' \in BOOLEAN /\ refreshing' \in BOOLEAN
           /\ \A r \in Slots : Busy(r)' => r # s /\ Busy(r) /\ call'[r] = call[r]
<1>0. refreshing = inFlight /\ inFlight \in BOOLEAN
  BY DEF QrInv, NumberedIsCurrent, Qr!QrTypeOK
<1>1. /\ call' = [call EXCEPT ![s] = Qr!Idle] /\ UNCHANGED <<session, current>>
      /\ call' \in [Slots -> Qr!CallRecords]
  BY DEF Qr!CallEnds, QrInv, Qr!QrTypeOK, Qr!CallRecords
<1>2. \A r \in Slots : Busy(r)' => r # s /\ Busy(r) /\ call'[r] = call[r]
  BY <1>1 DEF Busy, Qr!Idle, QrInv, Qr!QrTypeOK
<1>3. \A r \in Slots : r # s /\ Busy(r) => Busy(r)'
  BY <1>1 DEF Busy, QrInv, Qr!QrTypeOK
<1>4. CallsAreTrue'
  BY <1>1, <1>2 DEF QrInv, CallsAreTrue, Qr!Handling, Live, Paid
<1>5. CASE current = s
  <2>1. inFlight' = FALSE /\ refreshing' = FALSE
    <3>1. Qr!isCurrentQrPaymentSession(call[s])
      BY <1>5 DEF QrInv, NumberedIsCurrent
    <3> QED BY <1>5, <3>1 DEF Qr!CallEnds
  <2>2. ASSUME NEW r \in Slots, Busy(r)' PROVE ~Qr!isCurrentQrPaymentSession(call[r])' /\ r # current'
    BY <1>1, <1>2, <1>5, <2>2 DEF QrInv, NumberedIsCurrent, Qr!isCurrentQrPaymentSession
  <2> QED BY <1>1, <1>2, <1>4, <2>1, <2>2 DEF NumberedIsCurrent
<1>6. CASE current # s
  <2>1. UNCHANGED <<inFlight, refreshing>>
    BY <1>6 DEF Qr!CallEnds
  <2>2. inFlight' => current' \in Slots /\ Busy(current)'
    <3>1. ASSUME inFlight PROVE current \in Slots /\ Busy(current)
      BY <3>1 DEF QrInv, NumberedIsCurrent
    <3> QED BY <1>1, <1>3, <1>6, <2>1, <3>1 DEF Busy
  <2>3. ASSUME NEW r \in Slots, Busy(r)'
        PROVE  /\ Qr!isCurrentQrPaymentSession(call[r])' => r = current'
               /\ r = current' => inFlight' /\ Qr!isCurrentQrPaymentSession(call[r])'
    BY <1>1, <1>2, <2>1, <2>3 DEF QrInv, NumberedIsCurrent, Qr!isCurrentQrPaymentSession
  <2>4. NumberedIsCurrent'
    BY <1>0, <2>1, <2>2, <2>3 DEF NumberedIsCurrent
  <2> QED BY <1>0, <1>1, <1>2, <1>4, <2>1, <2>4
<1> QED BY <1>5, <1>6

(* A call ends without a success of its own to tell: nothing is handled    *)
(* that was not before, and a status shown as success belongs to an order  *)
(* that was paid.                                                          *)
LEMMA EndKeepsHandling ==
    ASSUME QrInv, NEW s \in Slots, UNCHANGED <<order, session, dialog, payment, handled, toasts, interrupted>>,
           \A r \in Slots : Busy(r)' => r # s /\ Busy(r) /\ call'[r] = call[r],
           dialog /\ status' = "success" => status = "success" \/ Paid(payment)
    PROVE  SuccessIsHandledOnce'
<1>1. ASSUME NEW r \in Slots, Qr!Handling(r)'
      PROVE  Qr!Handling(r) /\ call'[r] = call[r]
  BY <1>1 DEF Qr!Handling, Busy
<1> QED BY <1>1 DEF QrInv, SuccessIsHandledOnce, Paid, Qr!isCurrentQrPaymentSession

(* The answer reaches the call: of a session that is over, of no use, as a *)
(* status, or as a success to be handled.                                  *)
LEMMA PollKeeps ==
    ASSUME QrInv, NEW s \in Slots, Qr!PollReply(s) PROVE QrInv'
<1>1. /\ call[s].stage = "answered" /\ Busy(s)
      /\ UNCHANGED <<order, credit, scan, confirm, dialog, payment, closing, handled, shown,
                     toasts, interrupted, faults>>
  BY DEF Qr!PollReply, Busy, Qr!serverVars, Qr!historyVars
<1>2. /\ call[s].trade \in Trades /\ call[s].session \in Nat /\ Live(call[s].trade)
      /\ call[s].status \in {"none", "pending", "success", "reversed"}
      /\ call[s].status = "success" => Paid(call[s].trade)
  BY <1>1, CallIsTyped DEF QrInv, CallsAreTrue
<1>3. session' = session => SessionIsShown' /\ ToldOrdersAreMade' /\ Qr!CreditedOnce'
  BY <1>1 DEF QrInv, SessionIsShown, ToldOrdersAreMade, Live, Qr!CreditedOnce
<1>4. get' \in Gets
  BY JoinIsTyped DEF Qr!PollReply, QrInv
<1>5. Qr!isCurrentQrPaymentSession(call[s]) => dialog /\ payment = call[s].trade
  BY DEF QrInv, SessionIsShown, Qr!isCurrentQrPaymentSession
<1>6. CASE /\ Qr!CallEnds(s)
           /\ \/ UNCHANGED status
              \/ /\ Qr!isCurrentQrPaymentSession(call[s]) /\ call[s].status # "none"
                 /\ status' = call[s].status
  <2>1. /\ CallsAreTrue' /\ NumberedIsCurrent'
        /\ call' \in [Slots -> Qr!CallRecords]
        /\ UNCHANGED <<session, current>>
        /\ inFlight' \in BOOLEAN /\ refreshing' \in BOOLEAN
        /\ \A r \in Slots : Busy(r)' => r # s /\ Busy(r) /\ call'[r] = call[r]
    BY <1>1, <1>6, CallEndsKeeps
  <2>2. status' \in {"pending", "success", "reversed"}
        /\ (dialog /\ status' = "success" => status = "success" \/ Paid(payment))
    BY <1>2, <1>5, <1>6 DEF QrInv, Qr!QrTypeOK
  <2>3. SuccessIsHandledOnce'
    BY <1>1, <2>1, <2>2, EndKeepsHandling
  <2>4. Qr!QrTypeOK'
    BY <1>1, <1>4, <2>1, <2>2 DEF QrInv, Qr!QrTypeOK, Gets
  <2> QED BY <1>3, <2>1, <2>3, <2>4 DEF QrInv
<1>7. CASE /\ Qr!isCurrentQrPaymentSession(call[s]) /\ call[s].status = "success"
           /\ handled # call[s].trade
           /\ call' = [call EXCEPT ![s] = [stage |-> "refresh", trade |-> call[s].trade,
                                           session |-> call[s].session]]
           /\ UNCHANGED <<session, current, inFlight, refreshing, status>>
  <2>1. /\ call' \in [Slots -> Qr!CallRecords]
        /\ call'[s].stage = "refresh" /\ call'[s].trade = call[s].trade
        /\ call'[s].session = call[s].session
        /\ \A r \in Slots \ {s} : call'[r] = call[r]
    <3>1. [stage |-> "refresh", trade |-> call[s].trade, session |-> call[s].session]
              \in Qr!CallRecords
      BY <1>2, CallsMade
    <3> QED BY <1>7, <3>1 DEF QrInv, Qr!QrTypeOK
  <2>2. \A r \in Slots : /\ Busy(r)' <=> Busy(r)
                         /\ Busy(r) => call'[r].trade = call[r].trade /\ call'[r].session = call[r].session
                         /\ Qr!Handling(r)' => Busy(r) /\ (r = s \/ Qr!Handling(r))
    BY <1>1, <2>1 DEF Busy, Qr!Handling
  <2>3. CallsAreTrue'
    <3>1. ASSUME NEW r \in Slots, Busy(r)'
          PROVE  /\ Live(call[r].trade)' /\ call'[r].session <= session'.id
                 /\ call'[r].stage = "answered" =>
                       /\ call'[r].status \in {"none", "pending", "success", "reversed"}
                       /\ call'[r].status = "success" => Paid(call[r].trade)'
                 /\ Qr!Handling(r)' => Paid(call[r].trade)'
      <4>1. CASE r = s
        BY <1>1, <1>2, <1>7, <2>1, <2>2, <4>1 DEF QrInv, CallsAreTrue, Qr!Handling, Live, Paid
      <4>2. CASE r # s
        BY <1>1, <1>7, <2>1, <2>2, <3>1, <4>2 DEF QrInv, CallsAreTrue, Qr!Handling, Live, Paid
      <4> QED BY <4>1, <4>2
    <3> QED BY <3>1 DEF CallsAreTrue
  <2>4. /\ NumberedIsCurrent'
        /\ \A r \in Slots : Busy(r) => (Qr!isCurrentQrPaymentSession(call[r])'
                                          <=> Qr!isCurrentQrPaymentSession(call[r]))
    BY <1>7, <2>2, CallsGoOn
  <2>5. ~interrupted => toasts[call[s].trade] = 0
    BY <1>7 DEF QrInv, SuccessIsHandledOnce, Qr!isCurrentQrPaymentSession
  <2>6. SuccessIsHandledOnce'
    BY <1>1, <1>7, <2>2, <2>4, <2>5 DEF QrInv, SuccessIsHandledOnce, Paid
  <2>7. Qr!QrTypeOK'
    BY <1>1, <1>4, <1>7, <2>1 DEF QrInv, Qr!QrTypeOK, Gets
  <2> QED BY <1>3, <1>7, <2>3, <2>4, <2>6, <2>7 DEF QrInv
<1> QED BY <1>6, <1>7 DEF Qr!PollReply

(* The account is shown again, for everyone who waits for it.              *)
LEMMA SelfReplyKeeps ==
    ASSUME QrInv, Qr!SelfReply PROVE QrInv'
<1>1. PICK ok \in BOOLEAN :
          /\ Qr!NoFault \/ Qr!Fault
          /\ shown' = IF ok THEN get.balance ELSE shown
          /\ call' = [s \in Slots |->
                        IF call[s].stage # "refresh" THEN call[s]
                        ELSE [stage |-> "refreshed", trade |-> call[s].trade,
                              session |-> call[s].session, ok |-> ok]]
  BY DEF Qr!SelfReply
<1>2. /\ get.stage = "answered" /\ get' = Qr!NoGet
      /\ closing' \in {closing, "ready"}
      /\ UNCHANGED <<order, credit, scan, confirm, dialog, payment, status, refreshing, session,
                     inFlight, current, handled, toasts, interrupted>>
  BY DEF Qr!SelfReply, Qr!serverVars, Qr!refVars, Qr!historyVars
<1>3. faults' \in 0 .. MaxFaults
  BY <1>1, FaultsCounted DEF QrInv
<1>4. shown' \subseteq Trades
  <2>1. get.balance \subseteq Trades
    BY <1>2 DEF QrInv, Qr!QrTypeOK, Qr!NoGet
  <2> QED BY <1>1, <2>1 DEF QrInv, Qr!QrTypeOK
<1>5. ASSUME NEW s \in Slots
      PROVE  /\ call'[s] \in Qr!CallRecords
             /\ call[s].stage # "refresh" => call'[s] = call[s]
             /\ call[s].stage = "refresh" =>
                   /\ call'[s].stage = "refreshed" /\ call'[s].trade = call[s].trade
                   /\ call'[s].session = call[s].session
  <2>1. CASE call[s].stage # "refresh"
    BY <1>1, <2>1, CallIsTyped DEF QrInv
  <2>2. CASE call[s].stage = "refresh"
    <3>1. call[s].trade \in Trades /\ call[s].session \in Nat
      BY <2>2, CallIsTyped DEF QrInv, Busy
    <3>2. call'[s] = [stage |-> "refreshed", trade |-> call[s].trade,
                      session |-> call[s].session, ok |-> ok]
      BY <1>1, <2>2
    <3>3. call'[s] \in Qr!CallRecords
      BY <3>1, <3>2, CallsMade DEF Qr!OrderStatuses
    <3> QED BY <2>2, <3>2, <3>3
  <2> QED BY <2>1, <2>2
<1>6. call' \in [Slots -> Qr!CallRecords]
  BY <1>1, <1>5
<1>7. \A r \in Slots : /\ Busy(r)' <=> Busy(r)
                       /\ Busy(r) => call'[r].trade = call[r].trade /\ call'[r].session = call[r].session
                       /\ Qr!Handling(r)' <=> Qr!Handling(r)
                       /\ call'[r].stage = "answered" => call'[r] = call[r]
                       /\ Qr!Handling(r) => Busy(r)
  BY <1>5 DEF Busy, Qr!Handling
<1>8. CallsAreTrue'
  BY <1>2, <1>7 DEF QrInv, CallsAreTrue, Live, Paid
<1>9. /\ NumberedIsCurrent'
      /\ \A r \in Slots : Busy(r) => (Qr!isCurrentQrPaymentSession(call[r])'
                                        <=> Qr!isCurrentQrPaymentSession(call[r]))
  BY <1>2, <1>7, CallsGoOn
<1>10. SuccessIsHandledOnce'
  BY <1>2, <1>7, <1>9 DEF QrInv, SuccessIsHandledOnce, Paid
<1>11. SessionIsShown' /\ ToldOrdersAreMade' /\ Qr!CreditedOnce'
  BY <1>2 DEF QrInv, SessionIsShown, ToldOrdersAreMade, Live, Qr!CreditedOnce
<1>12. Qr!QrTypeOK'
  BY <1>2, <1>3, <1>4, <1>6 DEF QrInv, Qr!QrTypeOK
<1> QED BY <1>8, <1>9, <1>10, <1>11, <1>12 DEF QrInv

(* The success is told.  Unless a session ended meanwhile, the call is of  *)
(* the order on display, and nobody else handles that.                     *)
LEMMA RefreshDoneKeeps ==
    ASSUME QrInv, NEW s \in Slots, Qr!RefreshDone(s) PROVE QrInv'
<1>1. /\ call[s].stage = "refreshed" /\ Busy(s) /\ Qr!Handling(s) /\ Qr!CallEnds(s)
      /\ UNCHANGED <<order, credit, scan, confirm, dialog, payment, closing, get, shown, interrupted>>
  BY DEF Qr!RefreshDone, Busy, Qr!Handling, Qr!serverVars
<1>2. call[s].trade \in Trades /\ Paid(call[s].trade)
  BY <1>1, CallIsTyped DEF QrInv, CallsAreTrue
<1>3. /\ CallsAreTrue' /\ NumberedIsCurrent'
      /\ call' \in [Slots -> Qr!CallRecords]
      /\ UNCHANGED <<session, current>>
      /\ inFlight' \in BOOLEAN /\ refreshing' \in BOOLEAN
      /\ \A r \in Slots : Busy(r)' => r # s /\ Busy(r) /\ call'[r] = call[r]
  BY <1>1, CallEndsKeeps
<1>4. faults' \in 0 .. MaxFaults
  BY FaultsCounted DEF Qr!RefreshDone, QrInv
<1>5. SessionIsShown' /\ Qr!CreditedOnce'
  BY <1>1, <1>3 DEF QrInv, SessionIsShown, Live, Qr!CreditedOnce
<1>6. CASE status' = "pending" /\ UNCHANGED <<handled, toasts>>
  <2>1. SuccessIsHandledOnce'
    BY <1>1, <1>3, <1>6, EndKeepsHandling
  <2>2. ToldOrdersAreMade'
    BY <1>1, <1>6 DEF QrInv, ToldOrdersAreMade
  <2>3. Qr!QrTypeOK'
    BY <1>1, <1>3, <1>4, <1>6 DEF QrInv, Qr!QrTypeOK
  <2> QED BY <1>3, <1>5, <2>1, <2>2, <2>3 DEF QrInv
<1>7. CASE /\ handled' = call[s].trade /\ status' = "success"
           /\ toasts' = [toasts EXCEPT ![call[s].trade] = @ + 1]
  <2>0. toasts \in [Trades -> Nat]
    BY DEF QrInv, Qr!QrTypeOK
  <2>1. Qr!QrTypeOK'
    BY <1>1, <1>2, <1>3, <1>4, <1>7 DEF QrInv, Qr!QrTypeOK
  <2>2. ASSUME ~interrupted
        PROVE  /\ Qr!isCurrentQrPaymentSession(call[s]) /\ toasts[call[s].trade] = 0
               /\ dialog /\ payment = call[s].trade /\ session.trade = call[s].trade /\ session.open
               /\ confirm # call[s].trade
    BY <1>1, <2>2 DEF QrInv, SuccessIsHandledOnce, SessionIsShown, Qr!isCurrentQrPaymentSession
  <2>3. ASSUME ~interrupted, NEW r \in Slots PROVE ~Qr!Handling(r)'
    <3>1. SUFFICES ASSUME Qr!Handling(r)' PROVE FALSE
      OBVIOUS
    <3>2. r # s /\ Busy(r) /\ call'[r] = call[r]
      BY <1>3, <3>1 DEF Qr!Handling, Busy
    <3>3. Qr!Handling(r)
      BY <3>1, <3>2 DEF Qr!Handling
    <3>4. Qr!isCurrentQrPaymentSession(call[r])
      BY <2>3, <3>3 DEF QrInv, SuccessIsHandledOnce
    <3>5. r = current /\ s = current
      BY <1>1, <2>2, <2>3, <3>2, <3>4 DEF QrInv, NumberedIsCurrent
    <3> QED BY <3>2, <3>5
  <2>4. ASSUME ~interrupted, NEW u \in Trades PROVE toasts'[u] <= 1
    BY <1>2, <1>7, <2>0, <2>2, <2>4 DEF QrInv, SuccessIsHandledOnce
  <2>5. SuccessIsHandledOnce'
    BY <1>1, <1>2, <1>3, <1>7, <2>2, <2>3, <2>4 DEF SuccessIsHandledOnce, Paid
  <2>6. ToldOrdersAreMade'
    <3>1. order[call[s].trade] # "absent"
      BY <1>2 DEF Paid
    <3> QED BY <1>1, <1>2, <1>7, <2>0, <2>2, <3>1 DEF QrInv, ToldOrdersAreMade
  <2> QED BY <1>3, <1>5, <2>1, <2>5, <2>6 DEF QrInv
<1> QED BY <1>6, <1>7 DEF Qr!RefreshDone

(* Every step of the dialog and its server.                                *)
LEMMA QrKeeps ==
    ASSUME QrInv, [Qr!Next]_qrVars PROVE QrInv'
<1>1. CASE UNCHANGED qrVars
  <2>1. CallsAreTrue' /\ NumberedIsCurrent' /\ SuccessIsHandledOnce'
    BY <1>1, PageUntouched DEF qrVars, Live, Paid
  <2>2. SessionIsShown' /\ ToldOrdersAreMade' /\ Qr!CreditedOnce'
    BY <1>1 DEF qrVars, QrInv, SessionIsShown, ToldOrdersAreMade, Live, Qr!CreditedOnce
  <2>3. Qr!QrTypeOK'
    BY <1>1 DEF qrVars, QrInv, Qr!QrTypeOK
  <2> QED BY <2>1, <2>2, <2>3 DEF QrInv
<1>2. ASSUME NEW t \in Trades,
             Qr!ServerStep(t) \/ Qr!Pay(t) \/ Qr!handlePaymentConfirm(t) \/ Qr!PaymentConfirmed(t)
      PROVE  QrInv'
  BY <1>2, ServerKeeps, ConfirmKeeps, ConfirmedKeeps
<1>3. ASSUME NEW s \in Slots, Qr!Tick(s) \/ Qr!refresh(s) PROVE QrInv'
  BY <1>3, StartKeeps DEF Qr!Tick, Qr!refresh
<1>4. ASSUME NEW s \in Slots, Qr!CallStep(s) PROVE QrInv'
  BY <1>4, AnswersKeep, PollKeeps, RefreshDoneKeeps DEF Qr!CallStep
<1>5. CASE Qr!SelfAnswers \/ Qr!SelfReply \/ Qr!handleOpenChange \/ Qr!closeAfterSuccess
  BY <1>5, SelfAnswersKeeps, SelfReplyKeeps, CloseKeeps
<1> QED BY <1>1, <1>2, <1>3, <1>4, <1>5 DEF Qr!Next

LEMMA QrStep ==
    ASSUME [ClientNext]_<<part, vars, chatVars, qrVars, shellVars, settingsVars>>
    PROVE  [Qr!Next]_qrVars
BY DEF ClientNext, qrVars

(* The properties of the dialog follow.                                    *)
LEMMA QrInvSuffices == QrInv => QrDialogIsTrue
<1> SUFFICES ASSUME QrInv PROVE QrDialogIsTrue
  OBVIOUS
<1>1. \A s \in Slots : Qr!Current(s) <=> Busy(s) /\ Qr!isCurrentQrPaymentSession(call[s])
  BY CallIsTyped DEF QrInv, Qr!Current
<1>2. Qr!OneCallAtATime
  BY <1>1 DEF QrInv, NumberedIsCurrent, Qr!OneCallAtATime
<1>3. Qr!SuccessIsOfThisOrderUnlessInterrupted /\ Qr!ToldOnce
  BY DEF QrInv, SuccessIsHandledOnce, Paid, Qr!SuccessIsOfThisOrderUnlessInterrupted,
         Qr!SuccessIsOfThisOrder, Qr!ToldOnce
<1> QED BY <1>2, <1>3 DEF QrInv, QrDialogIsTrue

(* Whatever WeChat repeats, whoever completes or reverses an order, and    *)
(* however the calls of several dialogs overlap, the wallet holds a credit *)
(* once, one call at a time runs for the order on display, and a payment   *)
(* is shown and told only of an order that was paid, and once, unless a    *)
(* dialog was closed while its success was being handled                   *)
(* (use-qr-payment-status-polling.ts), for any number of orders and calls. *)
THEOREM DialogIsTrue == ClientSpec => []QrDialogIsTrue
<1>1. ClientInit => QrInv
  BY QrStarts DEF ClientInit
<1>2. QrInv /\ [ClientNext]_<<part, vars, chatVars, qrVars, shellVars, settingsVars>> => QrInv'
  BY QrStep, QrKeeps
<1> QED BY <1>1, <1>2, QrInvSuffices, PTL DEF ClientSpec

(***************************************************************************)
(* The playground                                                          *)
(***************************************************************************)

Texts == SUBSET (Streams \cup {"typed", "error"})

Message ==
    [from : {"user"}, of : Streams, status : {"none"}, text : {{"typed"}}]
    \cup [from : {"assistant"}, of : Streams,
          status : {"loading", "streaming", "complete", "error"}, text : Texts]

ChatTypes ==
    /\ messages \in Seq(Message)
    /\ editing \in {NoKey} \cup [from : {"user", "assistant"}, of : Streams]
    /\ source \in Streams \cup {NoStream} /\ complete \in BOOLEAN
    /\ sse \in [Streams -> {"unused", "open", "closed"}]
    /\ ended \in [Streams -> {"no", "done", "failed", "cut", "stopped", "reloaded"}]
    /\ overlapped \in BOOLEAN /\ reloads \in 0 .. MaxReloads

(* An answer holds text of its own request, and says how that has ended.   *)
AnswerIsTrue(m) ==
    m.from = "assistant" =>
        /\ m.text \cap Streams \subseteq {m.of}
        /\ ended[m.of] = "failed" => m.status = "error"
        /\ m.status = "complete" => ended[m.of] \in {"done", "stopped", "cut", "reloaded"}
        /\ m.status = "error" => ended[m.of] \in {"failed", "reloaded"}

(* The answer of the stream that is held, and an answer that looks         *)
(* unfinished, is the last message.                                        *)
MessageIsTrue(i) ==
    /\ sse[messages[i].of] # "unused" /\ AnswerIsTrue(messages[i])
    /\ messages[i].from = "assistant" /\ messages[i].of = source => i = Len(messages)
    /\ Chat!isLoading(messages[i]) => i = Len(messages) /\ source = messages[i].of

(* An open stream is the one that is held, and neither it nor the flag it  *)
(* shares has come to an end.                                              *)
StreamsAreTrue ==
    \A r \in Streams : /\ sse[r] = "unused" => ended[r] = "no"
                       /\ sse[r] = "open" => source = r /\ ended[r] = "no" /\ ~complete

(* The stream that is held is open or was cut, and its answer is the last  *)
(* message and unfinished.                                                 *)
SourceIsTrue ==
    source # NoStream =>
        /\ messages # <<>> /\ messages[Len(messages)].from = "assistant"
        /\ messages[Len(messages)].of = source /\ Chat!isLoading(messages[Len(messages)])
        /\ sse[source] = "open" \/ (sse[source] = "closed" /\ ended[source] = "cut")

ChatTrue == StreamsAreTrue /\ SourceIsTrue /\ \A i \in 1 .. Len(messages) : MessageIsTrue(i)

ChatInv == ChatTypes /\ (overlapped \/ ChatTrue)

(* The sequences the page makes of its messages.                           *)
LEMMA CutAndAppend ==
    ASSUME NEW S, NEW s \in Seq(S), NEW i \in 0 .. Len(s), NEW e \in S,
           NEW t, t = Append(SubSeq(s, 1, i), e)
    PROVE  /\ t \in Seq(S) /\ Len(t) = i + 1 /\ t[i + 1] = e
           /\ \A k \in 1 .. i : t[k] = s[k]
<1>1. SubSeq(s, 1, i) \in Seq(S) /\ Len(SubSeq(s, 1, i)) = i
      /\ \A k \in 1 .. i : SubSeq(s, 1, i)[k] = s[k]
  BY SMT
<1> QED BY <1>1

LEMMA TwoAppended ==
    ASSUME NEW S, NEW s \in Seq(S), NEW d \in S, NEW e \in S, NEW t, t = s \o <<d, e>>
    PROVE  /\ t \in Seq(S) /\ Len(t) = Len(s) + 2
           /\ t[Len(s) + 1] = d /\ t[Len(s) + 2] = e
           /\ \A k \in 1 .. Len(s) : t[k] = s[k]
OBVIOUS

LEMMA OneRemoved ==
    ASSUME NEW S, NEW s \in Seq(S), NEW i \in 1 .. Len(s)
    PROVE  /\ Chat!RemoveAt(s, i) \in Seq(S) /\ Len(Chat!RemoveAt(s, i)) = Len(s) - 1
           /\ \A k \in 1 .. Len(s) - 1 : \E j \in 1 .. Len(s) : Chat!RemoveAt(s, i)[k] = s[j]
<1> DEFINE t == Chat!RemoveAt(s, i)
           a == SubSeq(s, 1, i - 1)
           b == SubSeq(s, i + 1, Len(s))
<1>1. a \in Seq(S) /\ Len(a) = i - 1 /\ \A k \in 1 .. i - 1 : a[k] = s[k]
  OBVIOUS
<1>2. b \in Seq(S) /\ Len(b) = Len(s) - i /\ \A k \in 1 .. Len(s) - i : b[k] = s[i + k]
  OBVIOUS
<1>3. t = a \o b
  BY DEF Chat!RemoveAt, t
<1> HIDE DEF a, b, t
<1>4. t \in Seq(S) /\ Len(t) = Len(s) - 1
  <2>1. t \in Seq(S) /\ Len(t) = Len(a) + Len(b)
    BY <1>1, <1>2, <1>3, ConcatProperties
  <2>2. Len(s) \in Nat /\ i \in Nat
    OBVIOUS
  <2> QED BY <1>1, <1>2, <2>1, <2>2
<1>5. \A k \in 1 .. i - 1 : t[k] = s[k]
  BY <1>1, <1>2, <1>3
<1>6. \A k \in i .. Len(s) - 1 : t[k] = s[k + 1]
  BY <1>1, <1>2, <1>3
<1>7. \A k \in 1 .. Len(s) - 1 : \E j \in 1 .. Len(s) : t[k] = s[j]
  BY <1>5, <1>6
<1> QED BY <1>4, <1>7 DEF t

LEMMA MessageShape ==
    ASSUME NEW m \in Message
    PROVE  /\ m.of \in Streams /\ m.from \in {"user", "assistant"}
           /\ m.from = "user" => m.text = {"typed"} /\ m.status = "none"
           /\ m.from = "assistant" =>
                 m.text \in Texts /\ m.status \in {"loading", "streaming", "complete", "error"}
           /\ Chat!isLoading(m) => m.from = "assistant"
           /\ Chat!key(m) \in [from : {"user", "assistant"}, of : Streams]
BY DEF Message, Chat!isLoading, Chat!key

LEMMA NewMessages ==
    ASSUME NEW r \in Streams
    PROVE  /\ Chat!createUserMessage(r) \in Message
           /\ Chat!createLoadingAssistantMessage(r) \in Message
           /\ Chat!createUserMessage(r).from = "user" /\ Chat!createUserMessage(r).of = r
           /\ Chat!createLoadingAssistantMessage(r).from = "assistant"
           /\ Chat!createLoadingAssistantMessage(r).of = r
           /\ Chat!createLoadingAssistantMessage(r).status = "loading"
           /\ Chat!createLoadingAssistantMessage(r).text = {}
BY DEF Message, Texts, Chat!createUserMessage, Chat!createLoadingAssistantMessage

LEMMA MessagesTyped ==
    ASSUME ChatTypes, NEW i \in 1 .. Len(messages) PROVE messages[i] \in Message
BY DEF ChatTypes

LEMMA ChatStarts == Chat!Init => ChatInv
<1> SUFFICES ASSUME Chat!Init PROVE ChatInv
  OBVIOUS
<1>1. messages = <<>> /\ messages \in Seq(Message) /\ Len(messages) = 0
  BY DEF Chat!Init
<1>2. /\ sse \in [Streams -> {"unused", "open", "closed"}]
      /\ ended \in [Streams -> {"no", "done", "failed", "cut", "stopped", "reloaded"}]
      /\ \A r \in Streams : sse[r] = "unused" /\ ended[r] = "no"
  BY DEF Chat!Init
<1>3. complete \in BOOLEAN /\ overlapped \in BOOLEAN
  BY DEF Chat!Init
<1>4. source = NoStream /\ editing = NoKey /\ reloads = 0
  BY DEF Chat!Init
<1>5. ChatTypes
  BY <1>1, <1>2, <1>3, <1>4, ClientAssumption DEF ChatTypes
<1>6. ChatTrue
  BY <1>1, <1>2, <1>4 DEF ChatTrue, StreamsAreTrue, SourceIsTrue
<1> QED BY <1>5, <1>6 DEF ChatInv

(* Nothing on the page looks unfinished while no stream is held.           *)
LEMMA QuietPage ==
    ASSUME ChatTypes, ChatTrue, source = NoStream
    PROVE  /\ \A i \in 1 .. Len(messages) : ~Chat!isLoading(messages[i])
           /\ \A r \in Streams : sse[r] # "open"
<1>1. NoStream \notin Streams
  BY ClientAssumption
<1>2. \A i \in 1 .. Len(messages) : messages[i].of \in Streams
  BY MessagesTyped, MessageShape
<1> QED BY <1>1, <1>2 DEF ChatTrue, StreamsAreTrue, MessageIsTrue

(* What a message becomes when the user edits it.                          *)
Retyped(old, new) ==
    /\ new.from = old.from /\ new.of = old.of /\ new.status = old.status
    /\ new.text \subseteq old.text \cup {"typed"}

(* A request is sent: its answer is the last message, the messages before  *)
(* it are ones that were there, perhaps edited, and the user's own.        *)
LEMMA SendKeeps ==
    ASSUME ChatInv, NEW r \in Streams, NEW new \in Seq(Message), Chat!sendChat(r, new),
           Len(new) > 0, new[Len(new)] = Chat!createLoadingAssistantMessage(r),
           \A k \in 1 .. Len(new) - 1 :
              \/ new[k].from = "user" /\ new[k].of = r
              \/ \E i \in 1 .. Len(messages) : Retyped(messages[i], new[k]),
           editing' \in {NoKey} \cup [from : {"user", "assistant"}, of : Streams]
    PROVE  ChatInv'
<1>1. /\ messages' = new /\ sse[r] = "unused" /\ sse' = [sse EXCEPT ![r] = "open"]
      /\ source' = r /\ complete' = FALSE /\ UNCHANGED <<ended, reloads>>
      /\ overlapped' = (overlapped \/ source # NoStream)
  BY DEF Chat!sendChat, Chat!sendStreamRequest, Chat!isGenerating
<1>2. ChatTypes'
  <2>1. sse' \in [Streams -> {"unused", "open", "closed"}] /\ complete' \in BOOLEAN
    BY <1>1 DEF ChatInv, ChatTypes
  <2>2. overlapped' \in BOOLEAN
    BY <1>1 DEF ChatInv, ChatTypes
  <2> QED BY <1>1, <2>1, <2>2 DEF ChatInv, ChatTypes
<1>3. SUFFICES ASSUME ~overlapped' PROVE ChatTrue'
  BY <1>2 DEF ChatInv
<1>4. ~overlapped /\ source = NoStream /\ ChatTrue /\ ChatTypes
  BY <1>1, <1>3 DEF ChatInv
<1>5. /\ \A i \in 1 .. Len(messages) : ~Chat!isLoading(messages[i]) /\ MessageIsTrue(i)
      /\ \A q \in Streams : sse[q] # "open"
  BY <1>4, QuietPage DEF ChatTrue
<1>6. /\ sse'[r] = "open" /\ \A q \in Streams \ {r} : sse'[q] = sse[q]
      /\ ended[r] = "no"
  BY <1>1, <1>4 DEF ChatTypes, ChatTrue, StreamsAreTrue
<1>7. /\ new[Len(new)].from = "assistant" /\ new[Len(new)].of = r
      /\ new[Len(new)].status = "loading" /\ new[Len(new)].text = {}
  BY NewMessages
<1>8. StreamsAreTrue'
  BY <1>1, <1>4, <1>5, <1>6 DEF ChatTrue, StreamsAreTrue
<1>9. SourceIsTrue'
  BY <1>1, <1>6, <1>7 DEF SourceIsTrue, Chat!isLoading
<1>10. ASSUME NEW k \in 1 .. Len(new) PROVE MessageIsTrue(k)'
  <2>0. new[k] \in Message
    OBVIOUS
  <2>1. CASE k = Len(new)
    BY <1>1, <1>6, <1>7, <2>1 DEF MessageIsTrue, AnswerIsTrue, Chat!isLoading
  <2>2. CASE new[k].from = "user" /\ new[k].of = r
    <3>1. ~Chat!isLoading(new[k])
      BY <2>0, <2>2, MessageShape
    <3> QED BY <1>1, <1>6, <2>2, <3>1 DEF MessageIsTrue, AnswerIsTrue, Chat!isLoading
  <2>3. ASSUME NEW i \in 1 .. Len(messages), Retyped(messages[i], new[k]) PROVE MessageIsTrue(k)'
    <3>1. messages[i].of \in Streams /\ messages[i].of # r
      BY <1>1, <1>4, <1>5, MessagesTyped, MessageShape DEF MessageIsTrue
    <3>2. ~Chat!isLoading(new[k])
      BY <1>5, <2>3 DEF Retyped, Chat!isLoading
    <3>3. AnswerIsTrue(new[k])'
      <4>1. AnswerIsTrue(messages[i])
        BY <1>5 DEF MessageIsTrue
      <4>2. ended' = ended
        BY <1>1
      <4>3. new[k].text \cap Streams \subseteq messages[i].text \cap Streams
        BY <2>3, ClientAssumption DEF Retyped
      <4> QED BY <2>3, <4>1, <4>2, <4>3 DEF AnswerIsTrue, Retyped
    <3>4. sse'[new[k].of] # "unused" /\ new[k].of # r
      BY <1>5, <1>6, <2>3, <3>1 DEF MessageIsTrue, Retyped
    <3> QED BY <1>1, <3>2, <3>3, <3>4 DEF MessageIsTrue, Chat!isLoading
  <2> QED BY <2>1, <2>2, <2>3
<1> QED BY <1>1, <1>8, <1>9, <1>10 DEF ChatTrue

(* The page as its messages show it, when only edits change them.          *)
LEMMA EditKeeps ==
    ASSUME ChatInv, NEW new \in Seq(Message), messages' = new, Len(new) = Len(messages),
           \A i \in 1 .. Len(messages) : Retyped(messages[i], new[i]),
           UNCHANGED <<source, complete, sse, ended, overlapped, reloads>>,
           editing' \in {NoKey} \cup [from : {"user", "assistant"}, of : Streams]
    PROVE  ChatInv'
<1>1. ChatTypes'
  BY DEF ChatInv, ChatTypes
<1>2. SUFFICES ASSUME ~overlapped PROVE ChatTrue'
  BY <1>1 DEF ChatInv
<1>3. ChatTrue
  BY <1>2 DEF ChatInv
<1>4. StreamsAreTrue'
  BY <1>3 DEF ChatTrue, StreamsAreTrue
<1>5. SourceIsTrue'
  <2>1. Len(messages) \in Nat /\ (messages # <<>> => Len(messages) > 0)
        /\ (Len(new) > 0 => new # <<>>)
    BY DEF ChatInv, ChatTypes
  <2>2. Len(messages) > 0 => Retyped(messages[Len(messages)], new[Len(new)])
    BY <2>1
  <2> QED BY <1>3, <2>1, <2>2 DEF ChatTrue, SourceIsTrue, Retyped, Chat!isLoading
<1>6. ASSUME NEW i \in 1 .. Len(messages) PROVE MessageIsTrue(i)'
  <2>1. Retyped(messages[i], messages'[i]) /\ MessageIsTrue(i)
    BY <1>3 DEF ChatTrue
  <2>2. AnswerIsTrue(messages[i])'
    BY <2>1, ClientAssumption DEF MessageIsTrue, AnswerIsTrue, Retyped
  <2> QED BY <2>1, <2>2 DEF MessageIsTrue, Retyped, Chat!isLoading
<1> QED BY <1>4, <1>5, <1>6 DEF ChatTrue

LEMMA SubmitKeeps ==
    ASSUME ChatInv, NEW r \in Streams, Chat!handleSendMessage(r) PROVE ChatInv'
<1> DEFINE new == messages \o <<Chat!createUserMessage(r), Chat!createLoadingAssistantMessage(r)>>
<1>0. messages \in Seq(Message) /\ Len(messages) \in Nat
  BY DEF ChatInv, ChatTypes
<1>1. Chat!sendChat(r, new) /\ editing' = editing
  BY DEF Chat!handleSendMessage
<1>2. /\ new \in Seq(Message) /\ Len(new) = Len(messages) + 2
      /\ new[Len(messages) + 1] = Chat!createUserMessage(r)
      /\ new[Len(messages) + 2] = Chat!createLoadingAssistantMessage(r)
      /\ \A k \in 1 .. Len(messages) : new[k] = messages[k]
  BY <1>0, NewMessages, TwoAppended
<1> HIDE DEF new
<1>3. ASSUME NEW k \in 1 .. Len(new) - 1
      PROVE  \/ new[k].from = "user" /\ new[k].of = r
             \/ \E i \in 1 .. Len(messages) : Retyped(messages[i], new[k])
  <2>1. CASE k = Len(messages) + 1
    BY <1>2, <2>1, NewMessages
  <2>2. CASE k \in 1 .. Len(messages)
    BY <1>2, <2>2 DEF Retyped
  <2> QED BY <1>0, <1>2, <2>1, <2>2
<1>4. editing' \in {NoKey} \cup [from : {"user", "assistant"}, of : Streams]
  BY <1>1 DEF ChatInv, ChatTypes
<1> QED BY <1>0, <1>1, <1>2, <1>3, <1>4, SendKeeps

LEMMA RegenerateKeeps ==
    ASSUME ChatInv, NEW r \in Streams, NEW i \in DOMAIN messages,
           Chat!handleRegenerateMessage(i, r)
    PROVE  ChatInv'
<1> DEFINE new == Append(SubSeq(messages, 1, i - 1), Chat!createLoadingAssistantMessage(r))
<1>0. messages \in Seq(Message) /\ Len(messages) \in Nat /\ i \in 1 .. Len(messages)
      /\ i - 1 \in 0 .. Len(messages)
  BY DEF ChatInv, ChatTypes
<1>1. Chat!sendChat(r, new) /\ editing' = editing
  BY DEF Chat!handleRegenerateMessage
<1>2. /\ new \in Seq(Message) /\ Len(new) = i
      /\ new[i] = Chat!createLoadingAssistantMessage(r)
      /\ \A k \in 1 .. i - 1 : new[k] = messages[k]
  <2>1. /\ new \in Seq(Message) /\ Len(new) = (i - 1) + 1
        /\ new[(i - 1) + 1] = Chat!createLoadingAssistantMessage(r)
        /\ \A k \in 1 .. i - 1 : new[k] = messages[k]
    BY <1>0, NewMessages, CutAndAppend
  <2> HIDE DEF new
  <2> QED BY <1>0, <2>1
<1> HIDE DEF new
<1>3. ASSUME NEW k \in 1 .. Len(new) - 1
      PROVE  \E j \in 1 .. Len(messages) : Retyped(messages[j], new[k])
  <2>1. k \in 1 .. Len(messages) /\ new[k] = messages[k]
    BY <1>0, <1>2
  <2> QED BY <2>1 DEF Retyped
<1>4. editing' \in {NoKey} \cup [from : {"user", "assistant"}, of : Streams]
  BY <1>1 DEF ChatInv, ChatTypes
<1> QED BY <1>0, <1>1, <1>2, <1>3, <1>4, SendKeeps

(* An edited message keeps what it was.                                    *)
LEMMA EditedMessages ==
    ASSUME ChatTypes, NEW i \in 1 .. Len(messages), NEW updated,
           updated = [messages EXCEPT ![i].text = @ \cup {"typed"}]
    PROVE  /\ updated \in Seq(Message) /\ Len(updated) = Len(messages)
           /\ \A k \in 1 .. Len(messages) : Retyped(messages[k], updated[k])
<1> DEFINE u == [messages[i] EXCEPT !.text = @ \cup {"typed"}]
<1>0. messages \in Seq(Message) /\ messages[i] \in Message
  BY DEF ChatTypes
<1>1. u \in Message /\ Retyped(messages[i], u)
  <2>1. CASE messages[i].from = "user"
    BY <1>0, <2>1 DEF Message, Retyped
  <2>2. CASE messages[i].from = "assistant"
    BY <1>0, <2>2 DEF Message, Retyped, Texts
  <2> QED BY <1>0, <2>1, <2>2, MessageShape
<1>2. updated = [messages EXCEPT ![i] = u]
  BY <1>0
<1> HIDE DEF u
<1>3. updated \in Seq(Message) /\ Len(updated) = Len(messages)
      /\ updated[i] = u /\ \A k \in 1 .. Len(messages) : k # i => updated[k] = messages[k]
  BY <1>0, <1>1, <1>2
<1> QED BY <1>1, <1>3 DEF Retyped

LEMMA ApplyEditKeeps ==
    ASSUME ChatInv, NEW r \in Streams, NEW i \in DOMAIN messages, Chat!applyEdit(i, r)
    PROVE  ChatInv'
<1> DEFINE updated == [messages EXCEPT ![i].text = @ \cup {"typed"}]
           new == Append(SubSeq(updated, 1, i), Chat!createLoadingAssistantMessage(r))
<1>0. messages \in Seq(Message) /\ Len(messages) \in Nat /\ i \in 1 .. Len(messages) /\ ChatTypes
  BY DEF ChatInv, ChatTypes
<1>1. /\ updated \in Seq(Message) /\ Len(updated) = Len(messages)
      /\ \A k \in 1 .. Len(messages) : Retyped(messages[k], updated[k])
  BY <1>0, EditedMessages
<1>2. /\ editing' = NoKey
      /\ \/ messages' = updated /\ UNCHANGED <<source, complete, sse, ended, overlapped, reloads>>
         \/ Chat!sendChat(r, new)
  BY DEF Chat!applyEdit
<1>3. /\ new \in Seq(Message) /\ Len(new) = i + 1
      /\ new[i + 1] = Chat!createLoadingAssistantMessage(r)
      /\ \A k \in 1 .. i : new[k] = updated[k]
  <2> HIDE DEF updated
  <2>1. i \in 0 .. Len(updated)
    BY <1>0, <1>1
  <2> QED BY <1>1, <2>1, NewMessages, CutAndAppend
<1> HIDE DEF updated, new
<1>4. CASE messages' = updated /\ UNCHANGED <<source, complete, sse, ended, overlapped, reloads>>
  BY <1>1, <1>2, <1>4, EditKeeps
<1>5. CASE Chat!sendChat(r, new)
  <2>1. ASSUME NEW k \in 1 .. Len(new) - 1
        PROVE  \E j \in 1 .. Len(messages) : Retyped(messages[j], new[k])
    <3>1. k \in 1 .. Len(messages) /\ k \in 1 .. i
      BY <1>0, <1>3
    <3> QED BY <1>1, <1>3, <3>1
  <2>2. Len(new) > 0 /\ new[Len(new)] = Chat!createLoadingAssistantMessage(r)
    BY <1>0, <1>3
  <2> QED BY <1>2, <1>3, <1>5, <2>1, <2>2, SendKeeps
<1> QED BY <1>2, <1>4, <1>5

LEMMA EditorKeeps ==
    ASSUME ChatInv,
           Chat!handleEditOpenChange \/ \E i \in DOMAIN messages : Chat!handleEditMessage(i)
    PROVE  ChatInv'
<1>0. messages \in Seq(Message)
  BY DEF ChatInv, ChatTypes
<1>1. /\ UNCHANGED <<messages, source, complete, sse, ended, overlapped, reloads>>
      /\ editing' \in {NoKey} \cup [from : {"user", "assistant"}, of : Streams]
  <2>1. CASE Chat!handleEditOpenChange
    BY <2>1 DEF Chat!handleEditOpenChange
  <2>2. ASSUME NEW i \in DOMAIN messages, Chat!handleEditMessage(i)
        PROVE  /\ UNCHANGED <<messages, source, complete, sse, ended, overlapped, reloads>>
               /\ editing' \in {NoKey} \cup [from : {"user", "assistant"}, of : Streams]
    <3>1. messages[i] \in Message
      BY <1>0
    <3> QED BY <2>2, <3>1, MessageShape DEF Chat!handleEditMessage
  <2> QED BY <2>1, <2>2
<1>2. \A i \in 1 .. Len(messages) : Retyped(messages[i], messages[i])
  BY DEF Retyped
<1> QED BY <1>0, <1>1, <1>2, EditKeeps

(* A message is deleted while nothing is being generated.                  *)
LEMMA DeleteKeeps ==
    ASSUME ChatInv, NEW i \in DOMAIN messages, Chat!handleDeleteMessage(i) PROVE ChatInv'
<1>0. messages \in Seq(Message) /\ i \in 1 .. Len(messages)
  BY DEF ChatInv, ChatTypes
<1>1. /\ source = NoStream /\ messages' = Chat!RemoveAt(messages, i)
      /\ UNCHANGED <<editing, source, complete, sse, ended, overlapped, reloads>>
  BY DEF Chat!handleDeleteMessage, Chat!isGenerating
<1>2. /\ messages' \in Seq(Message)
      /\ \A k \in 1 .. Len(messages') : \E j \in 1 .. Len(messages) : messages'[k] = messages[j]
  <2>1. /\ messages' \in Seq(Message) /\ Len(messages') = Len(messages) - 1
        /\ \A k \in 1 .. Len(messages) - 1 : \E j \in 1 .. Len(messages) : messages'[k] = messages[j]
    BY <1>0, <1>1, OneRemoved
  <2> QED BY <2>1
<1>3. ChatTypes'
  BY <1>1, <1>2 DEF ChatInv, ChatTypes
<1>4. SUFFICES ASSUME ~overlapped PROVE ChatTrue'
  BY <1>1, <1>3 DEF ChatInv
<1>5. ChatTrue /\ ChatTypes
  BY <1>4 DEF ChatInv
<1>6. StreamsAreTrue' /\ SourceIsTrue'
  BY <1>1, <1>5 DEF ChatTrue, StreamsAreTrue, SourceIsTrue
<1>7. ASSUME NEW k \in 1 .. Len(messages') PROVE MessageIsTrue(k)'
  <2>1. PICK j \in 1 .. Len(messages) : messages'[k] = messages[j]
    BY <1>2
  <2>2. MessageIsTrue(j) /\ ~Chat!isLoading(messages[j]) /\ messages[j].of # source
    BY <1>1, <1>5, QuietPage, MessagesTyped, MessageShape, ClientAssumption DEF ChatTrue
  <2> QED BY <1>1, <2>1, <2>2 DEF MessageIsTrue, AnswerIsTrue, Chat!isLoading
<1> QED BY <1>6, <1>7 DEF ChatTrue

(* A callback writes the last message, which is an answer, or nothing.     *)
LEMMA CallbackWrites ==
    ASSUME ChatTypes, NEW u, Chat!updateLastAssistantMessage(u),
           messages # <<>> /\ messages[Len(messages)].from = "assistant" => u \in Message
    PROVE  messages' \in Seq(Message)
<1>0. messages \in Seq(Message)
  BY DEF ChatTypes
<1>1. CASE messages # <<>> /\ messages[Len(messages)].from = "assistant"
  <2>1. messages' = [messages EXCEPT ![Len(messages)] = u] /\ u \in Message
    BY <1>1 DEF Chat!updateLastAssistantMessage, Chat!Last
  <2>2. Len(messages) \in 1 .. Len(messages)
    BY <1>0, <1>1
  <2> QED BY <1>0, <2>1, <2>2
<1>2. CASE ~(messages # <<>> /\ messages[Len(messages)].from = "assistant")
  <2>1. messages' = messages
    BY <1>2 DEF Chat!updateLastAssistantMessage, Chat!Last
  <2> QED BY <1>0, <2>1
<1> QED BY <1>1, <1>2

(* The answer of the stream that is held becomes u: the request goes on,   *)
(* was cut, or came to its end and is let go.                              *)
LEMMA AnswerMoves ==
    ASSUME ChatTypes, ChatTrue, NEW r \in Streams, source = r,
           NEW u \in Message, Chat!updateLastAssistantMessage(u),
           u.from = "assistant", u.of = r, u.text \cap Streams \subseteq {r},
           ended'[r] = "failed" => u.status = "error",
           u.status = "complete" => ended'[r] \in {"done", "stopped", "cut", "reloaded"},
           u.status = "error" => ended'[r] \in {"failed", "reloaded"},
           \A q \in Streams \ {r} : sse'[q] = sse[q] /\ ended'[q] = ended[q],
           \/ source' = r /\ Chat!isLoading(u) /\ sse'[r] = "open" /\ ended'[r] = "no" /\ ~complete'
           \/ source' = r /\ Chat!isLoading(u) /\ sse'[r] = "closed" /\ ended'[r] = "cut"
           \/ source' = NoStream /\ ~Chat!isLoading(u) /\ sse'[r] = "closed"
    PROVE  ChatTrue'
<1> DEFINE n == Len(messages)
<1>0. NoStream \notin Streams /\ messages \in Seq(Message) /\ n \in Nat
  BY ClientAssumption DEF ChatTypes
<1>1. messages # <<>> /\ messages[n].from = "assistant" /\ messages[n].of = r
  BY <1>0 DEF ChatTrue, SourceIsTrue
<1>2. messages' = [messages EXCEPT ![n] = u]
  BY <1>1 DEF Chat!updateLastAssistantMessage, Chat!Last
<1>3. /\ n \in 1 .. n /\ messages' \in Seq(Message) /\ Len(messages') = n
      /\ messages'[n] = u /\ \A i \in 1 .. n : i # n => messages'[i] = messages[i]
      /\ messages' # <<>>
  BY <1>0, <1>1, <1>2
<1> HIDE DEF n
<1>4. StreamsAreTrue'
  <2>1. \A q \in Streams \ {r} : sse[q] # "open"
    BY DEF ChatTrue, StreamsAreTrue
  <2> QED BY <2>1 DEF ChatTrue, StreamsAreTrue
<1>5. SourceIsTrue'
  BY <1>3 DEF SourceIsTrue, Chat!isLoading
<1>6. ASSUME NEW i \in 1 .. n PROVE MessageIsTrue(i)'
  <2>1. CASE i = n
    BY <1>0, <1>3, <2>1 DEF MessageIsTrue, AnswerIsTrue, Chat!isLoading
  <2>2. CASE i # n
    <3>1. messages'[i] = messages[i] /\ messages[i] \in Message /\ messages[i].of \in Streams
      BY <1>0, <1>3, <2>2, MessagesTyped, MessageShape DEF n
    <3>2. MessageIsTrue(i) /\ ~Chat!isLoading(messages[i])
          /\ (messages[i].from = "assistant" => messages[i].of # r)
      BY <2>2 DEF ChatTrue, MessageIsTrue, n
    <3>3. sse'[messages[i].of] # "unused"
      BY <3>1, <3>2 DEF MessageIsTrue
    <3>4. AnswerIsTrue(messages[i])'
      BY <3>1, <3>2 DEF MessageIsTrue, AnswerIsTrue
    <3> QED BY <1>0, <3>1, <3>2, <3>3, <3>4 DEF MessageIsTrue, Chat!isLoading
  <2> QED BY <2>1, <2>2
<1> QED BY <1>3, <1>4, <1>5, <1>6 DEF ChatTrue

(* The answer of the stream that is held.                                  *)
LEMMA HeldAnswer ==
    ASSUME ChatTypes, ChatTrue, NEW r \in Streams, source = r
    PROVE  /\ Len(messages) \in 1 .. Len(messages) /\ Chat!Last(messages) \in Message
           /\ Chat!Last(messages).from = "assistant" /\ Chat!Last(messages).of = r
           /\ Chat!isLoading(Chat!Last(messages))
           /\ Chat!Last(messages).text \cap Streams \subseteq {r}
<1>1. NoStream \notin Streams /\ messages \in Seq(Message)
  BY ClientAssumption DEF ChatTypes
<1>2. messages # <<>> /\ messages[Len(messages)].from = "assistant"
      /\ messages[Len(messages)].of = r /\ Chat!isLoading(messages[Len(messages)])
  BY <1>1 DEF ChatTrue, SourceIsTrue
<1>3. Len(messages) \in 1 .. Len(messages)
  BY <1>1, <1>2
<1>4. AnswerIsTrue(messages[Len(messages)]) /\ messages[Len(messages)] \in Message
  BY <1>1, <1>3 DEF ChatTrue, MessageIsTrue
<1> QED BY <1>2, <1>3, <1>4 DEF AnswerIsTrue, Chat!Last

LEMMA LastTyped ==
    ASSUME ChatTypes, messages # <<>> PROVE Chat!Last(messages) \in Message
BY DEF ChatTypes, Chat!Last

(* What a callback makes of an answer.                                     *)
LEMMA AnswerBecomes ==
    ASSUME NEW m \in Message, m.from = "assistant", NEW r \in Streams
    PROVE  LET s == [m EXCEPT !.status = "streaming", !.text = @ \cup {r}]
               e == [m EXCEPT !.status = "error", !.text = @ \cup {"error"}]
               c == [m EXCEPT !.status = "complete"]
           IN  /\ s \in Message /\ s.from = "assistant" /\ s.of = m.of
               /\ s.status = "streaming" /\ s.text = m.text \cup {r}
               /\ e \in Message /\ e.from = "assistant" /\ e.of = m.of
               /\ e.status = "error" /\ e.text = m.text \cup {"error"}
               /\ c \in Message /\ c.from = "assistant" /\ c.of = m.of
               /\ c.status = "complete" /\ c.text = m.text
BY DEF Message, Texts

LEMMA StopKeeps == ASSUME ChatInv, Chat!stopGeneration PROVE ChatInv'
<1> DEFINE m == Chat!Last(messages)
           u == IF Chat!isLoading(m) THEN [m EXCEPT !.status = "complete"] ELSE m
<1>0. ChatTypes /\ source \in Streams
  BY DEF ChatInv, ChatTypes, Chat!stopGeneration, Chat!isGenerating
<1>1. /\ Chat!updateLastAssistantMessage(u)
      /\ UNCHANGED <<editing, overlapped, reloads, complete>> /\ source' = NoStream
      /\ sse' = [sse EXCEPT ![source] = "closed"]
      /\ ended' = [ended EXCEPT ![source] = IF @ = "no" THEN "stopped" ELSE @]
  BY DEF Chat!stopGeneration, Chat!stopStream, Chat!pageVars
<1>2. messages # <<>> /\ m.from = "assistant" => m \in Message /\ u \in Message
  BY <1>0, LastTyped, AnswerBecomes
<1>3. messages' \in Seq(Message)
  <2> HIDE DEF u
  <2> QED BY <1>0, <1>1, <1>2, CallbackWrites DEF Chat!Last
<1>4. /\ sse' \in [Streams -> {"unused", "open", "closed"}] /\ sse'[source] = "closed"
      /\ ended' \in [Streams -> {"no", "done", "failed", "cut", "stopped", "reloaded"}]
      /\ ended'[source] = (IF ended[source] = "no" THEN "stopped" ELSE ended[source])
      /\ \A q \in Streams \ {source} : sse'[q] = sse[q] /\ ended'[q] = ended[q]
  BY <1>0, <1>1 DEF ChatTypes
<1>5. ChatTypes'
  BY <1>0, <1>1, <1>3, <1>4 DEF ChatTypes
<1>6. SUFFICES ASSUME ~overlapped PROVE ChatTrue'
  BY <1>1, <1>5 DEF ChatInv
<1>7. ChatTrue
  BY <1>6 DEF ChatInv
<1>8. /\ m \in Message /\ m.from = "assistant" /\ m.of = source /\ Chat!isLoading(m)
      /\ m.text \cap Streams \subseteq {source}
  BY <1>0, <1>7, HeldAnswer
<1>9. /\ u \in Message /\ u.from = "assistant" /\ u.of = source
      /\ u.status = "complete" /\ u.text \cap Streams \subseteq {source}
  <2> HIDE DEF m
  <2> QED BY <1>0, <1>8, AnswerBecomes
<1>10. ended'[source] \in {"stopped", "cut"}
  BY <1>0, <1>4, <1>7, ClientAssumption DEF ChatTrue, StreamsAreTrue, SourceIsTrue
<1> HIDE DEF u, m
<1>11. ~Chat!isLoading(u)
  BY <1>9 DEF Chat!isLoading
<1> QED BY <1>0, <1>1, <1>4, <1>7, <1>9, <1>10, <1>11, AnswerMoves

(* An event of a stream that is open.                                      *)
LEMMA EventTypes ==
    ASSUME ChatInv, NEW r \in Streams, messages' \in Seq(Message),
           sse' = sse \/ sse' = [sse EXCEPT ![r] = "closed"],
           ended' = ended \/ \E how \in {"done", "failed", "cut"} : Chat!Ends(r, how),
           source' \in {source, NoStream}, complete' \in BOOLEAN,
           UNCHANGED Chat!pageVars
    PROVE  ChatTypes'
<1>1. sse' \in [Streams -> {"unused", "open", "closed"}]
  BY DEF ChatInv, ChatTypes
<1>2. ended' \in [Streams -> {"no", "done", "failed", "cut", "stopped", "reloaded"}]
  BY DEF ChatInv, ChatTypes, Chat!Ends
<1> QED BY <1>1, <1>2 DEF ChatInv, ChatTypes, Chat!pageVars

LEMMA OpenStream ==
    ASSUME ChatInv, ~overlapped, NEW r \in Streams, sse[r] = "open"
    PROVE  /\ ChatTypes /\ ChatTrue /\ source = r /\ ~complete /\ ended[r] = "no"
           /\ messages # <<>> /\ Chat!Last(messages) \in Message
           /\ Chat!Last(messages).from = "assistant" /\ Chat!Last(messages).of = r
           /\ Chat!Last(messages).status \in {"loading", "streaming"}
           /\ Chat!Last(messages).text \cap Streams \subseteq {r}
<1>1. ChatTypes /\ ChatTrue /\ source = r /\ ~complete /\ ended[r] = "no"
  BY DEF ChatInv, ChatTrue, StreamsAreTrue
<1>2. messages # <<>>
  BY <1>1, ClientAssumption DEF ChatTrue, SourceIsTrue
<1> QED BY <1>1, <1>2, HeldAnswer DEF Chat!isLoading

LEMMA ChunkKeeps == ASSUME ChatInv, NEW r \in Streams, Chat!onChunk(r) PROVE ChatInv'
<1> DEFINE m == Chat!Last(messages)
           s == [m EXCEPT !.status = "streaming", !.text = @ \cup {r}]
           u == IF m.status = "error" THEN m ELSE s
<1>0. ChatTypes /\ sse[r] = "open"
  BY DEF ChatInv, Chat!onChunk
<1>1. /\ Chat!updateLastAssistantMessage(u)
      /\ UNCHANGED Chat!pageVars /\ UNCHANGED <<source, complete, sse, ended>>
  BY DEF Chat!onChunk, Chat!handleStreamUpdate
<1>2. messages # <<>> /\ m.from = "assistant" => u \in Message
  BY <1>0, LastTyped, AnswerBecomes
<1>3. messages' \in Seq(Message)
  <2> HIDE DEF u
  <2> QED BY <1>0, <1>1, <1>2, CallbackWrites DEF Chat!Last
<1>4. ChatTypes'
  <2>1. complete' \in BOOLEAN
    BY <1>0, <1>1 DEF ChatTypes
  <2> QED BY <1>1, <1>3, <2>1, EventTypes
<1>5. SUFFICES ASSUME ~overlapped PROVE ChatTrue'
  BY <1>1, <1>4 DEF ChatInv, Chat!pageVars
<1>6. /\ ChatTypes /\ ChatTrue /\ source = r /\ ~complete /\ ended[r] = "no"
      /\ m \in Message /\ m.from = "assistant" /\ m.of = r
      /\ m.status \in {"loading", "streaming"} /\ m.text \cap Streams \subseteq {r}
  BY <1>0, <1>5, OpenStream
<1>7. /\ u \in Message /\ u.from = "assistant" /\ u.of = r /\ u.status = "streaming"
      /\ u.text \cap Streams \subseteq {r}
  <2> HIDE DEF m
  <2>1. u = s
    BY <1>6
  <2>2. s \in Message /\ s.from = "assistant" /\ s.of = r /\ s.status = "streaming"
        /\ s.text = m.text \cup {r}
    BY <1>6 DEF Message, Texts
  <2> HIDE DEF s, u
  <2>3. s.text \cap Streams \subseteq {r}
    BY <1>6, <2>2
  <2> QED BY <2>1, <2>2, <2>3
<1> HIDE DEF u, m
<1>8. Chat!isLoading(u)
  BY <1>7 DEF Chat!isLoading
<1> QED BY <1>0, <1>1, <1>6, <1>7, <1>8, AnswerMoves

LEMMA DoneKeeps == ASSUME ChatInv, NEW r \in Streams, Chat!onDone(r) PROVE ChatInv'
<1> DEFINE m == Chat!Last(messages)
           c == [m EXCEPT !.status = "complete"]
           u == IF m.status \in {"complete", "error"} THEN m ELSE c
<1>0. ChatTypes /\ sse[r] = "open"
  BY DEF ChatInv, Chat!onDone
<1>1. /\ Chat!updateLastAssistantMessage(u) /\ UNCHANGED Chat!pageVars
      /\ source' = NoStream /\ complete' = TRUE
      /\ sse' = [sse EXCEPT ![r] = "closed"] /\ Chat!Ends(r, "done")
  BY DEF Chat!onDone, Chat!handleStreamComplete, Chat!closeSource
<1>2. messages # <<>> /\ m.from = "assistant" => u \in Message
  BY <1>0, LastTyped, AnswerBecomes
<1>3. messages' \in Seq(Message)
  <2> HIDE DEF u
  <2> QED BY <1>0, <1>1, <1>2, CallbackWrites DEF Chat!Last
<1>4. ChatTypes'
  BY <1>1, <1>3, EventTypes
<1>5. SUFFICES ASSUME ~overlapped PROVE ChatTrue'
  BY <1>1, <1>4 DEF ChatInv, Chat!pageVars
<1>6. /\ ChatTypes /\ ChatTrue /\ source = r /\ ~complete /\ ended[r] = "no"
      /\ m \in Message /\ m.from = "assistant" /\ m.of = r
      /\ m.status \in {"loading", "streaming"} /\ m.text \cap Streams \subseteq {r}
  BY <1>0, <1>5, OpenStream
<1>7. /\ u \in Message /\ u.from = "assistant" /\ u.of = r /\ u.status = "complete"
      /\ u.text \cap Streams \subseteq {r}
  <2> HIDE DEF m
  <2>1. u = c
    BY <1>6
  <2>2. c \in Message /\ c.from = "assistant" /\ c.of = r /\ c.status = "complete"
        /\ c.text = m.text
    BY <1>6, AnswerBecomes
  <2> HIDE DEF c, u
  <2> QED BY <1>6, <2>1, <2>2
<1>8. /\ ended'[r] = "done" /\ sse'[r] = "closed"
      /\ \A q \in Streams \ {r} : sse'[q] = sse[q] /\ ended'[q] = ended[q]
  BY <1>1, <1>6 DEF ChatTypes, Chat!Ends
<1> HIDE DEF u, m
<1>9. ~Chat!isLoading(u)
  BY <1>7 DEF Chat!isLoading
<1> QED BY <1>0, <1>1, <1>6, <1>7, <1>8, <1>9, AnswerMoves

(* A request fails and its answer says so.                                 *)
LEMMA FailureKeeps ==
    ASSUME ChatInv, NEW r \in Streams, sse[r] = "open",
           Chat!updateAssistantMessageWithError, Chat!closeSource(r),
           Chat!Ends(r, "failed"), UNCHANGED Chat!pageVars, UNCHANGED complete
    PROVE  ChatInv'
<1> DEFINE m == Chat!Last(messages)
           u == [m EXCEPT !.status = "error", !.text = @ \cup {"error"}]
<1>1. /\ Chat!updateLastAssistantMessage(u) /\ source' = NoStream /\ ChatTypes
      /\ sse' = [sse EXCEPT ![r] = "closed"]
  BY DEF ChatInv, Chat!updateAssistantMessageWithError, Chat!closeSource
<1>2. messages # <<>> /\ m.from = "assistant" => u \in Message
  BY <1>1, LastTyped, AnswerBecomes
<1>3. messages' \in Seq(Message)
  <2> HIDE DEF u
  <2> QED BY <1>1, <1>2, CallbackWrites DEF Chat!Last
<1>4. ChatTypes'
  <2>1. complete' \in BOOLEAN
    BY <1>1 DEF ChatTypes
  <2> QED BY <1>1, <1>3, <2>1, EventTypes
<1>5. SUFFICES ASSUME ~overlapped PROVE ChatTrue'
  BY <1>1, <1>4 DEF ChatInv, Chat!pageVars
<1>6. /\ ChatTypes /\ ChatTrue /\ source = r /\ ~complete /\ ended[r] = "no"
      /\ m \in Message /\ m.from = "assistant" /\ m.of = r
      /\ m.status \in {"loading", "streaming"} /\ m.text \cap Streams \subseteq {r}
  BY <1>5, OpenStream
<1>7. /\ u \in Message /\ u.from = "assistant" /\ u.of = r /\ u.status = "error"
      /\ u.text \cap Streams \subseteq {r}
  <2> HIDE DEF m
  <2>1. u \in Message /\ u.from = "assistant" /\ u.of = r /\ u.status = "error"
        /\ u.text = m.text \cup {"error"}
    BY <1>6, AnswerBecomes
  <2> HIDE DEF u
  <2> QED BY <1>6, <2>1, ClientAssumption
<1>8. /\ ended'[r] = "failed" /\ sse'[r] = "closed"
      /\ \A q \in Streams \ {r} : sse'[q] = sse[q] /\ ended'[q] = ended[q]
  BY <1>1, <1>6 DEF ChatTypes, Chat!Ends
<1> HIDE DEF u, m
<1>9. ~Chat!isLoading(u)
  BY <1>7 DEF Chat!isLoading
<1> QED BY <1>1, <1>6, <1>7, <1>8, <1>9, AnswerMoves

(* The connection fails after [DONE]: only where requests have overlapped. *)
LEMMA ErrorKeeps == ASSUME ChatInv, NEW r \in Streams, Chat!onError(r) PROVE ChatInv'
<1>1. CASE ~complete
  BY <1>1, FailureKeeps DEF Chat!onError
<1>2. CASE complete
  <2>1. /\ sse[r] = "open" /\ sse' = [sse EXCEPT ![r] = "closed"] /\ Chat!Ends(r, "failed")
        /\ UNCHANGED <<messages, source, complete>> /\ UNCHANGED Chat!pageVars
    BY <1>2 DEF Chat!onError
  <2>2. messages' \in Seq(Message) /\ complete' \in BOOLEAN
    BY <2>1 DEF ChatInv, ChatTypes
  <2>3. ChatTypes'
    BY <2>1, <2>2, EventTypes
  <2>4. overlapped
    BY <1>2, <2>1, OpenStream
  <2> QED BY <2>1, <2>3, <2>4 DEF ChatInv, Chat!pageVars
<1> QED BY <1>1, <1>2

LEMMA CutKeeps == ASSUME ChatInv, NEW r \in Streams, Chat!onCut(r) PROVE ChatInv'
<1> DEFINE u == Chat!Last(messages)
<1>1. /\ sse[r] = "open" /\ sse' = [sse EXCEPT ![r] = "closed"] /\ Chat!Ends(r, "cut")
      /\ UNCHANGED <<messages, source, complete>> /\ UNCHANGED Chat!pageVars
  BY DEF Chat!onCut
<1>2. messages' \in Seq(Message) /\ complete' \in BOOLEAN
  BY <1>1 DEF ChatInv, ChatTypes
<1>3. ChatTypes'
  BY <1>1, <1>2, EventTypes
<1>4. SUFFICES ASSUME ~overlapped PROVE ChatTrue'
  BY <1>1, <1>3 DEF ChatInv, Chat!pageVars
<1>5. /\ ChatTypes /\ ChatTrue /\ source = r /\ u \in Message /\ u.from = "assistant" /\ u.of = r
      /\ u.status \in {"loading", "streaming"} /\ u.text \cap Streams \subseteq {r}
  BY <1>1, <1>4, OpenStream
<1>6. Chat!updateLastAssistantMessage(u)
  <2>1. messages \in Seq(Message) /\ messages' = messages
    BY <1>1, <1>5 DEF ChatTypes
  <2>2. messages = [messages EXCEPT ![Len(messages)] = messages[Len(messages)]]
    BY <2>1
  <2> QED BY <2>1, <2>2 DEF Chat!updateLastAssistantMessage, Chat!Last
<1>7. /\ ended'[r] = "cut" /\ sse'[r] = "closed"
      /\ \A q \in Streams \ {r} : sse'[q] = sse[q] /\ ended'[q] = ended[q]
  BY <1>1, <1>5 DEF ChatTypes, Chat!Ends
<1> HIDE DEF u
<1>8. Chat!isLoading(u)
  BY <1>5 DEF Chat!isLoading
<1> QED BY <1>1, <1>5, <1>6, <1>7, <1>8, AnswerMoves

(* The last of some positions in a sequence is one of them.                *)
LEMMA LastPosition ==
    ASSUME NEW n \in Nat, NEW I, I \subseteq 1 .. n, I # {}
    PROVE  Chat!Max(I) \in I
<1> DEFINE T == {n - i : i \in I}
<1>1. T \subseteq Nat /\ T # {}
  OBVIOUS
<1>2. PICK x \in T : \A y \in T : ~(<<y, x>> \in OpToRel(<, Nat))
  BY <1>1, NatLessThanWellFounded, WFMin
<1>3. PICK i \in I : x = n - i
  OBVIOUS
<1>4. ASSUME NEW j \in I PROVE i >= j
  <2>1. ~(n - j < n - i)
    BY <1>1, <1>2, <1>3 DEF OpToRel
  <2> QED BY <2>1
<1>5. \E y \in I : \A j \in I : y >= j
  BY <1>4
<1> QED BY <1>5 DEF Chat!Max

LEMMA SettledAnswer ==
    ASSUME NEW m \in Message, m.from = "assistant"
    PROVE  /\ Chat!Settled(m) \in Message /\ Chat!Settled(m).from = "assistant"
           /\ Chat!Settled(m).of = m.of /\ Chat!Settled(m).status \in {"complete", "error"}
           /\ Chat!Settled(m).text \subseteq m.text \cup {"error"}
<1>1. CASE m.text # {}
  <2>1. Chat!Settled(m) = [m EXCEPT !.status = "complete", !.text = m.text]
    BY <1>1 DEF Chat!Settled
  <2> QED BY <2>1 DEF Message, Texts
<1>2. CASE m.text = {}
  <2>1. Chat!Settled(m) = [m EXCEPT !.status = "error", !.text = {"error"}]
    BY <1>2 DEF Chat!Settled
  <2> QED BY <2>1 DEF Message, Texts
<1> QED BY <1>1, <1>2

(* Loading settles one unfinished answer, the last one, if there is one.   *)
LEMMA LoadedMessages ==
    ASSUME ChatTypes
    PROVE  LET ms == Chat!sanitizeMessagesOnLoad(messages)
           IN  \/ ms = messages /\ \A i \in 1 .. Len(messages) : ~Chat!isLoading(messages[i])
               \/ \E i \in 1 .. Len(messages) :
                     /\ Chat!isLoading(messages[i])
                     /\ ms = [messages EXCEPT ![i] = Chat!Settled(messages[i])]
<1> DEFINE I == {i \in 1 .. Len(messages) : Chat!isLoading(messages[i])}
           target == IF I # {} THEN Chat!Max(I) ELSE 0
<1>0. Len(messages) \in Nat /\ messages \in Seq(Message)
  BY DEF ChatTypes
<1>1. Chat!sanitizeMessagesOnLoad(messages) =
        IF target = 0 THEN messages
        ELSE [messages EXCEPT ![target] = Chat!Settled(messages[target])]
  BY DEF Chat!sanitizeMessagesOnLoad, Chat!SelectLastInSeq
<1>2. CASE I = {}
  BY <1>1, <1>2
<1>3. CASE I # {}
  <2>1. Chat!Max(I) \in I
    <3> HIDE DEF I
    <3>1. I \subseteq 1 .. Len(messages)
      BY DEF I
    <3> QED BY <1>0, <1>3, <3>1, LastPosition
  <2>2. target \in 1 .. Len(messages) /\ Chat!isLoading(messages[target])
    BY <1>3, <2>1
  <2>3. target # 0
    BY <1>0, <2>2
  <2> HIDE DEF target
  <2> QED BY <1>1, <2>2, <2>3
<1> QED BY <1>2, <1>3

LEMMA LoadKeeps == ASSUME ChatInv, Chat!loadMessages PROVE ChatInv'
<1> DEFINE ms == Chat!sanitizeMessagesOnLoad(messages)
<1>0. ChatTypes /\ messages \in Seq(Message)
  BY DEF ChatInv, ChatTypes
<1>1. /\ messages' = ms /\ UNCHANGED overlapped /\ editing' = NoKey
      /\ source' = NoStream /\ complete' = FALSE
      /\ reloads < MaxReloads /\ reloads' = reloads + 1
      /\ sse' = [r \in Streams |-> IF sse[r] = "open" THEN "closed" ELSE sse[r]]
      /\ ended' = [r \in Streams |-> IF sse[r] = "open" \/ ended[r] = "cut" THEN "reloaded" ELSE ended[r]]
  BY DEF Chat!loadMessages
<1>2. \/ ms = messages /\ \A i \in 1 .. Len(messages) : ~Chat!isLoading(messages[i])
      \/ \E i \in 1 .. Len(messages) :
            /\ Chat!isLoading(messages[i])
            /\ ms = [messages EXCEPT ![i] = Chat!Settled(messages[i])]
  BY <1>0, LoadedMessages
<1> HIDE DEF ms
<1>3. ms \in Seq(Message)
  <2>1. ASSUME NEW i \in 1 .. Len(messages), Chat!isLoading(messages[i]),
               ms = [messages EXCEPT ![i] = Chat!Settled(messages[i])]
        PROVE  ms \in Seq(Message)
    <3>1. Chat!Settled(messages[i]) \in Message
      BY <1>0, <2>1, MessagesTyped, MessageShape, SettledAnswer
    <3> QED BY <1>0, <2>1, <3>1
  <2> QED BY <1>0, <1>2, <2>1
<1>4. /\ sse' \in [Streams -> {"unused", "open", "closed"}]
      /\ ended' \in [Streams -> {"no", "done", "failed", "cut", "stopped", "reloaded"}]
  <2>1. sse \in [Streams -> {"unused", "open", "closed"}]
        /\ ended \in [Streams -> {"no", "done", "failed", "cut", "stopped", "reloaded"}]
    BY <1>0 DEF ChatTypes
  <2> QED BY <1>1, <2>1
<1>5. reloads' \in 0 .. MaxReloads
  BY <1>0, <1>1, ClientAssumption DEF ChatTypes
<1>6. complete' \in BOOLEAN /\ overlapped' \in BOOLEAN
  BY <1>0, <1>1 DEF ChatTypes
<1>7. ChatTypes'
  BY <1>1, <1>3, <1>4, <1>5, <1>6 DEF ChatTypes
<1>8. SUFFICES ASSUME ~overlapped PROVE ChatTrue'
  BY <1>1, <1>7 DEF ChatInv
<1>9. ChatTrue
  BY <1>8 DEF ChatInv
<1>10. \A r \in Streams : /\ sse'[r] # "open" /\ (sse[r] # "unused" <=> sse'[r] # "unused")
                          /\ sse[r] = "unused" => ended'[r] = "no"
                          /\ \/ ended'[r] = ended[r]
                             \/ ended'[r] = "reloaded" /\ ended[r] \in {"no", "cut"}
  BY <1>0, <1>1, <1>9 DEF ChatTypes, ChatTrue, StreamsAreTrue
<1>11. StreamsAreTrue' /\ SourceIsTrue'
  BY <1>1, <1>10 DEF StreamsAreTrue, SourceIsTrue
<1>12. ASSUME NEW k \in 1 .. Len(messages), ms[k] = messages[k], ~Chat!isLoading(messages[k])
       PROVE  MessageIsTrue(k)'
  <2>1. /\ messages[k] \in Message /\ messages[k].of \in Streams /\ MessageIsTrue(k)
        /\ messages[k].of # NoStream
    BY <1>9, <1>0, MessagesTyped, MessageShape, ClientAssumption DEF ChatTrue
  <2>2. AnswerIsTrue(messages[k])'
    BY <1>1, <1>10, <1>12, <2>1, MessageShape DEF MessageIsTrue, AnswerIsTrue, Chat!isLoading
  <2> QED BY <1>1, <1>10, <1>12, <2>1, <2>2 DEF MessageIsTrue, Chat!isLoading
<1>13. CASE ms = messages /\ \A i \in 1 .. Len(messages) : ~Chat!isLoading(messages[i])
  BY <1>1, <1>11, <1>12, <1>13 DEF ChatTrue
<1>14. ASSUME NEW i \in 1 .. Len(messages), Chat!isLoading(messages[i]),
              ms = [messages EXCEPT ![i] = Chat!Settled(messages[i])]
       PROVE  ChatTrue'
  <2> DEFINE m == messages[i]
             u == Chat!Settled(m)
  <2>1. /\ m \in Message /\ m.from = "assistant" /\ m.of \in Streams /\ MessageIsTrue(i)
        /\ source = m.of /\ i = Len(messages)
    BY <1>0, <1>9, <1>14, MessagesTyped, MessageShape DEF ChatTrue, MessageIsTrue
  <2>2. /\ u \in Message /\ u.from = "assistant" /\ u.of = m.of
        /\ u.status \in {"complete", "error"} /\ u.text \subseteq m.text \cup {"error"}
    BY <2>1, SettledAnswer
  <2>3. /\ Len(ms) = Len(messages) /\ ms[i] = u
        /\ \A k \in 1 .. Len(messages) : k # i => ms[k] = messages[k]
    BY <1>0, <1>14
  <2>4. ended'[m.of] = "reloaded" /\ sse'[m.of] # "unused" /\ m.of # NoStream
    BY <1>0, <1>1, <1>9, <2>1, ClientAssumption DEF ChatTypes, ChatTrue, SourceIsTrue
  <2>5. m.text \cap Streams \subseteq {m.of}
    BY <2>1 DEF MessageIsTrue, AnswerIsTrue
  <2> HIDE DEF m, u
  <2>6. MessageIsTrue(i)'
    BY <1>1, <2>1, <2>2, <2>3, <2>4, <2>5, ClientAssumption DEF MessageIsTrue, AnswerIsTrue, Chat!isLoading
  <2>7. ASSUME NEW k \in 1 .. Len(messages), k # i PROVE MessageIsTrue(k)'
    <3>1. ~Chat!isLoading(messages[k])
      BY <1>9, <2>1, <2>7 DEF ChatTrue, MessageIsTrue
    <3> QED BY <1>12, <2>3, <2>7, <3>1
  <2> QED BY <1>1, <1>11, <2>3, <2>6, <2>7 DEF ChatTrue
<1> QED BY <1>2, <1>13, <1>14

LEMMA ChatKeeps == ASSUME ChatInv, Chat!Next PROVE ChatInv'
<1>1. ASSUME NEW r \in Streams,
             \/ Chat!handleSubmit(r) \/ Chat!handleSuggestionClick(r) \/ Chat!StreamEvent(r)
             \/ \E i \in DOMAIN messages : Chat!handleRegenerateMessage(i, r) \/ Chat!applyEdit(i, r)
      PROVE  ChatInv'
  <2>1. CASE Chat!handleSubmit(r) \/ Chat!handleSuggestionClick(r)
    BY <2>1, SubmitKeeps DEF Chat!handleSubmit, Chat!handleSuggestionClick
  <2>2. CASE Chat!onChunk(r)
    BY <2>2, ChunkKeeps
  <2>3. CASE Chat!onDone(r)
    BY <2>3, DoneKeeps
  <2>4. CASE Chat!onUnreadable(r)
    BY <2>4, FailureKeeps DEF Chat!onUnreadable
  <2>5. CASE Chat!onError(r)
    BY <2>5, ErrorKeeps
  <2>6. CASE Chat!onCut(r)
    BY <2>6, CutKeeps
  <2>7. CASE \E i \in DOMAIN messages : Chat!handleRegenerateMessage(i, r)
    BY <2>7, RegenerateKeeps
  <2>8. CASE \E i \in DOMAIN messages : Chat!applyEdit(i, r)
    BY <2>8, ApplyEditKeeps
  <2> QED BY <1>1, <2>1, <2>2, <2>3, <2>4, <2>5, <2>6, <2>7, <2>8 DEF Chat!StreamEvent
<1>2. ASSUME \E i \in DOMAIN messages : Chat!handleEditMessage(i) \/ Chat!handleDeleteMessage(i)
      PROVE  ChatInv'
  BY <1>2, EditorKeeps, DeleteKeeps
<1>3. CASE Chat!handleEditOpenChange
  BY <1>3, EditorKeeps
<1>4. CASE Chat!stopGeneration
  BY <1>4, StopKeeps
<1>5. CASE Chat!loadMessages
  BY <1>5, LoadKeeps
<1> QED BY <1>1, <1>2, <1>3, <1>4, <1>5 DEF Chat!Next

LEMMA ChatStep ==
    ASSUME ChatInv, [ClientNext]_<<part, vars, chatVars, qrVars, shellVars, settingsVars>>
    PROVE  ChatInv'
<1>1. CASE UNCHANGED chatVars
  <2>1. ChatTypes'
    BY <1>1 DEF ChatInv, ChatTypes, chatVars
  <2>2. ChatTrue => ChatTrue'
    BY <1>1 DEF chatVars, ChatTrue, StreamsAreTrue, SourceIsTrue, MessageIsTrue, AnswerIsTrue,
           Chat!isLoading
  <2> QED BY <1>1, <2>1, <2>2 DEF ChatInv, chatVars
<1>2. CASE Chat!Next
  BY <1>2, ChatKeeps
<1> QED BY <1>1, <1>2 DEF ClientNext, chatVars

(* The properties of the playground follow.                                *)
LEMMA ChatInvSuffices == ChatInv => AnswersAreTrue
<1> SUFFICES ASSUME ChatInv PROVE AnswersAreTrue
  OBVIOUS
<1>0. messages \in Seq(Message) /\ DOMAIN messages = 1 .. Len(messages)
  BY DEF ChatInv, ChatTypes
<1>1. Chat!PlaygroundTypeOK
  <2>1. \A i \in DOMAIN messages : messages[i] \in Message
    BY <1>0
  <2> QED BY <2>1 DEF ChatInv, ChatTypes, Message, Texts, Chat!PlaygroundTypeOK
<1>2. Chat!OpenStreamIsHeldUnlessOverlapped
  BY DEF ChatInv, ChatTrue, StreamsAreTrue, Chat!OpenStreamIsHeldUnlessOverlapped,
         Chat!OpenStreamIsHeld
<1>3. Chat!NothingIsStuck
  BY <1>0 DEF ChatInv, ChatTrue, MessageIsTrue, Chat!NothingIsStuck
<1>4. overlapped \/ \A m \in Chat!Answers : m.from = "assistant" /\ AnswerIsTrue(m)
  BY <1>0 DEF ChatInv, ChatTrue, MessageIsTrue, Chat!Answers
<1>5. Chat!OwnText /\ Chat!EndIsTold
  BY <1>4 DEF AnswerIsTrue, Chat!OwnText, Chat!EndIsTold
<1> QED BY <1>1, <1>2, <1>3, <1>5 DEF AnswersAreTrue

(* Whatever is sent, stopped, regenerated, edited, deleted or loaded       *)
(* again, an answer of the playground holds text of its own request only,  *)
(* is shown the way that request ended, and can be ended while it looks    *)
(* unfinished, as long as no request is sent while one is generating       *)
(* (useStreamRequest, useChatHandler), for any number of requests, messages*)
(* and reloads.                                                            *)
THEOREM AnswersStayTrue == ClientSpec => []AnswersAreTrue
<1>1. ClientInit => ChatInv
  BY ChatStarts DEF ClientInit
<1>2. ChatInv /\ [ClientNext]_<<part, vars, chatVars, qrVars, shellVars, settingsVars>> => ChatInv'
  BY ChatStep
<1> QED BY <1>1, <1>2, ChatInvSuffices, PTL DEF ClientSpec
==================================================================================
