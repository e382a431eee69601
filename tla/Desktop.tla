------------------------------ MODULE Desktop -------------------------------
(***************************************************************************)
(* The desktop shell, electron/main.js: it starts the server as a child    *)
(* process, waits until its port answers, shows it in a window that is     *)
(* closed to the tray, and stops the server before it quits.  Packaged     *)
(* builds only: in development the shell starts no process.                *)
(*                                                                         *)
(* A callback of the event loop is one step.  What Electron and Node do    *)
(* between callbacks is modelled from how main.js uses it: a child that    *)
(* exits is reported by "close" once; a request destroyed before it was    *)
(* answered reports "error"; app.quit runs the before-quit handler and,    *)
(* unless that prevents it, closes the windows, each of which may refuse.  *)
(***************************************************************************)
EXTENDS Naturals

CONSTANTS Windows,    \* bound on the windows ever made
          NoWindow,
          MaxRetries, \* maxRetries of checkServerAvailability
          Mac         \* process.platform = 'darwin': the dock sends "activate"

VARIABLES app,         \* launch, starting, running, failed (to start), exited
          server,      \* the child process: none, booting, up, exited
          exitCode,    \* "none" before it exited, "zero" (or null), "nonzero"
          closeDue,    \* its "close" event is to come
          serverProcess, \* whether the variable holds it
          onClose,     \* whether before-quit has added its "close" handler
          killTimer,   \* the five seconds of before-quit are running
          attempt,     \* currentAttempt
          requests,    \* requests of checkServerAvailability under way
          retries,     \* its timers under way
          available,   \* its promise: no, yes, failed
          crashDialog, \* none, asking, logged
          startDialog,
          window,      \* per window: none, shown, hidden
          mainWindow,
          tray,
          isQuitting,
          asked        \* history: the user has asked the app to quit

childVars == <<server, exitCode, closeDue>>
quitVars == <<serverProcess, onClose, killTimer, isQuitting, asked>>
checkVars == <<attempt, requests, retries, available>>
dialogVars == <<crashDialog, startDialog>>
windowVars == <<window, mainWindow, tray>>
vars == <<app, childVars, quitVars, checkVars, dialogVars, windowVars>>

Init ==
    /\ app = "launch"
    /\ server = "none" /\ exitCode = "none" /\ closeDue = FALSE
    /\ serverProcess = FALSE /\ onClose = FALSE /\ killTimer = FALSE
    /\ isQuitting = FALSE /\ asked = FALSE
    /\ attempt = 0 /\ requests = 0 /\ retries = 0 /\ available = "no"
    /\ crashDialog = "none" /\ startDialog = "none"
    /\ window = [w \in Windows |-> "none"] /\ mainWindow = NoWindow /\ tray = FALSE

Alive == app # "exited"
Running == server \in {"booting", "up"}

-----------------------------------------------------------------------------
(* Starting.                                                               *)

(* startServer: the data directory cannot be made, the binary cannot be    *)
(* run, or the server boots and the first request is sent.                 *)
startServer ==
    /\ app = "launch" /\ app' = "starting"
    /\ \/ available' = "failed" /\ UNCHANGED <<childVars, serverProcess, attempt, requests>>
       \/ /\ \/ available' = "failed" /\ server' = "exited" /\ exitCode' = "nonzero" /\ closeDue' = TRUE
             \/ server' = "booting" /\ UNCHANGED <<available, exitCode, closeDue>>
          /\ serverProcess' = TRUE
          /\ attempt' = 1 /\ requests' = 1
    /\ UNCHANGED <<onClose, killTimer, isQuitting, asked, retries, dialogVars, windowVars>>

ServerListens ==
    /\ Alive /\ server = "booting" /\ server' = "up"
    /\ UNCHANGED <<app, exitCode, closeDue, quitVars, checkVars, dialogVars, windowVars>>

ServerExits ==
    /\ Running /\ server' = "exited"
    /\ exitCode' \in {"zero", "nonzero"}
    /\ closeDue' = TRUE
    /\ UNCHANGED <<app, quitVars, checkVars, dialogVars, windowVars>>

(* The first outcome settles the promise.                                  *)
Settle(outcome) == available' = IF available = "no" THEN outcome ELSE available

RetryOrReject(timers) ==
    IF attempt >= MaxRetries
    THEN Settle("failed") /\ UNCHANGED retries
    ELSE retries' = retries + timers /\ UNCHANGED available

(* A request is answered, is refused, or times out; the handler of the     *)
(* last destroys the request, and so "error" schedules a retry as well.    *)
RequestEnds ==
    /\ Alive /\ requests > 0 /\ requests' = requests - 1
    /\ \/ server = "up" /\ Settle("yes") /\ UNCHANGED retries
       \/ server # "up" /\ RetryOrReject(1)
       \/ Running /\ RetryOrReject(2)
    /\ UNCHANGED <<app, childVars, quitVars, attempt, dialogVars, windowVars>>

tryConnect ==
    /\ Alive /\ retries > 0 /\ retries' = retries - 1
    /\ attempt' = attempt + 1 /\ requests' = requests + 1
    /\ UNCHANGED <<app, childVars, quitVars, available, dialogVars, windowVars>>

-----------------------------------------------------------------------------
(* Windows.                                                                *)

createWindow ==
    \E w \in Windows :
        /\ window[w] = "none"
        /\ window' = [window EXCEPT ![w] = "shown"]
        /\ mainWindow' = w

(* The close handler of a window hides the main window, whichever that is, *)
(* unless the app is quitting.                                             *)
closeWindow(w) ==
    IF isQuitting
    THEN window' = [window EXCEPT ![w] = "none"] /\ mainWindow' = NoWindow
    ELSE /\ window' = [window EXCEPT ![mainWindow] = "hidden"]
         /\ UNCHANGED mainWindow

(* whenReady after startServer.                                            *)
Started ==
    /\ app = "starting" /\ available = "yes"
    /\ app' = "running"
    /\ tray' = TRUE /\ createWindow
    /\ UNCHANGED <<childVars, quitVars, checkVars, dialogVars>>

StartFailed ==
    /\ app = "starting" /\ available = "failed"
    /\ app' = "failed" /\ startDialog' = "asking"
    /\ UNCHANGED <<childVars, quitVars, checkVars, crashDialog, windowVars>>

UserCloses(w) ==
    /\ Alive /\ window[w] = "shown"
    /\ closeWindow(w)
    /\ UNCHANGED <<app, childVars, quitVars, checkVars, dialogVars, tray>>

(* The icon in the tray, and the entry Show of its menu.                   *)
TrayClick ==
    /\ Alive /\ tray
    /\ IF mainWindow = NoWindow
       THEN createWindow
       ELSE /\ \/ window' = [window EXCEPT ![mainWindow] = "shown"]
               \/ window[mainWindow] = "shown" /\ window' = [window EXCEPT ![mainWindow] = "hidden"]
            /\ UNCHANGED mainWindow
    /\ UNCHANGED <<app, childVars, quitVars, checkVars, dialogVars, tray>>

activate ==
    /\ Mac /\ Alive /\ app # "launch"
    /\ \A w \in Windows : window[w] = "none"
    /\ createWindow
    /\ UNCHANGED <<app, childVars, quitVars, checkVars, dialogVars, tray>>

-----------------------------------------------------------------------------
(* Quitting.                                                               *)

exit == app' = "exited" /\ window' = [w \in Windows |-> "none"] /\ mainWindow' = NoWindow

(* app.quit and the before-quit handler: the server is told to stop and    *)
(* given five seconds; without one the windows are closed and may refuse.  *)
(* Mutant: the timer is not set.                                           *)
quit_NoTimer(quitting) ==
    /\ isQuitting' = quitting /\ asked' = TRUE
    /\ IF serverProcess
       THEN onClose' = TRUE /\ UNCHANGED <<app, window, mainWindow, killTimer>>
       ELSE exit /\ UNCHANGED <<onClose, killTimer>>

quit(quitting) ==
    /\ isQuitting' = quitting /\ asked' = TRUE
    /\ IF serverProcess
       THEN onClose' = TRUE /\ killTimer' = TRUE /\ UNCHANGED <<app, window, mainWindow>>
       ELSE /\ UNCHANGED <<onClose, killTimer>>
            /\ IF quitting \/ mainWindow = NoWindow
               THEN exit
               ELSE window' = [window EXCEPT ![mainWindow] = "hidden"] /\ UNCHANGED <<app, mainWindow>>

(* After five seconds.  Mutant: the server is not killed.                  *)
KillTimerFires_NoKill ==
    /\ Alive /\ killTimer /\ exit
    /\ UNCHANGED <<childVars, quitVars, checkVars, dialogVars, tray>>

KillTimerFires ==
    /\ Alive /\ killTimer
    /\ server' = IF serverProcess /\ Running THEN "exited" ELSE server
    /\ exit
    /\ UNCHANGED <<exitCode, closeDue, quitVars, checkVars, dialogVars, tray>>

(* "close" of the child: a dialog, or the window is closed; then the       *)
(* handler of before-quit, if it was added before the event.               *)
ServerCloses ==
    /\ Alive /\ closeDue /\ closeDue' = FALSE
    /\ crashDialog' = IF exitCode = "nonzero" THEN "asking" ELSE crashDialog
    /\ IF onClose
       THEN serverProcess' = FALSE /\ exit
       ELSE /\ IF exitCode = "zero" /\ mainWindow # NoWindow
               THEN closeWindow(mainWindow)
               ELSE UNCHANGED <<window, mainWindow>>
            /\ UNCHANGED <<serverProcess, app>>
    /\ UNCHANGED <<server, exitCode, onClose, killTimer, isQuitting, asked, checkVars, startDialog, tray>>

(* The dialogs: quit, or look at the log first.                            *)
CrashDialogAnswered ==
    /\ Alive /\ crashDialog # "none"
    /\ \/ /\ crashDialog = "asking" /\ crashDialog' = "logged"
          /\ UNCHANGED <<app, isQuitting, asked, onClose, killTimer, window, mainWindow>>
       \/ crashDialog' = "none" /\ quit(TRUE)
    /\ UNCHANGED <<childVars, serverProcess, checkVars, startDialog, tray>>

StartDialogAnswered ==
    /\ Alive /\ startDialog # "none"
    /\ \/ /\ startDialog = "asking" /\ startDialog' = "logged"
          /\ UNCHANGED <<app, isQuitting, asked, onClose, killTimer, window, mainWindow>>
       \/ startDialog' = "none" /\ quit(isQuitting)
    /\ UNCHANGED <<childVars, serverProcess, checkVars, crashDialog, tray>>

(* Quit in the menu of the tray.                                           *)
TrayQuit ==
    /\ Alive /\ tray
    /\ quit(TRUE)
    /\ UNCHANGED <<childVars, serverProcess, checkVars, dialogVars, tray>>

(* Quit in the menu of the app, which is in a window except on macOS, and   *)
(* which says nothing to the close handlers.                               *)
MenuQuit ==
    /\ Alive /\ app # "launch"
    /\ Mac \/ \E w \in Windows : window[w] = "shown"
    /\ quit(isQuitting)
    /\ UNCHANGED <<childVars, serverProcess, checkVars, dialogVars, tray>>

-----------------------------------------------------------------------------
Next ==
    \/ startServer \/ ServerListens \/ ServerExits \/ RequestEnds \/ tryConnect
    \/ Started \/ StartFailed \/ TrayClick \/ activate \/ \E w \in Windows : UserCloses(w)
    \/ KillTimerFires \/ ServerCloses \/ CrashDialogAnswered \/ StartDialogAnswered
    \/ TrayQuit \/ MenuQuit

Spec == Init /\ [][Next]_vars

(* Callbacks run, requests end, timers fire, and dialogs are answered in   *)
(* the end; the server need not exit by itself, nor the user do anything   *)
(* else.                                                                   *)
LiveSpec ==
    /\ Spec
    /\ WF_vars(startServer) /\ WF_vars(RequestEnds) /\ WF_vars(tryConnect)
    /\ WF_vars(Started) /\ WF_vars(StartFailed)
    /\ WF_vars(KillTimerFires) /\ WF_vars(ServerCloses)
    /\ WF_vars(CrashDialogAnswered) /\ WF_vars(StartDialogAnswered)

-----------------------------------------------------------------------------
DesktopTypeOK ==
    /\ app \in {"launch", "starting", "running", "failed", "exited"}
    /\ server \in {"none", "booting", "up", "exited"} /\ exitCode \in {"none", "zero", "nonzero"}
    /\ {closeDue, serverProcess, onClose, killTimer, tray, isQuitting, asked} \subseteq BOOLEAN
    /\ {attempt, requests, retries} \subseteq Nat /\ available \in {"no", "yes", "failed"}
    /\ {crashDialog, startDialog} \subseteq {"none", "asking", "logged"}
    /\ window \in [Windows -> {"none", "shown", "hidden"}]
    /\ mainWindow \in {NoWindow} \cup {w \in Windows : window[w] # "none"}

(* The server never outlives the app, however that came to its end: from   *)
(* the tray, from a dialog, during the start, or after a crash.            *)
NoOrphan == app = "exited" => ~Running

(* checkServerAvailability gives up after maxRetries attempts.  It does    *)
(* not: a request that times out starts two retries.                       *)
AttemptsWithinLimit == attempt <= MaxRetries

(* A window the user closes goes to the tray: it is not shown any more.    *)
(* It does not hold once activate has made a second window during a start. *)
CloseGoesToTray == [][\A w \in Windows : UserCloses(w) => window'[w] # "shown"]_vars

(* The start comes to an end, with a window or with a dialog.              *)
StartEnds == app = "starting" ~> app \in {"running", "failed", "exited"}

(* Who asks the app to quit gets that, although the server may hang, and   *)
(* although it may have died before and will never report it again.        *)
QuitQuits == asked ~> app = "exited"

(* A server that crashes takes the app with it, once the dialog has been   *)
(* answered.                                                               *)
CrashEnds == exitCode = "nonzero" ~> app = "exited"
=============================================================================
