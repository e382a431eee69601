------------------------------ MODULE RealtimeWallet ------------------------------
(***************************************************************************)
(* What becomes of one request billed at the Qiniu market price, after its *)
(* answer: the session is settled, and an application row sees to it that  *)
(* the user's statistics, the usage log and the entry in the wallet follow *)
(* (service/qiniu_realtime_wallet.go).  The request does this itself; what *)
(* it leaves undone, a repair scan of the master nodes completes.  For an  *)
(* asynchronous task the row of the task keeps what a failure gives back   *)
(* (controller/relay.go RelayTask, service/task_billing.go).               *)
(*                                                                         *)
(* Each transaction, each read used later and each write outside a         *)
(* transaction is a step.  Transactions lock the row of the application.   *)
(* The request id is its key and unique, so the online flow runs once.     *)
(***************************************************************************)
EXTENDS Integers

CONSTANTS
    Online,             \* the goroutine of the request
    Repairers,          \* the repair scans, one per master node
    Pre, Actual,        \* quota pre-consumed and quota consumed
    IsTask,             \* the request submits an asynchronous task
    LogConsumeEnabled,
    Overlap,            \* a scan may meet the row while the request still works on it
    SettleFaults,       \* what may fail of the settlement: "funding", "token"
    MaxFaults           \* bound on failing steps and crashes

(* With Pre = Actual there is nothing to settle, and nothing that fails.   *)
ASSUME RealtimeWalletAssumption ==
    /\ Online \notin Repairers
    /\ Pre \in Nat \ {0} /\ Actual \in Nat \ {0} /\ Pre # Actual
    /\ IsTask \in BOOLEAN /\ LogConsumeEnabled \in BOOLEAN /\ Overlap \in BOOLEAN
    /\ SettleFaults \subseteq {"funding", "token"} /\ MaxFaults \in Nat

Workers == {Online} \cup Repairers

VARIABLES
    app,                \* the application row
    charged,            \* what the wallet of the user has paid
    tokenCharged,       \* what the token has paid
    stats, logs, flows, \* how often each was recorded
    pc,                 \* the next step of each worker
    copy,               \* the row as a worker last read it
    settlementApplied,  \* what the controller believes of the settlement
    task,               \* the row of the task
    polled,             \* the row of the task as the polling loop last read it
    refunded,           \* what the failed task gave back
    faults

moneyVars == <<charged, tokenCharged>>
factVars == <<stats, logs, flows>>
taskVars == <<task, polled, refunded>>
vars == <<app, moneyVars, factVars, pc, copy, settlementApplied, taskVars, faults>>

NoRow == [exists |-> FALSE, settled |-> FALSE, stats |-> FALSE, log |-> FALSE,
          usage |-> FALSE, logId |-> FALSE, flow |-> FALSE, status |-> "failed"]
NoTask == [status |-> "none", quota |-> 0, settled |-> FALSE, app |-> FALSE]

Goto(w, step) == pc' = [pc EXCEPT ![w] = step]

(* Where a worker goes when it is through with the row.                    *)
After(w) == IF w # Online THEN "idle" ELSE IF IsTask THEN "build" ELSE "done"

Break == faults < MaxFaults /\ faults' = faults + 1

(***************************************************************************)
(* The online flow                                                         *)
(***************************************************************************)

(* BillingSession.Settle.  If only the token fails, the session counts as  *)
(* settled and the error is returned all the same.                         *)
Settle ==
    /\ pc[Online] = "settle"
    /\ \/ /\ charged' = Actual /\ tokenCharged' = Actual
          /\ Goto(Online, "reserve")
          /\ UNCHANGED <<settlementApplied, faults>>
       \/ /\ "token" \in SettleFaults /\ Break
          /\ charged' = Actual
          /\ settlementApplied' = FALSE
          /\ Goto(Online, "reserve")
          /\ UNCHANGED tokenCharged
       \/ /\ "funding" \in SettleFaults /\ Break
          /\ settlementApplied' = FALSE
          /\ Goto(Online, "record")
          /\ UNCHANGED moneyVars
    /\ UNCHANGED <<app, factVars, copy, taskVars>>

(* The row both of them create.  Without logs there is none to wait for.   *)
NewRow(settled) == [NoRow EXCEPT !.exists = TRUE, !.settled = settled, !.log = ~LogConsumeEnabled]

recordQiniuRealtimeWalletFailure ==
    /\ pc[Online] = "record"
    /\ app' = NewRow(FALSE)
    /\ Goto(Online, After(Online))
    /\ UNCHANGED <<moneyVars, factVars, copy, settlementApplied, taskVars, faults>>

reserveQiniuRealtimeWalletApplication ==
    /\ pc[Online] = "reserve"
    /\ app' = NewRow(TRUE)
    /\ Goto(Online, "stats")
    /\ UNCHANGED <<moneyVars, factVars, copy, settlementApplied, taskVars, faults>>

(***************************************************************************)
(* The stages, of the online flow and of the repair                        *)
(***************************************************************************)

restoreQiniuRealtimeUsageStats(w) ==
    /\ pc[w] = "stats"
    /\ stats' = (IF app.usage \/ app.stats THEN stats ELSE stats + 1)
    /\ app' = [app EXCEPT !.stats = TRUE, !.usage = @ \/ app.log]
    /\ Goto(w, "log")
    /\ UNCHANGED <<moneyVars, logs, flows, copy, settlementApplied, taskVars, faults>>

(* Reads the row and, unless the log is done, searches it by its request.  *)
LookForLog(w) ==
    /\ pc[w] = "log"
    /\ copy' = [copy EXCEPT ![w] = app]
    /\ Goto(w, CASE app.log /\ w = Online -> "flow"
                 [] app.log /\ w # Online -> IF app.usage THEN "load" ELSE "mark"
                 [] ~app.log -> IF logs > 0 THEN "mark" ELSE "create")
    /\ UNCHANGED <<app, moneyVars, factVars, settlementApplied, taskVars, faults>>

CreateLog(w) ==
    /\ pc[w] = "create"
    /\ logs' = logs + 1
    /\ Goto(w, "mark")
    /\ UNCHANGED <<app, moneyVars, stats, flows, copy, settlementApplied, taskVars, faults>>

(* The online flow reads the row again after it, the repair starts over    *)
(* from what the row then says.                                            *)
markQiniuRealtimeUsageLogApplied(w) ==
    /\ pc[w] = "mark"
    /\ app' = [app EXCEPT !.logId = @ \/ ~app.log, !.log = TRUE, !.usage = TRUE]
    /\ copy' = [copy EXCEPT ![w] = app']
    /\ Goto(w, IF w = Online THEN "flow" ELSE "load")
    /\ UNCHANGED <<moneyVars, factVars, settlementApplied, taskVars, faults>>

(* The repair hands over no parameters of the log, which counts as done.   *)
qiniuRealtimeUsageStateFromInput(w) ==
    LET c == copy[w]
        done == c.usage \/ c.logId
    IN  [stats |-> done \/ c.stats \/ (w # Online /\ ~c.log),
         log   |-> done \/ c.log \/ w # Online]

FlowStatus(usage) == IF usage THEN "applied" ELSE "failed"

applyQiniuRealtimeWalletFlow(w) ==
    LET in == qiniuRealtimeUsageStateFromInput(w)
        st == in.stats \/ app.stats \/ app.usage
        lg == in.log \/ app.log \/ app.usage
        complete == app.status = "applied" /\ app.flow /\ app.settled /\ app.usage
    IN  /\ pc[w] \in {"flow", "flowAfterLogError"}
        /\ IF complete
           THEN UNCHANGED <<app, flows>>
           ELSE /\ app' = [app EXCEPT !.settled = TRUE, !.stats = st, !.log = lg,
                                      !.usage = @ \/ (st /\ lg), !.flow = TRUE,
                                      !.status = FlowStatus(app.usage \/ (st /\ lg))]
                /\ flows' = (IF flows > 0 THEN flows ELSE flows + 1)
        /\ Goto(w, CASE pc[w] = "flowAfterLogError" -> "fail"
                     [] pc[w] = "flow" /\ w = Online -> After(w)
                     [] pc[w] = "flow" /\ w # Online -> "task")
        /\ UNCHANGED <<moneyVars, stats, logs, copy, settlementApplied, taskVars, faults>>

(* Unconditional, even if another worker has completed the row.            *)
markQiniuRealtimeWalletApplicationFailed(w) ==
    /\ pc[w] = "fail"
    /\ \/ app' = [app EXCEPT !.status = "failed"] /\ UNCHANGED faults
       \/ Break /\ UNCHANGED app
    /\ Goto(w, After(w))
    /\ UNCHANGED <<moneyVars, factVars, copy, settlementApplied, taskVars>>

(***************************************************************************)
(* The repair                                                              *)
(***************************************************************************)

(* Fault: the scan looks for unfinished rows by their settlement only.     *)
DueUnsettled == app.exists /\ ~app.settled

Due == app.exists /\ (app.status # "applied" \/ ~app.usage \/ ~app.settled)

ScanFailedQiniuRealtimeWalletApplications(r) ==
    /\ pc[r] = "idle" /\ Due
    /\ Overlap \/ pc[Online] \in {"done", "dead"}
    /\ Goto(r, "load")
    /\ UNCHANGED <<app, moneyVars, factVars, copy, settlementApplied, taskVars, faults>>

(* Reads the row and goes to the first stage that is not done.             *)
RepairQiniuRealtimeWalletApplication(r) ==
    /\ pc[r] = "load"
    /\ copy' = [copy EXCEPT ![r] = app]
    /\ Goto(r, CASE ~app.settled -> "retry"
                 [] app.settled /\ ~app.usage -> "stats"
                 [] app.settled /\ app.usage -> "flow")
    /\ UNCHANGED <<app, moneyVars, factVars, settlementApplied, taskVars, faults>>

(* Fault: the retry trusts the row as it was read outside its transaction. *)
retryQiniuRealtimeWalletSettlementUnlocked(r) ==
    /\ pc[r] = "retry"
    /\ charged' = charged + (Actual - Pre)
    /\ app' = [app EXCEPT !.settled = TRUE]
    /\ Goto(r, "token")
    /\ UNCHANGED <<tokenCharged, factVars, copy, settlementApplied, taskVars, faults>>

retryQiniuRealtimeWalletSettlement(r) ==
    /\ pc[r] = "retry"
    /\ IF app.settled
       THEN Goto(r, "load") /\ UNCHANGED <<app, charged>>
       ELSE /\ charged' = charged + (Actual - Pre)
            /\ app' = [app EXCEPT !.settled = TRUE]
            /\ Goto(r, "token")
    /\ UNCHANGED <<tokenCharged, factVars, copy, settlementApplied, taskVars, faults>>

(* After the transaction; an error is only logged.                         *)
AdjustToken(r) ==
    /\ pc[r] = "token"
    /\ \/ tokenCharged' = tokenCharged + (Actual - Pre) /\ UNCHANGED faults
       \/ Break /\ UNCHANGED tokenCharged
    /\ Goto(r, "load")
    /\ UNCHANGED <<app, charged, factVars, copy, settlementApplied, taskVars>>

(* Finds the task by the id of the application in its private data.        *)
markQiniuRealtimeTaskSettlementApplied(r) ==
    /\ pc[r] = "task"
    /\ task' = (IF task.app THEN [task EXCEPT !.settled = TRUE, !.quota = Actual] ELSE task)
    /\ Goto(r, "idle")
    /\ UNCHANGED <<app, moneyVars, factVars, copy, settlementApplied, polled, refunded, faults>>

(***************************************************************************)
(* The task                                                                *)
(***************************************************************************)

BuildQiniuRealtimeTaskSettlement ==
    /\ pc[Online] = "build"
    /\ copy' = [copy EXCEPT ![Online] = app]
    /\ Goto(Online, "insert")
    /\ UNCHANGED <<app, moneyVars, factVars, settlementApplied, taskVars, faults>>

InsertTask ==
    /\ pc[Online] = "insert"
    /\ task' = [status |-> "running", quota |-> IF settlementApplied THEN Actual ELSE Pre,
                settled |-> settlementApplied, app |-> copy[Online].exists]
    /\ Goto(Online, "done")
    /\ UNCHANGED <<app, moneyVars, factVars, copy, settlementApplied, polled, refunded, faults>>

(* The polling loop reads the row, asks upstream and saves its whole copy, *)
(* unless the status has changed meanwhile.  Its own faults are those of   *)
(* the module TaskBilling.                                                 *)
PollReads ==
    /\ task.status = "running" /\ polled.status = "none"
    /\ polled' = task
    /\ UNCHANGED <<app, moneyVars, factVars, pc, copy, settlementApplied, task, refunded, faults>>

taskRefundQuota(t) == IF ~t.settled THEN Pre ELSE t.quota

PollSaves(status) ==
    /\ polled.status # "none"
    /\ task' = [polled EXCEPT !.status = status]
    /\ refunded' = (IF status = "failed" THEN refunded + taskRefundQuota(polled) ELSE refunded)
    /\ polled' = NoTask
    /\ UNCHANGED <<app, moneyVars, factVars, pc, copy, settlementApplied, faults>>

(***************************************************************************)
(* Faults                                                                  *)
(***************************************************************************)

(* The database refuses a step.  A row that cannot be created is not tried *)
(* again; a log that cannot be is left to the repair, but the entry in the *)
(* wallet is made.                                                         *)
StepFails(w) ==
    /\ Break
    /\ \/ pc[w] \in {"record", "reserve"} /\ Goto(w, After(w))
       \/ pc[w] \in {"stats", "mark", "retry", "flow", "flowAfterLogError", "task"} /\ Goto(w, "fail")
       \/ pc[w] = "log" /\ Goto(w, IF w = Online THEN After(w) ELSE "fail")
       \/ pc[w] = "create" /\ Goto(w, IF w = Online THEN "flowAfterLogError" ELSE "fail")
       \/ pc[w] = "insert" /\ Goto(w, "done")
    /\ copy' = [copy EXCEPT ![w] = app]
    /\ UNCHANGED <<app, moneyVars, factVars, settlementApplied, taskVars>>

(* The process of a worker dies.  The scan starts again with it.           *)
Crash(w) ==
    /\ Break
    /\ pc[w] \notin {"idle", "done", "dead"}
    /\ Goto(w, IF w = Online THEN "dead" ELSE "idle")
    /\ UNCHANGED <<app, moneyVars, factVars, copy, settlementApplied, taskVars>>

Init ==
    /\ app = NoRow
    /\ charged = Pre /\ tokenCharged = Pre
    /\ stats = 0 /\ logs = 0 /\ flows = 0
    /\ pc = [w \in Workers |-> IF w = Online THEN "settle" ELSE "idle"]
    /\ copy = [w \in Workers |-> NoRow]
    /\ settlementApplied = TRUE
    /\ task = NoTask /\ polled = NoTask /\ refunded = 0
    /\ faults = 0

Stage(w) ==
    \/ restoreQiniuRealtimeUsageStats(w) \/ LookForLog(w) \/ CreateLog(w)
    \/ markQiniuRealtimeUsageLogApplied(w) \/ applyQiniuRealtimeWalletFlow(w)
    \/ markQiniuRealtimeWalletApplicationFailed(w)

OnlineStep ==
    \/ Settle \/ recordQiniuRealtimeWalletFailure \/ reserveQiniuRealtimeWalletApplication
    \/ Stage(Online)
    \/ BuildQiniuRealtimeTaskSettlement \/ InsertTask

RepairStep(r) ==
    \/ ScanFailedQiniuRealtimeWalletApplications(r) \/ RepairQiniuRealtimeWalletApplication(r)
    \/ retryQiniuRealtimeWalletSettlement(r) \/ AdjustToken(r)
    \/ Stage(r)
    \/ markQiniuRealtimeTaskSettlementApplied(r)

PollStep == PollReads \/ \E s \in {"running", "succeeded", "failed"} : PollSaves(s)

Next ==
    \/ OnlineStep \/ PollStep
    \/ \E r \in Repairers : RepairStep(r)
    \/ \E w \in Workers : StepFails(w) \/ Crash(w)

Spec == Init /\ [][Next]_vars

(* A goroutine runs on until it ends, and the ticker of the scan never     *)
(* stops.                                                                  *)
LiveSpec == Spec /\ WF_vars(OnlineStep) /\ \A r \in Repairers : WF_vars(RepairStep(r))

(***************************************************************************)
(* Properties                                                              *)
(***************************************************************************)

RealtimeWalletTypeOK ==
    /\ app \in [exists : BOOLEAN, settled : BOOLEAN, stats : BOOLEAN, log : BOOLEAN, usage : BOOLEAN,
                logId : BOOLEAN, flow : BOOLEAN, status : {"failed", "applied"}]
    /\ \A t \in {task, polled} :
          t \in [status : {"none", "running", "succeeded", "failed"}, quota : {0, Pre, Actual},
                 settled : BOOLEAN, app : BOOLEAN]
    /\ settlementApplied \in BOOLEAN
    /\ copy \in [Workers -> [exists : BOOLEAN, settled : BOOLEAN, stats : BOOLEAN, log : BOOLEAN,
                 usage : BOOLEAN, logId : BOOLEAN, flow : BOOLEAN, status : {"failed", "applied"}]]
    /\ charged \in Nat /\ tokenCharged \in Int /\ stats \in Nat /\ logs \in Nat /\ flows \in Nat
    /\ refunded \in Nat /\ faults \in 0..MaxFaults

(* However many scans and the request itself work on the row, and whatever *)
(* fails in between: the user pays the difference once, is counted once    *)
(* and has one entry in the wallet.                                        *)
FactsOnce ==
    /\ charged \in {Pre, Actual} /\ (app.settled => charged = Actual)
    /\ stats <= 1 /\ flows <= 1

(* A row that is reported as applied lacks nothing.                        *)
AppliedIsComplete ==
    app.status = "applied" =>
        /\ charged = Actual /\ stats = 1 /\ flows = 1
        /\ LogConsumeEnabled => logs > 0

(* Online flow and repairs together apply a request once, and in full.     *)
AppliedExactly == FactsOnce /\ AppliedIsComplete

(* One request has one usage log.                                          *)
OneLog == logs <= 1

(* A failed task gives back what the user paid for it.                     *)
RefundIsTheCharge == task.status = "failed" => refunded = charged

(* A row that exists is completed in the end and stays so, whichever step  *)
(* failed and whoever marked it as failed late.                            *)
EventuallyApplied == <>[](app.exists => app.status = "applied")

(***************************************************************************)
(* The inductive invariant                                                 *)
(***************************************************************************)

Steps == {"settle", "record", "reserve", "stats", "log", "create", "mark", "flow",
          "flowAfterLogError", "fail", "build", "insert", "done", "dead",
          "idle", "load", "retry", "token", "task"}
StageSteps == {"stats", "log", "create", "mark", "flow", "flowAfterLogError"}

(* What the row says is what happened.                                     *)
RowIsTrue ==
    /\ app.exists => charged = IF app.settled THEN Actual ELSE Pre
    /\ stats = IF app.stats THEN 1 ELSE 0
    /\ flows = IF app.flow THEN 1 ELSE 0
    /\ LogConsumeEnabled /\ app.log => logs > 0
    /\ app.usage => app.stats /\ app.log
    /\ app.logId => app.usage
    /\ app.status = "applied" => app.settled /\ app.usage /\ app.flow
    /\ ~app.exists => app = NoRow

(* Before there is a row, only the request has a step to take, and knows   *)
(* what was charged.                                                       *)
RowToCome ==
    /\ pc[Online] \in {"settle", "record"} => ~app.exists /\ charged = Pre
    /\ pc[Online] = "reserve" => ~app.exists /\ charged = Actual
    /\ ~app.exists => charged \in {Pre, Actual} /\ \A r \in Repairers : pc[r] = "idle"

(* A worker that has come to a stage finds those before it done.           *)
StagesInOrder ==
    \A w \in Workers :
        /\ pc[w] \in StageSteps => app.settled
        /\ pc[w] \in StageSteps \ {"stats"} => app.stats
        /\ pc[w] = "mark" /\ LogConsumeEnabled => logs > 0
        /\ pc[w] = "flow" /\ w # Online => copy[w].usage
        /\ pc[w] = "flowAfterLogError" => w = Online
        /\ pc[w] \in {"load", "retry", "token", "task", "idle"} => w # Online

(* The row only gains since a worker read it.                              *)
CopyIsOlder ==
    \A w \in Workers :
        /\ copy[w].stats => app.stats
        /\ copy[w].log => app.log
        /\ copy[w].usage => app.usage
        /\ copy[w].logId => app.logId

RealtimeInv ==
    /\ RealtimeWalletTypeOK
    /\ pc \in [Workers -> Steps]
    /\ RowIsTrue
    /\ RowToCome
    /\ StagesInOrder
    /\ CopyIsOlder
===================================================================================
