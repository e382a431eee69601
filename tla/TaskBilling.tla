---------------------------- MODULE TaskBilling -----------------------------
(***************************************************************************)
(* Asynchronous tasks and their money (service/task_polling.go,            *)
(* task_billing.go, model/task.go, controller/relay.go RelayTask,          *)
(* relay/relay_task.go tryRealtimeFetch).  A task is charged when it is    *)
(* submitted.  A loop on every master node asks upstream how it is doing,  *)
(* and gives the money back when it failed, corrects the charge when it    *)
(* succeeded, and gives up on tasks that take too long.  Besides, a user   *)
(* who asks for a Gemini or Vertex task makes the gateway ask upstream.    *)
(*                                                                         *)
(* A process is one of these goroutines.  It works on a copy of the row    *)
(* that it read earlier; each UPDATE, each movement of money and each call *)
(* upstream is a step.  The official-ledger tasks, on which no money moves *)
(* here, are those with a price of 0.                                      *)
(***************************************************************************)
EXTENDS Integers, FiniteSets

CONSTANTS Tasks,      \* tasks.id
          Loops,      \* TaskPollingLoop goroutines
          Fetches,    \* requests that run tryRealtimeFetch
          Platform,   \* "suno", "video", or "realtime": a video of Gemini or Vertex
          Legacy,     \* tasks submitted before legacyTaskCutoff
          PerCall,    \* tasks with BillingContext.PerCallBilling
          Qiniu,      \* tasks with a QiniuRealtimeSettlement
          Deletable,  \* tasks whose channel may disappear
          Estimate,   \* what the session has pre-consumed for a task
          Price,      \* result.Quota, its price when it is submitted
          Sweeping,   \* constant.TaskTimeoutMinutes > 0
          Finals,     \* actual quotas after completion; 0: no adjustment
          MaxFaults   \* bound on failing steps and crashes

Processes == Loops \cup Fetches

VARIABLES row,       \* tasks: status, whether progress is 100%, quota
          upstream,  \* external: how the task is doing there
          overdue,   \* tasks with submit_time < cutoff
          orphan,    \* tasks whose channel CacheGetChannel cannot find
          phase,     \* where a loop is
          todo,      \* tasks of the list a process read that it has not handled
          seen,      \* the status in that list
          job,       \* the task a process is working on
          net,       \* history: what the task took from wallet or subscription
          tokenNet,  \* history: what it took from the token
          faults,    \* failed steps and crashes
          hurt       \* history: tasks that met one

moneyVars == <<net, tokenNet>>
worldVars == <<upstream, overdue, orphan>>
vars == <<row, worldVars, phase, todo, seen, job, moneyVars, faults, hurt>>

(* SUBMITTED and QUEUED are handled like IN_PROGRESS.                      *)
Final == {"SUCCESS", "FAILURE"}
Reports == Final \cup {"IN_PROGRESS"}
Statuses == Reports \cup {"ABSENT", "NOT_START"}

NoJob == [step |-> "none"]

(* A reply that arrived: reported status, and for Suno whether it carries  *)
(* a reason for failure.                                                   *)
Reply(t, s, r) == [step |-> "apply", task |-> t, status |-> s, reason |-> r]

(* Money to move: first funding, then the token; then r, what is left of   *)
(* the reply to save.                                                      *)
Adjust(t, d, r) == [step |-> "funding", task |-> t, delta |-> d, rest |-> r]

Init ==
    /\ row = [t \in Tasks |-> [status |-> "ABSENT", done |-> FALSE, quota |-> 0]]
    /\ upstream = [t \in Tasks |-> "IN_PROGRESS"]
    /\ overdue = {} /\ orphan = {}
    /\ phase = [l \in Loops |-> "asleep"]
    /\ todo = [p \in Processes |-> {}]
    /\ seen = [p \in Processes |-> [t \in Tasks |-> "ABSENT"]]
    /\ job = [p \in Processes |-> NoJob]
    /\ net = [t \in Tasks |-> 0] /\ tokenNet = [t \in Tasks |-> 0]
    /\ faults = 0 /\ hurt = {}

-----------------------------------------------------------------------------
NoFault == UNCHANGED <<faults, hurt>>

(* A step fails, and t loses something by it, or does not.                 *)
Fault(t) ==
    /\ faults < MaxFaults
    /\ faults' = faults + 1
    /\ hurt' = hurt \cup {t}

HarmlessFault ==
    /\ faults < MaxFaults
    /\ faults' = faults + 1
    /\ UNCHANGED hurt

Write(t, s, done) == row' = [row EXCEPT ![t].status = s, ![t].done = done]

(* Process p goes on with j; a task it has finished leaves its list.       *)
Continue(p, j) ==
    /\ job' = [job EXCEPT ![p] = j]
    /\ todo' = IF j = NoJob THEN [todo EXCEPT ![p] = @ \ {job[p].task}] ELSE todo
    /\ UNCHANGED <<phase, seen>>

Working(p, step) == job[p].step = step

-----------------------------------------------------------------------------
(* Submission (RelayTask): settlement, then the insert.  A settlement that *)
(* is refused leaves the charge at what was pre-consumed; the row records  *)
(* that only for Qiniu.                                                    *)

Charge(t, q) ==
    /\ net' = [net EXCEPT ![t] = q]
    /\ tokenNet' = [tokenNet EXCEPT ![t] = q]

RelayTask(t) ==
    /\ row[t].status = "ABSENT" /\ net[t] = 0 /\ t \notin hurt
    /\ \E settled \in IF Price[t] > Estimate[t] THEN BOOLEAN ELSE {TRUE} :
         /\ Charge(t, IF settled THEN Price[t] ELSE Estimate[t])
         /\ \/ /\ row' = [row EXCEPT ![t] =
                            [status |-> "NOT_START", done |-> FALSE,
                             quota |-> IF ~settled /\ t \in Qiniu /\ Estimate[t] > 0
                                       THEN Estimate[t] ELSE Price[t]]]
               /\ NoFault
            \/ Fault(t) /\ UNCHANGED row   \* task.Insert fails
    /\ UNCHANGED <<worldVars, phase, todo, seen, job>>

-----------------------------------------------------------------------------
(* Money.                                                                  *)

(* taskAdjustFunding: a debit may be refused for want of balance, anything *)
(* may fail; then the token is left alone too.                             *)
taskAdjustFunding(p) ==
    LET j == job[p]
    IN  /\ Working(p, "funding")
        /\ \/ /\ net' = [net EXCEPT ![j.task] = @ + j.delta]
              /\ Continue(p, [j EXCEPT !.step = "token"])
              /\ NoFault
           \/ /\ j.delta > 0
              /\ Continue(p, j.rest)
              /\ NoFault
              /\ UNCHANGED net
           \/ /\ Fault(j.task)
              /\ Continue(p, j.rest)
              /\ UNCHANGED net
        /\ UNCHANGED <<row, worldVars, tokenNet>>

taskAdjustTokenQuota(p) ==
    LET j == job[p]
    IN  /\ Working(p, "token")
        /\ Continue(p, j.rest)
        /\ \/ tokenNet' = [tokenNet EXCEPT ![j.task] = @ + j.delta] /\ NoFault
           \/ Fault(j.task) /\ UNCHANGED tokenNet
        /\ UNCHANGED <<row, worldVars, net>>

RefundTaskQuota(t, r) == IF row[t].quota = 0 THEN r ELSE Adjust(t, -row[t].quota, r)

(* RecalculateTaskQuota: the difference.  Mutant: the whole price.         *)
RecalculateTaskQuota_Whole(t, actual) ==
    IF actual = 0 \/ t \in Qiniu \/ actual = row[t].quota
    THEN NoJob
    ELSE Adjust(t, actual, NoJob)

RecalculateTaskQuota(t, actual) ==
    IF actual = 0 \/ t \in Qiniu \/ actual = row[t].quota
    THEN NoJob
    ELSE Adjust(t, actual - row[t].quota, NoJob)

(* settleTaskBillingOnComplete.                                            *)
settleTaskBillingOnComplete(t, actual) ==
    IF t \in PerCall THEN NoJob ELSE RecalculateTaskQuota(t, actual)

-----------------------------------------------------------------------------
(* The loop: sweep, then poll.                                             *)

Unfinished(t) == row[t].status \notin Final \cup {"ABSENT"} /\ ~row[t].done

ReadRows(p, S) ==
    /\ todo' = [todo EXCEPT ![p] = S]
    /\ seen' = [seen EXCEPT ![p] = [t \in Tasks |-> row[t].status]]

GetTimedOutUnfinishedTasks(l) ==
    /\ phase[l] = "asleep"
    /\ ReadRows(l, {t \in overdue : Sweeping /\ Unfinished(t)})
    /\ phase' = [phase EXCEPT ![l] = "sweep"]
    /\ UNCHANGED <<row, worldVars, job, moneyVars, faults, hurt>>

GetAllUnFinishSyncTasks(l) ==
    /\ phase[l] = "sweep" /\ todo[l] = {}
    /\ ReadRows(l, {t \in Tasks : Unfinished(t)})
    /\ phase' = [phase EXCEPT ![l] = "poll"]
    /\ UNCHANGED <<row, worldVars, job, moneyVars, faults, hurt>>

PollingRoundEnds(l) ==
    /\ phase[l] = "poll" /\ todo[l] = {}
    /\ phase' = [phase EXCEPT ![l] = "asleep"]
    /\ UNCHANGED <<row, worldVars, todo, seen, job, moneyVars, faults, hurt>>

(* Task.UpdateWithStatus: the condition that decides the winner.           *)
(* Mutant: a plain save, which everybody wins.                             *)
Wins_Save(p, t) == TRUE

Wins(p, t) == row[t].status = seen[p][t]

(* The UPDATE, which either wins, loses or fails.                          *)
UpdateWithStatus(p, t, s, done, then) ==
    \/ /\ Wins(p, t)
       /\ Write(t, s, done)
       /\ Continue(p, then)
       /\ NoFault
    \/ /\ ~Wins(p, t)
       /\ Continue(p, NoJob)
       /\ NoFault
       /\ UNCHANGED row
    \/ /\ HarmlessFault
       /\ Continue(p, NoJob)
       /\ UNCHANGED row

(* One task of the list.                                                   *)
sweepTimedOutTasks(l, t) ==
    /\ phase[l] = "sweep" /\ t \in todo[l] /\ Working(l, "none")
    /\ LET refund == IF t \in Legacy THEN NoJob ELSE RefundTaskQuota(t, NoJob)
       IN  \/ /\ Wins(l, t)
              /\ Write(t, "FAILURE", TRUE)
              /\ job' = [job EXCEPT ![l] = refund]
              /\ todo' = IF refund = NoJob THEN [todo EXCEPT ![l] = @ \ {t}] ELSE todo
              /\ NoFault
           \/ /\ ~Wins(l, t)
              /\ todo' = [todo EXCEPT ![l] = @ \ {t}]
              /\ NoFault /\ UNCHANGED <<row, job>>
           \/ /\ HarmlessFault
              /\ todo' = [todo EXCEPT ![l] = @ \ {t}]
              /\ UNCHANGED <<row, job>>
    /\ UNCHANGED <<worldVars, phase, seen, moneyVars>>

(* TaskBulkUpdateByID for the tasks of a channel that is gone.             *)
TaskBulkUpdateByID(l, t) ==
    /\ phase[l] = "poll" /\ t \in todo[l] /\ Working(l, "none")
    /\ t \in orphan
    /\ todo' = [todo EXCEPT ![l] = @ \ {t}]
    /\ \/ Write(t, "FAILURE", TRUE) /\ NoFault
       \/ HarmlessFault /\ UNCHANGED row
    /\ UNCHANGED <<worldVars, phase, seen, job, moneyVars>>

(* What upstream may answer.  A video reply that is not understood counts  *)
(* as a failure, which is a fault; a Suno item may give a reason for       *)
(* failure whatever its status.                                            *)
FetchTask(l, t) ==
    /\ phase[l] = "poll" /\ t \in todo[l] /\ Working(l, "none")
    /\ t \notin orphan
    /\ \/ /\ job' = [job EXCEPT ![l] = Reply(t, upstream[t], FALSE)]
          /\ NoFault
       \/ /\ Platform[t] = "suno" /\ upstream[t] = "FAILURE"
          /\ job' = [job EXCEPT ![l] = Reply(t, "IN_PROGRESS", TRUE)]
          /\ NoFault
       \/ /\ Platform[t] # "suno"
          /\ job' = [job EXCEPT ![l] = Reply(t, "FAILURE", FALSE)]
          /\ Fault(t)
    /\ UNCHANGED <<row, worldVars, phase, todo, seen, moneyVars>>

(* No answer, a rate limit, an unknown status: the task is left for the    *)
(* next round.                                                             *)
FetchFails(l, t) ==
    /\ phase[l] = "poll" /\ t \in todo[l] /\ Working(l, "none")
    /\ todo' = [todo EXCEPT ![l] = @ \ {t}]
    /\ HarmlessFault
    /\ UNCHANGED <<row, worldVars, phase, seen, job, moneyVars>>

(* updateVideoSingleTask from the reply on.  A change of progress, data or *)
(* times alone is an update too.                                           *)
updateVideoSingleTask(l) ==
    LET j == job[l]
        t == j.task
    IN  /\ l \in Loops /\ Working(l, "apply") /\ Platform[t] # "suno"
        /\ \/ /\ j.status = "IN_PROGRESS"
              /\ UpdateWithStatus(l, t, "IN_PROGRESS", FALSE, NoJob)
           \/ /\ j.status = "FAILURE"
              /\ UpdateWithStatus(l, t, "FAILURE", TRUE, RefundTaskQuota(t, NoJob))
           \/ /\ j.status = "SUCCESS"
              /\ \E q \in Finals :
                   UpdateWithStatus(l, t, "SUCCESS", TRUE, settleTaskBillingOnComplete(t, q))
        /\ UNCHANGED <<worldVars, moneyVars>>

(* updateSunoTasks, one item: the refund comes first, then the row is      *)
(* saved whatever it holds by now.                                         *)
updateSunoTasks(l) ==
    LET j == job[l]
        failed == j.reason \/ j.status = "FAILURE"
        save == [step |-> "save", task |-> j.task, status |-> j.status,
                 done |-> failed \/ j.status = "SUCCESS"]
    IN  /\ l \in Loops /\ Working(l, "apply") /\ Platform[j.task] = "suno"
        /\ \/ Continue(l, IF failed THEN RefundTaskQuota(j.task, save) ELSE save)
           \/ j.status = seen[l][j.task] /\ ~j.reason /\ Continue(l, NoJob)
        /\ UNCHANGED <<row, worldVars, moneyVars, faults, hurt>>

(* Task.Update.                                                            *)
SaveTask(l) ==
    LET j == job[l]
    IN  /\ Working(l, "save")
        /\ Continue(l, NoJob)
        /\ \/ Write(j.task, j.status, j.done) /\ NoFault
           \/ Fault(j.task) /\ UNCHANGED row
        /\ UNCHANGED <<worldVars, moneyVars>>

-----------------------------------------------------------------------------
(* tryRealtimeFetch: the row is read whatever its status, upstream asked,  *)
(* and what it says written back.  No money moves.                         *)

ReadTask(f, t) ==
    /\ Working(f, "none") /\ todo[f] = {}
    /\ row[t].status # "ABSENT" /\ Platform[t] = "realtime" /\ t \notin orphan
    /\ ReadRows(f, {t})
    /\ UNCHANGED <<row, worldVars, phase, job, moneyVars, faults, hurt>>

RealtimeReply(f, t) ==
    /\ t \in todo[f] /\ Working(f, "none")
    /\ job' = [job EXCEPT ![f] = Reply(t, upstream[t], FALSE)]
    /\ UNCHANGED <<row, worldVars, phase, todo, seen, moneyVars, faults, hurt>>

tryRealtimeFetch(f) ==
    LET j == job[f]
    IN  /\ f \in Fetches /\ Working(f, "apply")
        /\ UpdateWithStatus(f, j.task, j.status, j.status \in Final, NoJob)
        /\ UNCHANGED <<worldVars, moneyVars>>

-----------------------------------------------------------------------------
(* The world.                                                              *)

UpstreamEnds(t) ==
    /\ row[t].status # "ABSENT" /\ upstream[t] = "IN_PROGRESS"
    /\ \E s \in Final : upstream' = [upstream EXCEPT ![t] = s]
    /\ UNCHANGED <<row, overdue, orphan, phase, todo, seen, job, moneyVars, faults, hurt>>

TimesOut(t) ==
    /\ row[t].status # "ABSENT" /\ t \notin overdue
    /\ overdue' = overdue \cup {t}
    /\ UNCHANGED <<row, upstream, orphan, phase, todo, seen, job, moneyVars, faults, hurt>>

ChannelDeleted(t) ==
    /\ row[t].status # "ABSENT" /\ t \in Deletable \ orphan
    /\ orphan' = orphan \cup {t}
    /\ UNCHANGED <<row, upstream, overdue, phase, todo, seen, job, moneyVars, faults, hurt>>

(* The node dies and comes back: what the loop knew is gone.               *)
Crash(l) ==
    /\ faults < MaxFaults
    /\ faults' = faults + 1
    /\ hurt' = hurt \cup {t \in Tasks : job[l].step \in {"funding", "token", "save"} /\ job[l].task = t}
    /\ phase' = [phase EXCEPT ![l] = "asleep"]
    /\ todo' = [todo EXCEPT ![l] = {}]
    /\ job' = [job EXCEPT ![l] = NoJob]
    /\ UNCHANGED <<row, worldVars, seen, moneyVars>>

(* What a loop does when it is its turn.                                   *)
LoopStep(l) ==
    \/ GetTimedOutUnfinishedTasks(l) \/ GetAllUnFinishSyncTasks(l) \/ PollingRoundEnds(l)
    \/ \E t \in Tasks : \/ sweepTimedOutTasks(l, t) \/ TaskBulkUpdateByID(l, t)
                        \/ FetchTask(l, t) \/ FetchFails(l, t)
    \/ updateVideoSingleTask(l) \/ updateSunoTasks(l) \/ SaveTask(l)
    \/ taskAdjustFunding(l) \/ taskAdjustTokenQuota(l)

FetchStep(f) ==
    \/ \E t \in Tasks : ReadTask(f, t) \/ RealtimeReply(f, t)
    \/ tryRealtimeFetch(f)

WorldStep(t) == RelayTask(t) \/ UpstreamEnds(t) \/ TimesOut(t) \/ ChannelDeleted(t)

Next ==
    \/ \E l \in Loops : LoopStep(l) \/ Crash(l)
    \/ \E f \in Fetches : FetchStep(f)
    \/ \E t \in Tasks : WorldStep(t)

Spec == Init /\ [][Next]_vars

(* The loop never blocks for good, and time passes.                        *)
LiveSpec ==
    /\ Spec
    /\ \A l \in Loops : WF_vars(LoopStep(l))
    /\ \A t \in Tasks : WF_vars(TimesOut(t))

-----------------------------------------------------------------------------
Jobs ==
    {NoJob}
    \cup [step : {"apply"}, task : Tasks, status : Reports, reason : BOOLEAN]
    \cup [step : {"save"}, task : Tasks, status : Reports, done : BOOLEAN]
    \cup [step : {"funding", "token"}, task : Tasks, delta : Int,
          rest : {NoJob} \cup [step : {"save"}, task : Tasks, status : Reports, done : BOOLEAN]]

TaskTypeOK ==
    /\ row \in [Tasks -> [status : Statuses, done : BOOLEAN, quota : Nat]]
    /\ upstream \in [Tasks -> Reports]
    /\ overdue \subseteq Tasks /\ orphan \subseteq Tasks
    /\ phase \in [Loops -> {"asleep", "sweep", "poll"}]
    /\ todo \in [Processes -> SUBSET Tasks]
    /\ seen \in [Processes -> [Tasks -> Statuses]]
    /\ job \in [Processes -> Jobs]
    /\ net \in [Tasks -> Int] /\ tokenNet \in [Tasks -> Int]
    /\ faults \in 0 .. MaxFaults
    /\ hurt \subseteq Tasks

(* A process has yet to move money for t.                                  *)
Moving(t) == \E p \in Processes : job[p].step \in {"funding", "token"} /\ job[p].task = t

(* No task is given back more than it was charged, on wallet, subscription *)
(* and token alike: although several nodes may see it fail, or see it time *)
(* out while it fails, and although any step may fail or be repeated.      *)
NeverRefundedTwice == \A t \in Tasks : net[t] >= 0 /\ tokenNet[t] >= 0

(* When a task has failed and nobody is busy with it any more, it has cost *)
(* nothing, unless a step failed or the task is one of the old ones.       *)
FailureIsRefunded ==
    \A t \in Tasks \ (hurt \cup Legacy) :
        row[t].status = "FAILURE" /\ ~Moving(t) => net[t] = 0 /\ tokenNet[t] = 0

(* When a task has succeeded it has cost what it came to, once, and token  *)
(* and funding agree.                                                      *)
SuccessIsCharged ==
    \A t \in Tasks \ hurt :
        row[t].status = "SUCCESS" /\ ~Moving(t) =>
            /\ tokenNet[t] = net[t]
            /\ net[t] \in {row[t].quota} \cup (Finals \ {0})

(* A task that has come to an end stays there: nobody overwrites the       *)
(* outcome on which money was moved with an older view of it.              *)
OutcomeStays == \A t \in Tasks : row[t].status \in Final => row'[t].status = row[t].status

(* Every task comes to an end, whatever upstream does, because the loop    *)
(* gives up on it in the end.                                              *)
TaskEnds == \A t \in Tasks : row[t].status # "ABSENT" ~> row[t].status \in Final
=============================================================================
