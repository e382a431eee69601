----------------------------- MODULE MCMetering -----------------------------
(***************************************************************************)
(* Metering for TLC: the application row of a Qiniu request, which is      *)
(* extended and an instance, the tasks and the row of a subscription,      *)
(* which are instances.                                                    *)
(* They share no state, so one behaviour exercises one of them, in one     *)
(* deployment: the variable part says which.                               *)
(***************************************************************************)
EXTENDS RealtimeWallet, FiniteSets, TLC

CONSTANTS Videos,           \* the video tasks, of which
          Qinius,           \* some are of Qiniu,
          Legacies,         \* some are of before the cutoff
          PerCalls,         \* and some have a fixed price
          Estimates, Prices, Finals, \* what they cost
          TaskFaults,       \* bound on failing steps and crashes
          Loops,            \* TaskPollingLoop of the nodes, interchangeable
          Payers,           \* requests that share a subscription
          RowTotal, RowAmounts, RowPeriods \* its total, what they take, resets

(* A settlement on submission that may be refused is one of Qiniu, whose   *)
(* row then records what was pre-consumed; section 3.3 of the README names *)
(* what happens to others.                                                 *)
ASSUME TaskAssumption ==
    /\ Estimates \in [Videos -> Nat] /\ Prices \in [Videos -> Nat] /\ Finals \subseteq Nat
    /\ \A t \in Videos : Prices[t] > Estimates[t] => t \in Qinius /\ Estimates[t] > 0
    /\ TaskFaults \in Nat

ASSUME RowAssumption ==
    /\ IsFiniteSet(Payers) /\ "resetTask" \notin Payers
    /\ RowTotal \in Nat /\ RowAmounts \subseteq Nat /\ RowPeriods \in Nat

VARIABLES
    part,
    row, upstream, overdue, orphan, phase, todo, seen, job,     \* TaskBilling
    net, tokenNet, taskFaults, hurt,
    subscription, period, step, amount, tx, since               \* SubscriptionRow

(* Nodes poll and sweep the same video tasks, whose channels stay.         *)
Task == INSTANCE TaskBilling WITH
    Tasks <- Videos, Fetches <- {}, Platform <- [t \in Videos |-> "video"],
    Legacy <- Legacies, PerCall <- PerCalls, Qiniu <- Qinius, Deletable <- {},
    Estimate <- Estimates, Price <- Prices, Sweeping <- TRUE,
    MaxFaults <- TaskFaults, faults <- taskFaults

(* Nothing fails, or only tasks of Qiniu are submitted.                    *)
FaultFree == taskFaults' = taskFaults
QiniuOnly == \A t \in Videos \ Qinius : row'[t].status = "ABSENT"

(* One node with a Suno task, and a Gemini task its user asks for;         *)
(* timeouts are off.                                                       *)
Mixed == INSTANCE TaskBilling WITH
    Tasks <- {"suno", "gemini"}, Loops <- {"l1"}, Fetches <- {"f1"},
    Platform <- [t \in {"suno", "gemini"} |-> IF t = "suno" THEN "suno" ELSE "realtime"],
    Legacy <- {}, PerCall <- {}, Qiniu <- {}, Deletable <- {},
    Estimate <- [t \in {"suno", "gemini"} |-> 2], Price <- [t \in {"suno", "gemini"} |-> 2],
    Sweeping <- FALSE, Finals <- {0, 3}, MaxFaults <- 1, faults <- taskFaults

(* The scan meets rows only after the request has ended or died.           *)
Left == INSTANCE RealtimeWallet WITH
    Repairers <- {CHOOSE r \in Repairers : TRUE}, Overlap <- FALSE,
    MaxFaults <- 3

(* A task whose settlement goes through, with everything else failing.     *)
QiniuTask == INSTANCE RealtimeWallet WITH
    Repairers <- {CHOOSE r \in Repairers : TRUE}, IsTask <- TRUE,
    SettleFaults <- {}, MaxFaults <- 3

(* A database that fails the save of a stale row.                          *)
Row == INSTANCE SubscriptionRow WITH
    Requests <- Payers, Total <- RowTotal, Amounts <- RowAmounts, MaxPeriods <- RowPeriods,
    Serial <- TRUE, row <- subscription, pc <- step

billingVars == <<row, upstream, overdue, orphan, phase, todo, seen, job,
                 net, tokenNet, taskFaults, hurt>>
rowVars == <<subscription, period, step, amount, tx, since>>

MeteringInit ==
    /\ part \in {"application", "left row", "qiniu task",
                 "tasks", "faulty tasks", "mixed tasks", "subscription"}
    /\ CASE part = "left row" -> Left!Init
         [] part = "qiniu task" -> QiniuTask!Init
         [] OTHER -> Init
    /\ IF part = "mixed tasks" THEN Mixed!Init ELSE Task!Init
    /\ Row!Init

MeteringNext ==
    /\ UNCHANGED part
    /\ \/ part = "application" /\ Next /\ UNCHANGED <<billingVars, rowVars>>
       \/ part = "left row" /\ Left!Next /\ UNCHANGED <<billingVars, rowVars>>
       \/ part = "qiniu task" /\ QiniuTask!Next /\ UNCHANGED <<billingVars, rowVars>>
       \/ part = "tasks" /\ Task!Next /\ FaultFree /\ UNCHANGED <<vars, rowVars>>
       \/ part = "faulty tasks" /\ Task!Next /\ QiniuOnly /\ UNCHANGED <<vars, rowVars>>
       \/ part = "mixed tasks" /\ Mixed!Next /\ UNCHANGED <<vars, rowVars>>
       \/ part = "subscription" /\ Row!Next /\ UNCHANGED <<vars, billingVars>>

MeteringSpec == MeteringInit /\ [][MeteringNext]_<<part, vars, billingVars, rowVars>>

CONSTANTS video, qiniu
PollEstimates == (video :> 2) @@ (qiniu :> 1)
PollPrices == (video :> 2) @@ (qiniu :> 2)

Symmetry == Permutations(Loops)

(* Every request and every task is metered once, with rows, lists and jobs *)
(* of their types:                                                         *)
(*   RefundTaskQuota gives back no more than a task took, although both    *)
(*     nodes may see it fail or time out and any step may fail or repeat;  *)
(*   a task that has failed and that nobody works on has cost nothing,     *)
(*     unless a step failed (updateVideoSingleTask, sweepTimedOutTasks);   *)
(*   a task that has succeeded has cost what it came to, on token and      *)
(*     funding alike, also where loop and user write the same row          *)
(*     (RecalculateTaskQuota, UpdateSunoTasks, tryRealtimeFetch);          *)
(*   a request has one usage log if the scan meets only rows the request   *)
(*     has left, with a crash between the log and its mark                 *)
(*     (repairQiniuRealtimeApplication);                                   *)
(*   a Qiniu task whose settlement went through gives back what was        *)
(*     charged (RefundTaskQuota after PersistQiniuRealtimeTaskSettlement). *)
MeteredOnce ==
    CASE part \in {"tasks", "faulty tasks"} ->
            /\ Task!TaskTypeOK /\ Task!NeverRefundedTwice
            /\ Task!FailureIsRefunded /\ Task!SuccessIsCharged
      [] part = "mixed tasks" -> Mixed!TaskTypeOK /\ Mixed!SuccessIsCharged
      [] part = "left row" -> Left!OneLog
      [] part = "qiniu task" -> QiniuTask!RefundIsTheCharge
      [] OTHER -> TRUE

(* A Suno task gives back no more than it took either.  It does not hold:  *)
(* updateSunoTasks refunds before it saves the row, and saves it without   *)
(* the condition on the status that UpdateWithStatus makes.                *)
SunoRefundsOnce == part = "mixed tasks" => Mixed!NeverRefundedTwice

(* UpdateWithStatus: the outcome on which money was moved stays.           *)
OutcomeIsFinal ==
    [][(part \in {"tasks", "faulty tasks"}) => Task!OutcomeStays]_billingVars

(* PreConsumeUserSubscription: what requests took since the last reset is  *)
(* in amount_used, and within the total.                                   *)
TakenIsCounted == Row!TakenIsCounted
=============================================================================
