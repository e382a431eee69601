------------------------------ MODULE MeteringProofs ------------------------------
(***************************************************************************)
(* Proofs about what metering keeps, in two parts.                         *)
(*                                                                         *)
(* RealtimeInv is an invariant of RealtimeWallet, for any number of repair *)
(* scans, any quotas and any bound on the faults.  Each action has its     *)
(* lemma, each part of the invariant its step.  The heart of it is that a  *)
(* worker may act on an old copy of the row: the row only gains            *)
(* (CopyIsOlder), so an old copy never undoes or repeats a stage.          *)
(*                                                                         *)
(* TaskInv is an invariant of the tasks that any number of nodes polls and *)
(* sweeps.  The heart of it is that a list holds tasks that were open when *)
(* it was read (ListsAreOpen): so whoever wins an UPDATE ends a task that  *)
(* was open, nobody else has its money in hand (OneMoves), and what it has *)
(* cost is told by its row and by the job of that loop (CostsAreTrue).     *)
(***************************************************************************)
EXTENDS MCMetering, FiniteSums

USE RealtimeWalletAssumption
USE DEF Workers, Steps, StageSteps, Goto, After, Break, NoRow, NoTask, moneyVars, factVars, taskVars

(* The settlement of the session.                                          *)
LEMMA SettleKeeps ==
    ASSUME RealtimeInv, Settle
    PROVE  RealtimeInv'
<1>1. RealtimeWalletTypeOK'
  <2>1. charged' \in Nat /\ tokenCharged' \in Int /\ faults' \in 0..MaxFaults
    BY DEF Settle, RealtimeInv, RealtimeWalletTypeOK
  <2>2. settlementApplied' \in BOOLEAN
    BY DEF Settle, RealtimeInv, RealtimeWalletTypeOK
  <2> QED  BY <2>1, <2>2 DEF Settle, RealtimeInv, RealtimeWalletTypeOK
<1>2. (pc \in [Workers -> Steps])'
  BY DEF Settle, RealtimeInv
<1>3. RowIsTrue'
  BY DEF Settle, RealtimeInv, RowIsTrue, RowToCome
<1>4. RowToCome'
  BY DEF Settle, RealtimeInv, RowToCome
<1>5. StagesInOrder'
  BY DEF Settle, RealtimeInv, StagesInOrder
<1>6. CopyIsOlder'
  BY DEF Settle, RealtimeInv, CopyIsOlder
<1> QED  BY <1>1, <1>2, <1>3, <1>4, <1>5, <1>6 DEF RealtimeInv

(* The row of a settlement that failed.                                    *)
LEMMA recordQiniuRealtimeWalletFailureKeeps ==
    ASSUME RealtimeInv, recordQiniuRealtimeWalletFailure
    PROVE  RealtimeInv'
<1>1. RealtimeWalletTypeOK'
  <2>1. app' \in [exists : BOOLEAN, settled : BOOLEAN, stats : BOOLEAN, log : BOOLEAN, usage : BOOLEAN,
                   logId : BOOLEAN, flow : BOOLEAN, status : {"failed", "applied"}]
    BY DEF recordQiniuRealtimeWalletFailure, NewRow
  <2>2. UNCHANGED <<moneyVars, factVars, copy, settlementApplied, taskVars, faults>>
    BY DEF recordQiniuRealtimeWalletFailure
  <2> QED  BY <2>1, <2>2 DEF RealtimeInv, RealtimeWalletTypeOK
<1>2. (pc \in [Workers -> Steps])'
  BY DEF recordQiniuRealtimeWalletFailure, RealtimeInv
<1>3. RowIsTrue'
  BY DEF recordQiniuRealtimeWalletFailure, RealtimeInv, RowIsTrue, RowToCome, NewRow
<1>4. RowToCome'
  BY DEF recordQiniuRealtimeWalletFailure, RealtimeInv, RowToCome
<1>5. StagesInOrder'
  BY DEF recordQiniuRealtimeWalletFailure, RealtimeInv, RowToCome, StagesInOrder
<1>6. CopyIsOlder'
  BY DEF recordQiniuRealtimeWalletFailure, RealtimeInv, RowIsTrue, RowToCome, CopyIsOlder, NewRow
<1> QED  BY <1>1, <1>2, <1>3, <1>4, <1>5, <1>6 DEF RealtimeInv

(* The row of a settlement that went through.                              *)
LEMMA reserveQiniuRealtimeWalletApplicationKeeps ==
    ASSUME RealtimeInv, reserveQiniuRealtimeWalletApplication
    PROVE  RealtimeInv'
<1>1. RealtimeWalletTypeOK'
  <2>1. app' \in [exists : BOOLEAN, settled : BOOLEAN, stats : BOOLEAN, log : BOOLEAN, usage : BOOLEAN,
                   logId : BOOLEAN, flow : BOOLEAN, status : {"failed", "applied"}]
    BY DEF reserveQiniuRealtimeWalletApplication, NewRow
  <2>2. UNCHANGED <<moneyVars, factVars, copy, settlementApplied, taskVars, faults>>
    BY DEF reserveQiniuRealtimeWalletApplication
  <2> QED  BY <2>1, <2>2 DEF RealtimeInv, RealtimeWalletTypeOK
<1>2. (pc \in [Workers -> Steps])'
  BY DEF reserveQiniuRealtimeWalletApplication, RealtimeInv
<1>3. RowIsTrue'
  BY DEF reserveQiniuRealtimeWalletApplication, RealtimeInv, RowIsTrue, RowToCome, NewRow
<1>4. RowToCome'
  BY DEF reserveQiniuRealtimeWalletApplication, RealtimeInv, RowToCome
<1>5. StagesInOrder'
  BY DEF reserveQiniuRealtimeWalletApplication, RealtimeInv, RowToCome, StagesInOrder, NewRow
<1>6. CopyIsOlder'
  BY DEF reserveQiniuRealtimeWalletApplication, RealtimeInv, RowIsTrue, RowToCome, CopyIsOlder, NewRow
<1> QED  BY <1>1, <1>2, <1>3, <1>4, <1>5, <1>6 DEF RealtimeInv

(* The statistics: the flag of the row counts them once.                   *)
LEMMA restoreQiniuRealtimeUsageStatsKeeps ==
    ASSUME RealtimeInv, NEW w \in Workers, restoreQiniuRealtimeUsageStats(w)
    PROVE  RealtimeInv'
<1>1. RealtimeWalletTypeOK'
  <2>1. stats' \in Nat
    BY DEF restoreQiniuRealtimeUsageStats, RealtimeInv, RealtimeWalletTypeOK
  <2>2. /\ (app.usage \/ app.log) \in BOOLEAN
        /\ app' = [app EXCEPT !.stats = TRUE, !.usage = app.usage \/ app.log]
    BY DEF restoreQiniuRealtimeUsageStats
  <2>3. app' \in [exists : BOOLEAN, settled : BOOLEAN, stats : BOOLEAN, log : BOOLEAN, usage : BOOLEAN,
                  logId : BOOLEAN, flow : BOOLEAN, status : {"failed", "applied"}]
    BY <2>2 DEF RealtimeInv, RealtimeWalletTypeOK
  <2> QED  BY <2>1, <2>3 DEF restoreQiniuRealtimeUsageStats, RealtimeInv, RealtimeWalletTypeOK
<1>2. (pc \in [Workers -> Steps])'
  BY DEF restoreQiniuRealtimeUsageStats, RealtimeInv
<1>3. RowIsTrue'
  BY DEF restoreQiniuRealtimeUsageStats, RealtimeInv, RealtimeWalletTypeOK, RowIsTrue, StagesInOrder
<1>4. RowToCome'
  BY DEF restoreQiniuRealtimeUsageStats, RealtimeInv, RowToCome
<1>5. StagesInOrder'
  BY DEF restoreQiniuRealtimeUsageStats, RealtimeInv, StagesInOrder
<1>6. CopyIsOlder'
  BY DEF restoreQiniuRealtimeUsageStats, RealtimeInv, RealtimeWalletTypeOK, CopyIsOlder
<1> QED  BY <1>1, <1>2, <1>3, <1>4, <1>5, <1>6 DEF RealtimeInv

(* The search for the log.                                                 *)
LEMMA LookForLogKeeps ==
    ASSUME RealtimeInv, NEW w \in Workers, LookForLog(w)
    PROVE  RealtimeInv'
<1>1. RealtimeWalletTypeOK'
  BY DEF LookForLog, RealtimeInv, RealtimeWalletTypeOK
<1>2. (pc \in [Workers -> Steps])'
  BY DEF LookForLog, RealtimeInv
<1>3. RowIsTrue'
  BY DEF LookForLog, RealtimeInv, RowIsTrue
<1>4. RowToCome'
  BY DEF LookForLog, RealtimeInv, RowToCome
<1>5. StagesInOrder'
  BY DEF LookForLog, RealtimeInv, RowIsTrue, StagesInOrder
<1>6. CopyIsOlder'
  BY DEF LookForLog, RealtimeInv, RealtimeWalletTypeOK, RowIsTrue, RowToCome, StagesInOrder, CopyIsOlder
<1> QED  BY <1>1, <1>2, <1>3, <1>4, <1>5, <1>6 DEF RealtimeInv

(* The log itself.                                                         *)
LEMMA CreateLogKeeps ==
    ASSUME RealtimeInv, NEW w \in Workers, CreateLog(w)
    PROVE  RealtimeInv'
<1>1. RealtimeWalletTypeOK'
  BY DEF CreateLog, RealtimeInv, RealtimeWalletTypeOK
<1>2. (pc \in [Workers -> Steps])'
  BY DEF CreateLog, RealtimeInv
<1>3. RowIsTrue'
  BY DEF CreateLog, RealtimeInv, RealtimeWalletTypeOK, RowIsTrue
<1>4. RowToCome'
  BY DEF CreateLog, RealtimeInv, RowToCome
<1>5. StagesInOrder'
  BY DEF CreateLog, RealtimeInv, RealtimeWalletTypeOK, StagesInOrder
<1>6. CopyIsOlder'
  BY DEF CreateLog, RealtimeInv, CopyIsOlder
<1> QED  BY <1>1, <1>2, <1>3, <1>4, <1>5, <1>6 DEF RealtimeInv

(* The flag of the log.                                                    *)
LEMMA markQiniuRealtimeUsageLogAppliedKeeps ==
    ASSUME RealtimeInv, NEW w \in Workers, markQiniuRealtimeUsageLogApplied(w)
    PROVE  RealtimeInv'
<1>1. RealtimeWalletTypeOK'
  BY DEF markQiniuRealtimeUsageLogApplied, RealtimeInv, RealtimeWalletTypeOK
<1>2. (pc \in [Workers -> Steps])'
  BY DEF markQiniuRealtimeUsageLogApplied, RealtimeInv
<1>3. RowIsTrue'
  BY DEF markQiniuRealtimeUsageLogApplied, RealtimeInv, RowIsTrue, StagesInOrder
<1>4. RowToCome'
  BY DEF markQiniuRealtimeUsageLogApplied, RealtimeInv, RowToCome
<1>5. StagesInOrder'
  BY DEF markQiniuRealtimeUsageLogApplied, RealtimeInv, StagesInOrder
<1>6. CopyIsOlder'
  BY DEF markQiniuRealtimeUsageLogApplied, RealtimeInv, RealtimeWalletTypeOK, CopyIsOlder
<1> QED  BY <1>1, <1>2, <1>3, <1>4, <1>5, <1>6 DEF RealtimeInv

(* The row that the entry in the wallet leaves: flags that a copy brings   *)
(* are set already, so only the entry and the status are new.              *)
LEMMA FlowLeaves ==
    ASSUME RealtimeInv, NEW w \in Workers, applyQiniuRealtimeWalletFlow(w)
    PROVE  /\ app.exists /\ app.settled /\ app.stats
           /\ flows' = 1
           /\ \/ app' = app /\ app.flow /\ app.usage
              \/ app' = [app EXCEPT !.usage = app.usage \/ app.log, !.flow = TRUE,
                                    !.status = FlowStatus(app.usage \/ app.log)]
<1> DEFINE in == qiniuRealtimeUsageStateFromInput(w)
           st == in.stats \/ app.stats \/ app.usage
           lg == in.log \/ app.log \/ app.usage
<1>1. app.settled /\ app.stats /\ app.exists
  BY DEF applyQiniuRealtimeWalletFlow, RealtimeInv, StagesInOrder, RowIsTrue
<1>2. st /\ (lg <=> app.log)
  <2>1. app.usage => app.log
    BY DEF RealtimeInv, RowIsTrue
  <2>2. CASE w = Online
    <3>1. in.log => app.log
      BY <2>1, <2>2 DEF qiniuRealtimeUsageStateFromInput, RealtimeInv, CopyIsOlder, RowIsTrue
    <3> QED  BY <1>1, <2>1, <3>1
  <2>3. CASE w # Online
    <3>1. app.usage
      BY <2>3 DEF applyQiniuRealtimeWalletFlow, RealtimeInv, StagesInOrder, CopyIsOlder
    <3> QED  BY <1>1, <2>1, <3>1
  <2> QED  BY <2>2, <2>3
<1>3. flows' = 1
  BY DEF applyQiniuRealtimeWalletFlow, RealtimeInv, RowIsTrue
<1>4. CASE app.status = "applied" /\ app.flow /\ app.settled /\ app.usage
  BY <1>1, <1>3, <1>4 DEF applyQiniuRealtimeWalletFlow
<1>5. CASE ~(app.status = "applied" /\ app.flow /\ app.settled /\ app.usage)
  <2>1. app' = [app EXCEPT !.settled = TRUE, !.stats = st, !.log = lg,
                           !.usage = app.usage \/ (st /\ lg), !.flow = TRUE,
                           !.status = FlowStatus(app.usage \/ (st /\ lg))]
    BY <1>5 DEF applyQiniuRealtimeWalletFlow
  <2>2. /\ app.settled = TRUE /\ app.stats = TRUE /\ app.log \in BOOLEAN
        /\ st = TRUE /\ lg = app.log /\ (app.usage \/ (st /\ lg)) = (app.usage \/ app.log)
    BY <1>1, <1>2 DEF RealtimeInv, RealtimeWalletTypeOK
  <2> HIDE DEF st, lg
  <2>3. app' = [app EXCEPT !.usage = app.usage \/ app.log, !.flow = TRUE,
                           !.status = FlowStatus(app.usage \/ app.log)]
    BY <2>1, <2>2 DEF RealtimeWalletTypeOK
  <2> QED  BY <1>1, <1>3, <2>3
<1> QED  BY <1>4, <1>5

(* The entry in the wallet.                                                *)
LEMMA applyQiniuRealtimeWalletFlowKeeps ==
    ASSUME RealtimeInv, NEW w \in Workers, applyQiniuRealtimeWalletFlow(w)
    PROVE  RealtimeInv'
<1>0. /\ UNCHANGED <<moneyVars, stats, logs, copy, settlementApplied, taskVars, faults>>
      /\ pc[w] \in {"flow", "flowAfterLogError"}
      /\ pc' = [pc EXCEPT ![w] = IF pc[w] = "flowAfterLogError" THEN "fail"
                                 ELSE IF w = Online THEN After(w) ELSE "task"]
  BY DEF applyQiniuRealtimeWalletFlow
<1>a. /\ app' \in [exists : BOOLEAN, settled : BOOLEAN, stats : BOOLEAN, log : BOOLEAN, usage : BOOLEAN,
                   logId : BOOLEAN, flow : BOOLEAN, status : {"failed", "applied"}]
      /\ app'.exists = app.exists /\ app'.settled = app.settled /\ app'.stats = app.stats
      /\ app'.log = app.log /\ app'.logId = app.logId /\ (app.usage => app'.usage)
      /\ app'.flow /\ (app'.usage => app.usage \/ app.log) /\ (app'.status = "applied" => app'.usage)
  <2>1. CASE app' = app /\ app.flow /\ app.usage
    BY <2>1 DEF RealtimeInv, RealtimeWalletTypeOK
  <2>2. ASSUME NEW u \in BOOLEAN, NEW x \in {"failed", "applied"}, x = "applied" => u,
               u <=> app.usage \/ app.log,
               app' = [app EXCEPT !.usage = u, !.flow = TRUE, !.status = x]
        PROVE  <1>a!1 /\ <1>a!2 /\ <1>a!3 /\ <1>a!4
    BY <2>2 DEF RealtimeInv, RealtimeWalletTypeOK
  <2>3. CASE app' = [app EXCEPT !.usage = app.usage \/ app.log, !.flow = TRUE,
                                !.status = FlowStatus(app.usage \/ app.log)]
    <3>1. /\ (app.usage \/ app.log) \in BOOLEAN
          /\ FlowStatus(app.usage \/ app.log) \in {"failed", "applied"}
          /\ FlowStatus(app.usage \/ app.log) = "applied" => app.usage \/ app.log
      BY DEF FlowStatus
    <3> QED  BY <2>2, <2>3, <3>1
  <2> QED  BY <2>1, <2>3, FlowLeaves
<1>1. RealtimeWalletTypeOK'
  BY <1>0, <1>a, FlowLeaves DEF RealtimeInv, RealtimeWalletTypeOK
<1>2. (pc \in [Workers -> Steps])'
  BY <1>0 DEF RealtimeInv
<1>3. RowIsTrue'
  BY <1>0, <1>a, FlowLeaves DEF RealtimeInv, RowIsTrue
<1>4. RowToCome'
  BY <1>0, <1>a, FlowLeaves DEF RealtimeInv, RowToCome
<1>5. StagesInOrder'
  BY <1>0, <1>a DEF RealtimeInv, StagesInOrder
<1>6. CopyIsOlder'
  BY <1>0, <1>a DEF RealtimeInv, CopyIsOlder
<1> QED  BY <1>1, <1>2, <1>3, <1>4, <1>5, <1>6 DEF RealtimeInv

(* A late mark of failure takes nothing but the status.                    *)
LEMMA markQiniuRealtimeWalletApplicationFailedKeeps ==
    ASSUME RealtimeInv, NEW w \in Workers, markQiniuRealtimeWalletApplicationFailed(w)
    PROVE  RealtimeInv'
<1>1. RealtimeWalletTypeOK'
  BY DEF markQiniuRealtimeWalletApplicationFailed, RealtimeInv, RealtimeWalletTypeOK
<1>2. (pc \in [Workers -> Steps])'
  BY DEF markQiniuRealtimeWalletApplicationFailed, RealtimeInv
<1>3. RowIsTrue'
  BY DEF markQiniuRealtimeWalletApplicationFailed, RealtimeInv, RealtimeWalletTypeOK, RowIsTrue, RowToCome, StagesInOrder, CopyIsOlder
<1>4. RowToCome'
  BY DEF markQiniuRealtimeWalletApplicationFailed, RealtimeInv, RealtimeWalletTypeOK, RowToCome
<1>5. StagesInOrder'
  BY DEF markQiniuRealtimeWalletApplicationFailed, RealtimeInv, RealtimeWalletTypeOK, StagesInOrder
<1>6. CopyIsOlder'
  BY DEF markQiniuRealtimeWalletApplicationFailed, RealtimeInv, RealtimeWalletTypeOK, CopyIsOlder
<1> QED  BY <1>1, <1>2, <1>3, <1>4, <1>5, <1>6 DEF RealtimeInv

(* The settlement noted for the task.                                      *)
LEMMA BuildQiniuRealtimeTaskSettlementKeeps ==
    ASSUME RealtimeInv, BuildQiniuRealtimeTaskSettlement
    PROVE  RealtimeInv'
<1>1. RealtimeWalletTypeOK'
  BY DEF BuildQiniuRealtimeTaskSettlement, RealtimeInv, RealtimeWalletTypeOK
<1>2. (pc \in [Workers -> Steps])'
  BY DEF BuildQiniuRealtimeTaskSettlement, RealtimeInv
<1>3. RowIsTrue'
  BY DEF BuildQiniuRealtimeTaskSettlement, RealtimeInv, RowIsTrue
<1>4. RowToCome'
  BY DEF BuildQiniuRealtimeTaskSettlement, RealtimeInv, RowToCome
<1>5. StagesInOrder'
  BY DEF BuildQiniuRealtimeTaskSettlement, RealtimeInv, StagesInOrder
<1>6. CopyIsOlder'
  BY DEF BuildQiniuRealtimeTaskSettlement, RealtimeInv, CopyIsOlder
<1> QED  BY <1>1, <1>2, <1>3, <1>4, <1>5, <1>6 DEF RealtimeInv

(* The row of the task.                                                    *)
LEMMA InsertTaskKeeps ==
    ASSUME RealtimeInv, InsertTask
    PROVE  RealtimeInv'
<1>1. RealtimeWalletTypeOK'
  BY DEF InsertTask, RealtimeInv, RealtimeWalletTypeOK
<1>2. (pc \in [Workers -> Steps])'
  BY DEF InsertTask, RealtimeInv
<1>3. RowIsTrue'
  BY DEF InsertTask, RealtimeInv, RowIsTrue
<1>4. RowToCome'
  BY DEF InsertTask, RealtimeInv, RowToCome
<1>5. StagesInOrder'
  BY DEF InsertTask, RealtimeInv, StagesInOrder
<1>6. CopyIsOlder'
  BY DEF InsertTask, RealtimeInv, CopyIsOlder
<1> QED  BY <1>1, <1>2, <1>3, <1>4, <1>5, <1>6 DEF RealtimeInv

(* The scan.                                                               *)
LEMMA ScanFailedQiniuRealtimeWalletApplicationsKeeps ==
    ASSUME RealtimeInv, NEW r \in Repairers, ScanFailedQiniuRealtimeWalletApplications(r)
    PROVE  RealtimeInv'
<1>1. RealtimeWalletTypeOK'
  BY DEF ScanFailedQiniuRealtimeWalletApplications, RealtimeInv, RealtimeWalletTypeOK, Due
<1>2. (pc \in [Workers -> Steps])'
  BY DEF ScanFailedQiniuRealtimeWalletApplications, RealtimeInv, Due
<1>3. RowIsTrue'
  BY DEF ScanFailedQiniuRealtimeWalletApplications, RealtimeInv, RowIsTrue, Due
<1>4. RowToCome'
  BY DEF ScanFailedQiniuRealtimeWalletApplications, RealtimeInv, RowToCome, Due
<1>5. StagesInOrder'
  BY DEF ScanFailedQiniuRealtimeWalletApplications, RealtimeInv, StagesInOrder, Due
<1>6. CopyIsOlder'
  BY DEF ScanFailedQiniuRealtimeWalletApplications, RealtimeInv, CopyIsOlder, Due
<1> QED  BY <1>1, <1>2, <1>3, <1>4, <1>5, <1>6 DEF RealtimeInv

(* The choice of the stage to repair.                                      *)
LEMMA RepairQiniuRealtimeWalletApplicationKeeps ==
    ASSUME RealtimeInv, NEW r \in Repairers, RepairQiniuRealtimeWalletApplication(r)
    PROVE  RealtimeInv'
<1>1. RealtimeWalletTypeOK'
  BY DEF RepairQiniuRealtimeWalletApplication, RealtimeInv, RealtimeWalletTypeOK
<1>2. (pc \in [Workers -> Steps])'
  BY DEF RepairQiniuRealtimeWalletApplication, RealtimeInv
<1>3. RowIsTrue'
  BY DEF RepairQiniuRealtimeWalletApplication, RealtimeInv, RowIsTrue
<1>4. RowToCome'
  BY DEF RepairQiniuRealtimeWalletApplication, RealtimeInv, RowToCome
<1>5. StagesInOrder'
  BY DEF RepairQiniuRealtimeWalletApplication, RealtimeInv, RealtimeWalletTypeOK, RowIsTrue, RowToCome, StagesInOrder, CopyIsOlder
<1>6. CopyIsOlder'
  BY DEF RepairQiniuRealtimeWalletApplication, RealtimeInv, RealtimeWalletTypeOK, RowIsTrue, RowToCome, StagesInOrder, CopyIsOlder
<1> QED  BY <1>1, <1>2, <1>3, <1>4, <1>5, <1>6 DEF RealtimeInv

(* The settlement tried again: the lock of the row lets it happen once.    *)
LEMMA retryQiniuRealtimeWalletSettlementKeeps ==
    ASSUME RealtimeInv, NEW r \in Repairers, retryQiniuRealtimeWalletSettlement(r)
    PROVE  RealtimeInv'
<1>1. RealtimeWalletTypeOK'
  <2>1. app.exists
    BY DEF retryQiniuRealtimeWalletSettlement, RealtimeInv, RowToCome
  <2>2. charged' \in Nat
    BY <2>1 DEF retryQiniuRealtimeWalletSettlement, RealtimeInv, RowIsTrue
  <2>3. app' = app \/ app' = [app EXCEPT !.settled = TRUE]
    BY DEF retryQiniuRealtimeWalletSettlement
  <2>4. app' \in [exists : BOOLEAN, settled : BOOLEAN, stats : BOOLEAN, log : BOOLEAN, usage : BOOLEAN,
                   logId : BOOLEAN, flow : BOOLEAN, status : {"failed", "applied"}]
    BY <2>3 DEF RealtimeInv, RealtimeWalletTypeOK
  <2>5. UNCHANGED <<tokenCharged, factVars, copy, settlementApplied, taskVars, faults>>
    BY DEF retryQiniuRealtimeWalletSettlement
  <2> QED  BY <2>2, <2>4, <2>5 DEF RealtimeInv, RealtimeWalletTypeOK
<1>2. (pc \in [Workers -> Steps])'
  BY DEF retryQiniuRealtimeWalletSettlement, RealtimeInv, RealtimeWalletTypeOK, RowIsTrue, RowToCome, StagesInOrder, CopyIsOlder
<1>3. RowIsTrue'
  BY DEF retryQiniuRealtimeWalletSettlement, RealtimeInv, RealtimeWalletTypeOK, RowIsTrue, RowToCome
<1>4. RowToCome'
  BY DEF retryQiniuRealtimeWalletSettlement, RealtimeInv, RealtimeWalletTypeOK, RowToCome
<1>5. StagesInOrder'
  BY DEF retryQiniuRealtimeWalletSettlement, RealtimeInv, StagesInOrder
<1>6. CopyIsOlder'
  BY DEF retryQiniuRealtimeWalletSettlement, RealtimeInv, RealtimeWalletTypeOK, CopyIsOlder
<1> QED  BY <1>1, <1>2, <1>3, <1>4, <1>5, <1>6 DEF RealtimeInv

(* The token after it.                                                     *)
LEMMA AdjustTokenKeeps ==
    ASSUME RealtimeInv, NEW r \in Repairers, AdjustToken(r)
    PROVE  RealtimeInv'
<1>1. RealtimeWalletTypeOK'
  BY DEF AdjustToken, RealtimeInv, RealtimeWalletTypeOK
<1>2. (pc \in [Workers -> Steps])'
  BY DEF AdjustToken, RealtimeInv
<1>3. RowIsTrue'
  BY DEF AdjustToken, RealtimeInv, RowIsTrue
<1>4. RowToCome'
  BY DEF AdjustToken, RealtimeInv, RowToCome
<1>5. StagesInOrder'
  BY DEF AdjustToken, RealtimeInv, StagesInOrder
<1>6. CopyIsOlder'
  BY DEF AdjustToken, RealtimeInv, CopyIsOlder
<1> QED  BY <1>1, <1>2, <1>3, <1>4, <1>5, <1>6 DEF RealtimeInv

(* The mark on the task.                                                   *)
LEMMA markQiniuRealtimeTaskSettlementAppliedKeeps ==
    ASSUME RealtimeInv, NEW r \in Repairers, markQiniuRealtimeTaskSettlementApplied(r)
    PROVE  RealtimeInv'
<1>1. RealtimeWalletTypeOK'
  <2>1. task' = task \/ task' = [task EXCEPT !.settled = TRUE, !.quota = Actual]
    BY DEF markQiniuRealtimeTaskSettlementApplied
  <2>2. task' \in [status : {"none", "running", "succeeded", "failed"}, quota : {0, Pre, Actual},
                   settled : BOOLEAN, app : BOOLEAN]
    BY <2>1 DEF RealtimeInv, RealtimeWalletTypeOK
  <2>3. UNCHANGED <<app, moneyVars, factVars, copy, settlementApplied, polled, refunded, faults>>
    BY DEF markQiniuRealtimeTaskSettlementApplied
  <2> QED  BY <2>2, <2>3 DEF RealtimeInv, RealtimeWalletTypeOK
<1>2. (pc \in [Workers -> Steps])'
  BY DEF markQiniuRealtimeTaskSettlementApplied, RealtimeInv
<1>3. RowIsTrue'
  BY DEF markQiniuRealtimeTaskSettlementApplied, RealtimeInv, RowIsTrue
<1>4. RowToCome'
  BY DEF markQiniuRealtimeTaskSettlementApplied, RealtimeInv, RowToCome
<1>5. StagesInOrder'
  BY DEF markQiniuRealtimeTaskSettlementApplied, RealtimeInv, StagesInOrder
<1>6. CopyIsOlder'
  BY DEF markQiniuRealtimeTaskSettlementApplied, RealtimeInv, CopyIsOlder
<1> QED  BY <1>1, <1>2, <1>3, <1>4, <1>5, <1>6 DEF RealtimeInv

(* The polling loop reads the task.                                        *)
LEMMA PollReadsKeeps ==
    ASSUME RealtimeInv, PollReads
    PROVE  RealtimeInv'
<1>1. RealtimeWalletTypeOK'
  BY DEF PollReads, RealtimeInv, RealtimeWalletTypeOK
<1>2. (pc \in [Workers -> Steps])'
  BY DEF PollReads, RealtimeInv
<1>3. RowIsTrue'
  BY DEF PollReads, RealtimeInv, RowIsTrue
<1>4. RowToCome'
  BY DEF PollReads, RealtimeInv, RowToCome
<1>5. StagesInOrder'
  BY DEF PollReads, RealtimeInv, StagesInOrder
<1>6. CopyIsOlder'
  BY DEF PollReads, RealtimeInv, CopyIsOlder
<1> QED  BY <1>1, <1>2, <1>3, <1>4, <1>5, <1>6 DEF RealtimeInv

(* The polling loop saves the task.                                        *)
LEMMA PollSavesKeeps ==
    ASSUME RealtimeInv, NEW s \in {"running", "succeeded", "failed"}, PollSaves(s)
    PROVE  RealtimeInv'
<1>1. RealtimeWalletTypeOK'
  BY DEF PollSaves, RealtimeInv, RealtimeWalletTypeOK, taskRefundQuota
<1>2. (pc \in [Workers -> Steps])'
  BY DEF PollSaves, RealtimeInv, taskRefundQuota
<1>3. RowIsTrue'
  BY DEF PollSaves, RealtimeInv, RowIsTrue, taskRefundQuota
<1>4. RowToCome'
  BY DEF PollSaves, RealtimeInv, RowToCome, taskRefundQuota
<1>5. StagesInOrder'
  BY DEF PollSaves, RealtimeInv, StagesInOrder, taskRefundQuota
<1>6. CopyIsOlder'
  BY DEF PollSaves, RealtimeInv, CopyIsOlder, taskRefundQuota
<1> QED  BY <1>1, <1>2, <1>3, <1>4, <1>5, <1>6 DEF RealtimeInv

(* A step that the database refuses.                                       *)
LEMMA StepFailsKeeps ==
    ASSUME RealtimeInv, NEW w \in Workers, StepFails(w)
    PROVE  RealtimeInv'
<1>1. RealtimeWalletTypeOK'
  BY DEF StepFails, RealtimeInv, RealtimeWalletTypeOK
<1>2. (pc \in [Workers -> Steps])'
  BY DEF StepFails, RealtimeInv
<1>3. RowIsTrue'
  BY DEF StepFails, RealtimeInv, RowIsTrue
<1>4. RowToCome'
  BY DEF StepFails, RealtimeInv, RowToCome
<1>5. StagesInOrder'
  BY DEF StepFails, RealtimeInv, StagesInOrder
<1>6. CopyIsOlder'
  BY DEF StepFails, RealtimeInv, CopyIsOlder
<1> QED  BY <1>1, <1>2, <1>3, <1>4, <1>5, <1>6 DEF RealtimeInv

(* The death of a process.                                                 *)
LEMMA CrashKeeps ==
    ASSUME RealtimeInv, NEW w \in Workers, Crash(w)
    PROVE  RealtimeInv'
<1>1. RealtimeWalletTypeOK'
  BY DEF Crash, RealtimeInv, RealtimeWalletTypeOK
<1>2. (pc \in [Workers -> Steps])'
  BY DEF Crash, RealtimeInv
<1>3. RowIsTrue'
  BY DEF Crash, RealtimeInv, RowIsTrue
<1>4. RowToCome'
  BY DEF Crash, RealtimeInv, RowToCome
<1>5. StagesInOrder'
  BY DEF Crash, RealtimeInv, StagesInOrder
<1>6. CopyIsOlder'
  BY DEF Crash, RealtimeInv, CopyIsOlder
<1> QED  BY <1>1, <1>2, <1>3, <1>4, <1>5, <1>6 DEF RealtimeInv

(* RealtimeInv holds of the row, the workers and what was recorded, in     *)
(* every state of the online flow and of the repair.                       *)
THEOREM RealtimeInvariant == Spec => []RealtimeInv
<1>1. Init => RealtimeInv
  <2> SUFFICES ASSUME Init PROVE RealtimeInv
    OBVIOUS
  <2>1. RealtimeWalletTypeOK
    BY DEF Init, RealtimeWalletTypeOK
  <2>2. pc \in [Workers -> Steps]
    BY DEF Init
  <2>3. RowIsTrue
    BY DEF Init, RowIsTrue
  <2>4. RowToCome
    BY DEF Init, RowToCome
  <2>5. StagesInOrder
    BY DEF Init, StagesInOrder
  <2>6. CopyIsOlder
    BY DEF Init, CopyIsOlder
  <2> QED  BY <2>1, <2>2, <2>3, <2>4, <2>5, <2>6 DEF RealtimeInv
<1>2. RealtimeInv /\ [Next]_vars => RealtimeInv'
  <2> SUFFICES ASSUME RealtimeInv, [Next]_vars
               PROVE  RealtimeInv'
    OBVIOUS
  <2>1. ASSUME NEW w \in Workers, Stage(w)
        PROVE  RealtimeInv'
    BY <2>1, restoreQiniuRealtimeUsageStatsKeeps, LookForLogKeeps, CreateLogKeeps,
       markQiniuRealtimeUsageLogAppliedKeeps, applyQiniuRealtimeWalletFlowKeeps,
       markQiniuRealtimeWalletApplicationFailedKeeps DEF Stage
  <2>2. CASE OnlineStep
    BY <2>1, <2>2, SettleKeeps, recordQiniuRealtimeWalletFailureKeeps,
       reserveQiniuRealtimeWalletApplicationKeeps, BuildQiniuRealtimeTaskSettlementKeeps,
       InsertTaskKeeps DEF OnlineStep
  <2>3. ASSUME NEW r \in Repairers, RepairStep(r)
        PROVE  RealtimeInv'
    BY <2>1, <2>3, ScanFailedQiniuRealtimeWalletApplicationsKeeps,
       RepairQiniuRealtimeWalletApplicationKeeps, retryQiniuRealtimeWalletSettlementKeeps,
       AdjustTokenKeeps, markQiniuRealtimeTaskSettlementAppliedKeeps DEF RepairStep
  <2>4. CASE PollStep
    BY <2>4, PollReadsKeeps, PollSavesKeeps DEF PollStep
  <2>5. CASE \E w \in Workers : StepFails(w) \/ Crash(w)
    BY <2>5, StepFailsKeeps, CrashKeeps
  <2>6. CASE UNCHANGED vars
    BY <2>6 DEF vars, RealtimeInv, RealtimeWalletTypeOK, RowIsTrue, RowToCome, StagesInOrder, CopyIsOlder
  <2> QED  BY <2>2, <2>3, <2>4, <2>5, <2>6 DEF Next
<1> QED  BY <1>1, <1>2, PTL DEF Spec

(* However many nodes repair a request, and whatever fails: the difference *)
(* is charged once, the request is counted once and has one wallet entry,  *)
(* and a row reported as applied lacks neither charge, statistics, log nor *)
(* wallet entry.                                                           *)
THEOREM RepairIsExact == Spec => []AppliedExactly
<1>1. RealtimeInv => FactsOnce
  BY DEF RealtimeInv, RowIsTrue, RowToCome, FactsOnce
<1>2. RealtimeInv => AppliedIsComplete
  BY DEF RealtimeInv, RowIsTrue, AppliedIsComplete
<1>3. RealtimeInv => AppliedExactly
  BY <1>1, <1>2 DEF AppliedExactly
<1> QED  BY <1>3, RealtimeInvariant, PTL

HIDE RealtimeWalletAssumption
HIDE DEF Workers, Steps, StageSteps, Goto, After, Break, NoRow, NoTask, moneyVars, factVars, taskVars

(***************************************************************************)
(* The tasks                                                               *)
(***************************************************************************)

Open == {"NOT_START", "IN_PROGRESS"}

(* A loop works from a list that it read while the tasks on it were open,  *)
(* and on one of them at a time.                                           *)
ListsAreOpen ==
    /\ \A l \in Loops : \A t \in todo[l] : seen[l][t] \in Open /\ row[t].status # "ABSENT"
    /\ \A l \in Loops : phase[l] = "asleep" => todo[l] = {}
    /\ \A l \in Loops : job[l].step # "none" => job[l].task \in todo[l]

(* No task here is of Suno, so nothing is saved after the money was moved. *)
JobsAreVideos ==
    \A l \in Loops : /\ job[l].step # "save"
                     /\ job[l].step \in {"funding", "token"} => job[l].rest = Task!NoJob

Moves(l, t) == job[l].step \in {"funding", "token"} /\ job[l].task = t

(* One loop at most moves money for a task: the one that ended it.         *)
OneMoves == \A t \in Videos : \A l, m \in Loops : Moves(l, t) /\ Moves(m, t) => l = m

(* What a task that has ended may cost.                                    *)
Outcomes(t) == IF row[t].status = "FAILURE" THEN {0} ELSE Finals \ {0}

(* What a task has cost, from the charge to the end of its refund or       *)
(* correction.                                                             *)
ChargeIsTrue(t) ==
    /\ row[t].status = "ABSENT" => net[t] >= 0 /\ tokenNet[t] >= 0
    /\ row[t].status \in Open => net[t] = row[t].quota /\ tokenNet[t] = row[t].quota

MoveIsTrue(l, t) ==
    Moves(l, t) =>
        /\ row[t].status \in Task!Final /\ row[t].quota + job[l].delta \in Outcomes(t)
        /\ tokenNet[t] = row[t].quota
        /\ job[l].step = "funding" => net[t] = row[t].quota
        /\ job[l].step = "token" => net[t] = row[t].quota + job[l].delta

EndIsTrue(t) ==
    row[t].status \in Task!Final =>
        /\ net[t] \in {row[t].quota} \cup Outcomes(t) /\ tokenNet[t] \in {row[t].quota} \cup Outcomes(t)
        /\ t \notin hurt /\ (\A l \in Loops : ~Moves(l, t)) =>
              /\ net[t] = tokenNet[t]
              /\ row[t].status = "FAILURE" /\ t \notin Legacies => net[t] = 0

CostsAreTrue ==
    \A t \in Videos : ChargeIsTrue(t) /\ EndIsTrue(t) /\ \A l \in Loops : MoveIsTrue(l, t)

TaskInv == Task!TaskTypeOK /\ orphan = {} /\ ListsAreOpen /\ JobsAreVideos /\ OneMoves /\ CostsAreTrue

LEMMA JobFacts ==
    ASSUME NEW j \in Task!Jobs
    PROVE  /\ j.step \in {"none", "apply", "save", "funding", "token"}
           /\ j.step = "none" <=> j = Task!NoJob
           /\ j.step # "none" => j.task \in Videos
           /\ j.step = "apply" => j.status \in Task!Reports
           /\ j.step \in {"funding", "token"} => j.delta \in Int
BY DEF Task!Jobs, Task!NoJob

LEMMA NewJobs ==
    ASSUME NEW t \in Videos
    PROVE  /\ Task!NoJob \in Task!Jobs /\ Task!NoJob.step = "none"
           /\ \A s \in Task!Reports, r \in BOOLEAN :
                 /\ Task!Reply(t, s, r) \in Task!Jobs
                 /\ Task!Reply(t, s, r).step = "apply" /\ Task!Reply(t, s, r).task = t
           /\ \A d \in Int :
                 LET a == Task!Adjust(t, d, Task!NoJob)
                 IN  /\ a \in Task!Jobs /\ a.step = "funding" /\ a.task = t
                     /\ a.delta = d /\ a.rest = Task!NoJob
BY DEF Task!Jobs, Task!NoJob, Task!Reply, Task!Adjust

LEMMA NextMove ==
    ASSUME NEW j \in Task!Jobs, j.step = "funding"
    PROVE  LET k == [j EXCEPT !.step = "token"]
           IN  /\ k \in Task!Jobs /\ k.step = "token" /\ k.task = j.task
               /\ k.delta = j.delta /\ k.rest = j.rest
BY DEF Task!Jobs, Task!NoJob

(* The types of the state the proofs look at.                              *)
LEMMA TaskTypes ==
    ASSUME TaskInv
    PROVE  /\ row \in [Videos -> [status : Task!Statuses, done : BOOLEAN, quota : Nat]]
           /\ phase \in [Loops -> {"asleep", "sweep", "poll"}]
           /\ todo \in [Loops -> SUBSET Videos]
           /\ seen \in [Loops -> [Videos -> Task!Statuses]]
           /\ job \in [Loops -> Task!Jobs]
           /\ net \in [Videos -> Int] /\ tokenNet \in [Videos -> Int]
           /\ taskFaults \in 0 .. TaskFaults /\ hurt \subseteq Videos
           /\ upstream \in [Videos -> Task!Reports] /\ overdue \subseteq Videos /\ orphan = {}
BY DEF TaskInv, Task!TaskTypeOK, Task!Processes

(* Whoever goes on with its list, its lists stay open.                     *)
LEMMA ListsStayOpen ==
    ASSUME ListsAreOpen,
           \A l \in Loops : todo'[l] \subseteq todo[l] /\ seen'[l] = seen[l],
           \A l \in Loops : phase'[l] = phase[l] \/ todo'[l] = {},
           \A l \in Loops : job'[l].step # "none" => job'[l].task \in todo'[l],
           \A l \in Loops : \A t \in todo[l] : row[t].status # "ABSENT" => row'[t].status # "ABSENT"
    PROVE  ListsAreOpen'
BY DEF ListsAreOpen

(* Steps that leave the rows and the money alone: whoever gives up moving  *)
(* money hurts the task.                                                   *)
LEMMA CostsStayTrue ==
    ASSUME TaskInv, UNCHANGED <<row, net, tokenNet>>, hurt \subseteq hurt',
           \A l \in Loops :
              \/ job'[l] = job[l]
              \/ /\ job'[l].step \in {"none", "apply"}
                 /\ job[l].step \in {"funding", "token"} => job[l].task \in hurt'
    PROVE  JobsAreVideos' /\ OneMoves' /\ CostsAreTrue'
<1>1. \A l \in Loops : \A t \in Videos : Moves(l, t)' => Moves(l, t) /\ job'[l] = job[l]
  BY DEF Moves
<1>2. \A l \in Loops : \A t \in Videos : Moves(l, t) => Moves(l, t)' \/ t \in hurt'
  BY DEF Moves
<1>3. JobsAreVideos'
  BY DEF TaskInv, JobsAreVideos
<1>4. OneMoves'
  BY <1>1 DEF TaskInv, OneMoves
<1>5. ASSUME NEW t \in Videos
      PROVE  ChargeIsTrue(t)' /\ EndIsTrue(t)' /\ \A l \in Loops : MoveIsTrue(l, t)'
  <2>1. ChargeIsTrue(t) /\ EndIsTrue(t) /\ \A l \in Loops : MoveIsTrue(l, t)
    BY DEF TaskInv, CostsAreTrue
  <2>2. ChargeIsTrue(t)'
    BY <2>1 DEF ChargeIsTrue
  <2>3. Outcomes(t)' = Outcomes(t)
    BY DEF Outcomes
  <2>4. EndIsTrue(t)'
    BY <1>2, <2>1, <2>3 DEF EndIsTrue
  <2>5. \A l \in Loops : MoveIsTrue(l, t)'
    BY <1>1, <2>1, <2>3 DEF MoveIsTrue
  <2> QED BY <2>2, <2>4, <2>5
<1> QED BY <1>3, <1>4, <1>5 DEF CostsAreTrue

(* A loop reads its list: it has no job then.                              *)
LEMMA ReadKeeps ==
    ASSUME TaskInv, NEW l \in Loops, NEW S, S \subseteq {t \in Videos : Task!Unfinished(t)},
           Task!ReadRows(l, S), todo[l] = {}, NEW ph \in {"sweep", "poll"},
           phase' = [phase EXCEPT ![l] = ph],
           UNCHANGED <<row, upstream, overdue, orphan, job, net, tokenNet, taskFaults, hurt>>
    PROVE  TaskInv'
<1>1. /\ todo' = [todo EXCEPT ![l] = S]
      /\ seen' = [seen EXCEPT ![l] = [t \in Videos |-> row[t].status]]
  BY DEF Task!ReadRows
<1>2. \A t \in S : row[t].status \in Open
  BY TaskTypes DEF Task!Unfinished, Open, Task!Final, Task!Statuses, Task!Reports
<1>3. Task!TaskTypeOK'
  <2>1. /\ phase' \in [Loops -> {"asleep", "sweep", "poll"}]
        /\ todo' \in [Loops -> SUBSET Videos]
        /\ seen' \in [Loops -> [Videos -> Task!Statuses]]
    BY <1>1, TaskTypes
  <2> QED BY <2>1 DEF TaskInv, Task!TaskTypeOK, Task!Processes
<1>4. job[l].step = "none"
  BY DEF TaskInv, ListsAreOpen
<1>5. ListsAreOpen'
  <2>1. /\ todo'[l] = S /\ \A t \in S : seen'[l][t] = row[t].status
        /\ phase'[l] = ph
        /\ \A m \in Loops : m # l => todo'[m] = todo[m] /\ seen'[m] = seen[m] /\ phase'[m] = phase[m]
    BY <1>1, TaskTypes
  <2> QED BY <1>2, <1>4, <2>1 DEF TaskInv, ListsAreOpen, Open
<1>6. JobsAreVideos' /\ OneMoves' /\ CostsAreTrue'
  BY CostsStayTrue
<1> QED BY <1>3, <1>5, <1>6 DEF TaskInv

(* A loop lets a task of its list go, or asks upstream about it.           *)
LEMMA PassKeeps ==
    ASSUME TaskInv, NEW l \in Loops, NEW t \in todo[l], job[l].step = "none",
           todo' = [todo EXCEPT ![l] = @ \ {t}], Task!HarmlessFault \/ Task!NoFault,
           UNCHANGED <<row, upstream, overdue, orphan, phase, seen, job, net, tokenNet>>
    PROVE  TaskInv'
<1>1. taskFaults' \in 0 .. TaskFaults /\ hurt' = hurt
  BY TaskTypes, TaskAssumption DEF Task!HarmlessFault, Task!NoFault
<1>2. /\ todo' \in [Loops -> SUBSET Videos] /\ todo'[l] = todo[l] \ {t}
      /\ \A m \in Loops : todo'[m] \subseteq todo[m]
      /\ \A m \in Loops : m # l => todo'[m] = todo[m]
  BY TaskTypes
<1>3. Task!TaskTypeOK'
  BY <1>1, <1>2 DEF TaskInv, Task!TaskTypeOK, Task!Processes
<1>4. ListsAreOpen'
  <2>1. \A m \in Loops : job'[m].step # "none" => job'[m].task \in todo'[m]
    BY <1>2 DEF TaskInv, ListsAreOpen
  <2> QED BY <1>2, <2>1, ListsStayOpen DEF TaskInv
<1>5. JobsAreVideos' /\ OneMoves' /\ CostsAreTrue'
  BY <1>1, CostsStayTrue
<1> QED BY <1>3, <1>4, <1>5 DEF TaskInv

LEMMA FetchKeeps ==
    ASSUME TaskInv, NEW l \in Loops, NEW t \in Videos, Task!FetchTask(l, t) PROVE TaskInv'
<1>1. /\ job[l].step = "none" /\ t \in todo[l]
      /\ UNCHANGED <<row, upstream, overdue, orphan, phase, todo, seen, net, tokenNet>>
      /\ Task!Fault(t) \/ Task!NoFault
  BY DEF Task!FetchTask, Task!Working, Task!worldVars, Task!moneyVars
<1>2. PICK j \in Task!Jobs : j.step = "apply" /\ j.task = t /\ job' = [job EXCEPT ![l] = j]
  <2>1. PICK s \in Task!Reports, r \in BOOLEAN : job' = [job EXCEPT ![l] = Task!Reply(t, s, r)]
    <3>1. upstream[t] \in Task!Reports /\ "IN_PROGRESS" \in Task!Reports /\ "FAILURE" \in Task!Reports
      BY TaskTypes DEF Task!Reports, Task!Final
    <3> QED BY <3>1 DEF Task!FetchTask
  <2> DEFINE j == Task!Reply(t, s, r)
  <2>2. j \in Task!Jobs /\ j.step = "apply" /\ j.task = t /\ job' = [job EXCEPT ![l] = j]
    BY <2>1, NewJobs
  <2> HIDE DEF j
  <2> QED BY <2>2
<1>3. taskFaults' \in 0 .. TaskFaults /\ hurt \subseteq hurt' /\ hurt' \subseteq Videos
  BY <1>1, TaskTypes, TaskAssumption DEF Task!Fault, Task!NoFault
<1>4. job' \in [Loops -> Task!Jobs] /\ job'[l] = j /\ \A m \in Loops : m # l => job'[m] = job[m]
  BY <1>2, TaskTypes
<1>5. Task!TaskTypeOK'
  BY <1>1, <1>3, <1>4 DEF TaskInv, Task!TaskTypeOK, Task!Processes
<1>6. ListsAreOpen'
  <2>1. \A m \in Loops : job'[m].step # "none" => job'[m].task \in todo'[m]
    BY <1>1, <1>2, <1>4 DEF TaskInv, ListsAreOpen
  <2> QED BY <1>1, <2>1, ListsStayOpen DEF TaskInv
<1>7. JobsAreVideos' /\ OneMoves' /\ CostsAreTrue'
  BY <1>1, <1>2, <1>3, <1>4, CostsStayTrue
<1> QED BY <1>1, <1>5, <1>6, <1>7 DEF TaskInv

LEMMA CrashOfLoopKeeps ==
    ASSUME TaskInv, NEW l \in Loops, Task!Crash(l) PROVE TaskInv'
<1>1. /\ UNCHANGED <<row, upstream, overdue, orphan, seen, net, tokenNet>>
      /\ taskFaults < TaskFaults /\ taskFaults' = taskFaults + 1
      /\ hurt' = hurt \cup {t \in Videos : job[l].step \in {"funding", "token", "save"} /\ job[l].task = t}
      /\ phase' = [phase EXCEPT ![l] = "asleep"] /\ todo' = [todo EXCEPT ![l] = {}]
      /\ job' = [job EXCEPT ![l] = Task!NoJob]
  BY DEF Task!Crash, Task!worldVars, Task!moneyVars
<1>2. /\ job' \in [Loops -> Task!Jobs] /\ job'[l].step = "none"
      /\ \A m \in Loops : m # l => job'[m] = job[m]
  <2>1. Task!NoJob \in Task!Jobs /\ Task!NoJob.step = "none"
    BY DEF Task!Jobs, Task!NoJob
  <2> QED BY <1>1, <2>1, TaskTypes
<1>3. /\ phase' \in [Loops -> {"asleep", "sweep", "poll"}] /\ todo' \in [Loops -> SUBSET Videos]
      /\ todo'[l] = {} /\ \A m \in Loops : m # l => todo'[m] = todo[m] /\ phase'[m] = phase[m]
  BY <1>1, TaskTypes
<1>4. /\ taskFaults' \in 0 .. TaskFaults /\ hurt' \subseteq Videos /\ hurt \subseteq hurt'
      /\ job[l].step \in {"funding", "token"} => job[l].task \in hurt'
  BY <1>1, TaskTypes, JobFacts, TaskAssumption
<1>5. Task!TaskTypeOK'
  BY <1>1, <1>2, <1>3, <1>4 DEF TaskInv, Task!TaskTypeOK, Task!Processes
<1>6. ListsAreOpen'
  <2>1. \A m \in Loops : job'[m].step # "none" => job'[m].task \in todo'[m]
    BY <1>2, <1>3 DEF TaskInv, ListsAreOpen
  <2> QED BY <1>1, <1>3, <2>1, ListsStayOpen DEF TaskInv
<1>7. JobsAreVideos' /\ OneMoves' /\ CostsAreTrue'
  BY <1>1, <1>2, <1>4, CostsStayTrue
<1> QED BY <1>1, <1>5, <1>6, <1>7 DEF TaskInv

(* What upstream and the clock do.                                         *)
LEMMA WorldKeeps ==
    ASSUME TaskInv, NEW t \in Videos,
           Task!UpstreamEnds(t) \/ Task!TimesOut(t) \/ Task!ChannelDeleted(t)
    PROVE  TaskInv'
<1>1. /\ UNCHANGED <<row, orphan, phase, todo, seen, job, net, tokenNet, taskFaults, hurt>>
      /\ upstream' \in [Videos -> Task!Reports] /\ overdue' \subseteq Videos
  BY TaskTypes DEF Task!UpstreamEnds, Task!TimesOut, Task!ChannelDeleted, Task!moneyVars, Task!Reports
<1>2. Task!TaskTypeOK'
  BY <1>1 DEF TaskInv, Task!TaskTypeOK
<1>3. ListsAreOpen'
  BY <1>1 DEF TaskInv, ListsAreOpen
<1>4. JobsAreVideos' /\ OneMoves' /\ CostsAreTrue'
  BY <1>1, CostsStayTrue
<1> QED BY <1>1, <1>2, <1>3, <1>4 DEF TaskInv

(* A task is submitted, and charged what its row records.                  *)
LEMMA RelayKeeps ==
    ASSUME TaskInv, NEW t \in Videos, Task!RelayTask(t) PROVE TaskInv'
<1>0. /\ Estimates[t] \in Nat /\ Prices[t] \in Nat
      /\ Prices[t] > Estimates[t] => t \in Qinius /\ Estimates[t] > 0
  BY TaskAssumption
<1>1. /\ row[t].status = "ABSENT"
      /\ UNCHANGED <<upstream, overdue, orphan, phase, todo, seen, job>>
  BY DEF Task!RelayTask, Task!worldVars
<1>2. PICK q \in Nat : /\ net' = [net EXCEPT ![t] = q] /\ tokenNet' = [tokenNet EXCEPT ![t] = q]
                       /\ \/ /\ row' = [row EXCEPT ![t] = [status |-> "NOT_START", done |-> FALSE, quota |-> q]]
                             /\ Task!NoFault
                          \/ Task!Fault(t) /\ row' = row
  <2>1. PICK settled \in IF Prices[t] > Estimates[t] THEN BOOLEAN ELSE {TRUE} :
           /\ Task!Charge(t, IF settled THEN Prices[t] ELSE Estimates[t])
           /\ \/ /\ row' = [row EXCEPT ![t] =
                              [status |-> "NOT_START", done |-> FALSE,
                               quota |-> IF ~settled /\ t \in Qinius /\ Estimates[t] > 0
                                         THEN Estimates[t] ELSE Prices[t]]]
                 /\ Task!NoFault
              \/ Task!Fault(t) /\ row' = row
    BY DEF Task!RelayTask
  <2>2. CASE settled
    BY <1>0, <2>1, <2>2 DEF Task!Charge
  <2>3. CASE ~settled
    <3>1. Prices[t] > Estimates[t]
      BY <2>1, <2>3
    <3> QED BY <1>0, <2>1, <2>3, <3>1 DEF Task!Charge
  <2> QED BY <2>2, <2>3
<1>3. /\ taskFaults' \in 0 .. TaskFaults /\ hurt \subseteq hurt' /\ hurt' \subseteq Videos
      /\ \A u \in Videos : u # t => (u \in hurt' <=> u \in hurt)
  BY <1>2, TaskTypes, TaskAssumption DEF Task!Fault, Task!NoFault
<1>4. /\ row' \in [Videos -> [status : Task!Statuses, done : BOOLEAN, quota : Nat]]
      /\ \A u \in Videos : u # t => row'[u] = row[u]
      /\ \/ row'[t].status = "NOT_START" /\ row'[t].quota = q
         \/ row'[t].status = "ABSENT"
  <2>1. CASE row' = row
    BY <1>1, <2>1, TaskTypes
  <2>2. CASE row' = [row EXCEPT ![t] = [status |-> "NOT_START", done |-> FALSE, quota |-> q]]
    BY <2>2, TaskTypes DEF Task!Statuses
  <2> QED BY <1>2, <2>1, <2>2
<1>5. /\ net' \in [Videos -> Int] /\ tokenNet' \in [Videos -> Int]
      /\ net'[t] = q /\ tokenNet'[t] = q
      /\ \A u \in Videos : u # t => net'[u] = net[u] /\ tokenNet'[u] = tokenNet[u]
  BY <1>2, TaskTypes
<1>6. Task!TaskTypeOK'
  BY <1>1, <1>3, <1>4, <1>5 DEF TaskInv, Task!TaskTypeOK
<1>7. ListsAreOpen' /\ \A l \in Loops : ~Moves(l, t)
  <2>1. \A l \in Loops : t \notin todo[l]
    BY <1>1 DEF TaskInv, ListsAreOpen
  <2>2. \A l \in Loops : todo[l] \subseteq Videos
    BY TaskTypes
  <2>3. ListsAreOpen'
    BY <1>1, <1>4, <2>1, <2>2 DEF TaskInv, ListsAreOpen
  <2> QED BY <2>1, <2>3 DEF TaskInv, ListsAreOpen, Moves
<1>8. \A l \in Loops : \A u \in Videos : Moves(l, u)' <=> Moves(l, u)
  BY <1>1 DEF Moves
<1>9. JobsAreVideos' /\ OneMoves'
  BY <1>1, <1>8 DEF TaskInv, JobsAreVideos, OneMoves
<1>10. ASSUME NEW u \in Videos
       PROVE  ChargeIsTrue(u)' /\ EndIsTrue(u)' /\ \A l \in Loops : MoveIsTrue(l, u)'
  <2>1. CASE u = t
    BY <1>2, <1>4, <1>5, <1>7, <1>8, <2>1
       DEF ChargeIsTrue, EndIsTrue, MoveIsTrue, Open, Task!Final
  <2>2. CASE u # t
    <3>1. ChargeIsTrue(u) /\ EndIsTrue(u) /\ \A l \in Loops : MoveIsTrue(l, u)
      BY DEF TaskInv, CostsAreTrue
    <3>2. row'[u] = row[u] /\ net'[u] = net[u] /\ tokenNet'[u] = tokenNet[u]
          /\ (u \in hurt' <=> u \in hurt)
      BY <1>3, <1>4, <1>5, <2>2
    <3>3. ChargeIsTrue(u)'
      BY <3>1, <3>2 DEF ChargeIsTrue
    <3>4. Outcomes(u)' = Outcomes(u)
      BY <3>2 DEF Outcomes
    <3>5. EndIsTrue(u)'
      BY <1>8, <3>1, <3>2, <3>4 DEF EndIsTrue
    <3>6. \A l \in Loops : MoveIsTrue(l, u)'
      BY <1>1, <1>8, <3>1, <3>2, <3>4 DEF MoveIsTrue
    <3> QED BY <3>3, <3>5, <3>6
  <2> QED BY <2>1, <2>2
<1> QED BY <1>1, <1>6, <1>7, <1>9, <1>10 DEF TaskInv, CostsAreTrue

(* A loop goes on with its job, or is done with it and the task leaves its *)
(* list.                                                                   *)
LEMMA ContinueFacts ==
    ASSUME TaskInv, NEW l \in Loops, job[l].step # "none", NEW j \in Task!Jobs,
           Task!Continue(l, j), j.step # "none" => j.task = job[l].task
    PROVE  /\ job' \in [Loops -> Task!Jobs] /\ job'[l] = j
           /\ \A m \in Loops : m # l => job'[m] = job[m]
           /\ todo' \in [Loops -> SUBSET Videos] /\ UNCHANGED <<phase, seen>>
           /\ \A m \in Loops : todo'[m] \subseteq todo[m]
           /\ \A m \in Loops : job'[m].step # "none" => job'[m].task \in todo'[m]
<1>1. /\ job' = [job EXCEPT ![l] = j] /\ UNCHANGED <<phase, seen>>
      /\ todo' = IF j = Task!NoJob THEN [todo EXCEPT ![l] = @ \ {job[l].task}] ELSE todo
  BY DEF Task!Continue
<1>2. /\ job' \in [Loops -> Task!Jobs] /\ job'[l] = j
      /\ \A m \in Loops : m # l => job'[m] = job[m]
  BY <1>1, TaskTypes
<1>3. j.step = "none" <=> j = Task!NoJob
  BY JobFacts
<1>4. \A m \in Loops : job[m].step # "none" => job[m].task \in todo[m]
  BY DEF TaskInv, ListsAreOpen
<1>5. CASE j.step = "none"
  <2>1. /\ todo' \in [Loops -> SUBSET Videos] /\ todo'[l] \subseteq todo[l]
        /\ \A m \in Loops : m # l => todo'[m] = todo[m]
    BY <1>1, <1>3, <1>5, TaskTypes
  <2> QED BY <1>1, <1>2, <1>4, <1>5, <2>1
<1>6. CASE j.step # "none"
  <2>1. todo' = todo
    BY <1>1, <1>3, <1>6
  <2> QED BY <1>1, <1>2, <1>4, <1>6, <2>1, TaskTypes
<1> QED BY <1>5, <1>6

(* An update that lost, or failed, leaves nothing behind.                  *)
LEMMA LoseKeeps ==
    ASSUME TaskInv, NEW l \in Loops, job[l].step = "apply", Task!Continue(l, Task!NoJob),
           Task!HarmlessFault \/ Task!NoFault,
           UNCHANGED <<row, upstream, overdue, orphan, net, tokenNet>>
    PROVE  TaskInv'
<1>0. Task!NoJob \in Task!Jobs /\ Task!NoJob.step = "none"
  BY DEF Task!Jobs, Task!NoJob
<1>1. taskFaults' \in 0 .. TaskFaults /\ hurt' = hurt
  BY TaskTypes, TaskAssumption DEF Task!HarmlessFault, Task!NoFault
<1>2. /\ job' \in [Loops -> Task!Jobs] /\ job'[l] = Task!NoJob
      /\ \A m \in Loops : m # l => job'[m] = job[m]
      /\ todo' \in [Loops -> SUBSET Videos] /\ UNCHANGED <<phase, seen>>
      /\ \A m \in Loops : todo'[m] \subseteq todo[m]
      /\ \A m \in Loops : job'[m].step # "none" => job'[m].task \in todo'[m]
  BY <1>0, ContinueFacts
<1>3. Task!TaskTypeOK'
  BY <1>1, <1>2 DEF TaskInv, Task!TaskTypeOK, Task!Processes
<1>4. ListsAreOpen'
  BY <1>2, ListsStayOpen DEF TaskInv
<1>5. JobsAreVideos' /\ OneMoves' /\ CostsAreTrue'
  BY <1>0, <1>1, <1>2, CostsStayTrue
<1> QED BY <1>3, <1>4, <1>5 DEF TaskInv

(* An update that wins finds the task open, and whoever ends it is the one *)
(* that moves its money.                                                   *)
LEMMA WinKeeps ==
    ASSUME TaskInv, NEW l \in Loops, NEW t \in todo[l], job[l].step \in {"none", "apply"},
           Task!Wins(l, t), NEW s \in Task!Reports, NEW done \in BOOLEAN, Task!Write(t, s, done),
           NEW j \in Task!Jobs, j.step \in {"none", "funding"},
           j.step = "funding" => /\ j.task = t /\ j.rest = Task!NoJob /\ s \in Task!Final
                                 /\ row[t].quota + j.delta \in (IF s = "FAILURE" THEN {0} ELSE Finals \ {0}),
           j.step = "none" /\ s = "FAILURE" => t \in Legacies \/ row[t].quota = 0,
           job' \in [Loops -> Task!Jobs], job'[l] = j, \A m \in Loops : m # l => job'[m] = job[m],
           todo' \in [Loops -> SUBSET Videos], \A m \in Loops : todo'[m] \subseteq todo[m],
           \A m \in Loops : job'[m].step # "none" => job'[m].task \in todo'[m],
           UNCHANGED <<upstream, overdue, orphan, phase, seen, net, tokenNet, taskFaults, hurt>>
    PROVE  TaskInv'
<1>0. t \in Videos
  BY TaskTypes
<1>1. row[t].status \in Open
  BY DEF Task!Wins, TaskInv, ListsAreOpen
<1>2. /\ row' \in [Videos -> [status : Task!Statuses, done : BOOLEAN, quota : Nat]]
      /\ row'[t].status = s /\ row'[t].quota = row[t].quota
      /\ \A u \in Videos : u # t => row'[u] = row[u]
  <2>1. row' = [row EXCEPT ![t].status = s, ![t].done = done] /\ s \in Task!Statuses
    BY DEF Task!Write, Task!Statuses
  <2>2. row \in [Videos -> [status : Task!Statuses, done : BOOLEAN, quota : Nat]]
    BY TaskTypes
  <2> DEFINE w == [row[t] EXCEPT !.status = s, !.done = done]
  <2>3. row' = [row EXCEPT ![t] = w]
    BY <1>0, <2>1, <2>2
  <2>4. /\ w \in [status : Task!Statuses, done : BOOLEAN, quota : Nat]
        /\ w.status = s /\ w.quota = row[t].quota
    BY <1>0, <2>1, <2>2
  <2> HIDE DEF w
  <2>5. row'[t] = w /\ \A u \in Videos : u # t => row'[u] = row[u]
    BY <1>0, <2>2, <2>3
  <2>6. row' \in [Videos -> [status : Task!Statuses, done : BOOLEAN, quota : Nat]]
    BY <2>2, <2>3, <2>4
  <2> QED BY <2>4, <2>5, <2>6
<1>3. Task!TaskTypeOK'
  BY <1>2 DEF TaskInv, Task!TaskTypeOK, Task!Processes
<1>4. ListsAreOpen'
  <2>1. \A m \in Loops : \A u \in todo[m] : row[u].status # "ABSENT" => row'[u].status # "ABSENT"
    BY <1>2, TaskTypes DEF Task!Reports, Task!Final
  <2> QED BY <2>1, ListsStayOpen DEF TaskInv
<1>5. JobsAreVideos'
  BY DEF TaskInv, JobsAreVideos
<1>6. \A m \in Loops : ~Moves(m, t)
  BY <1>0, <1>1 DEF TaskInv, CostsAreTrue, MoveIsTrue, Open, Task!Final
<1>7. /\ \A m \in Loops : m # l => \A u \in Videos : Moves(m, u)' <=> Moves(m, u)
      /\ \A u \in Videos : u # t => ~Moves(l, u)' /\ ~Moves(l, u)
      /\ Moves(l, t)' <=> j.step = "funding"
  BY DEF Moves
<1>8. OneMoves'
  BY <1>6, <1>7 DEF TaskInv, OneMoves
<1>9. net[t] = row[t].quota /\ tokenNet[t] = row[t].quota
  BY <1>0, <1>1 DEF TaskInv, CostsAreTrue, ChargeIsTrue
<1>10. ChargeIsTrue(t)' /\ EndIsTrue(t)' /\ \A m \in Loops : MoveIsTrue(m, t)'
  <2>1. ChargeIsTrue(t)'
    BY <1>2, <1>9 DEF ChargeIsTrue, Task!Reports, Task!Final
  <2>2. EndIsTrue(t)'
    <3>1. net'[t] = row'[t].quota /\ tokenNet'[t] = row'[t].quota
      BY <1>2, <1>9
    <3>2. ASSUME \A m \in Loops : ~Moves(m, t)', s = "FAILURE", t \notin Legacies PROVE net'[t] = 0
      BY <1>7, <1>9, <3>2
    <3> QED BY <1>2, <3>1, <3>2 DEF EndIsTrue
  <2>3. ASSUME NEW m \in Loops PROVE MoveIsTrue(m, t)'
    <3>1. CASE Moves(m, t)'
      <4>1. m = l /\ j.step = "funding" /\ s \in Task!Final
        BY <1>0, <1>6, <1>7, <3>1
      <4>2. row'[t].quota + job'[m].delta \in Outcomes(t)'
        BY <1>2, <4>1 DEF Outcomes
      <4> QED BY <1>2, <1>9, <4>1, <4>2 DEF MoveIsTrue
    <3>2. CASE ~Moves(m, t)'
      BY <3>2 DEF MoveIsTrue
    <3> QED BY <3>1, <3>2
  <2> QED BY <2>1, <2>2, <2>3
<1>11. ASSUME NEW u \in Videos, u # t
       PROVE  ChargeIsTrue(u)' /\ EndIsTrue(u)' /\ \A m \in Loops : MoveIsTrue(m, u)'
  <2>1. ChargeIsTrue(u) /\ EndIsTrue(u) /\ \A m \in Loops : MoveIsTrue(m, u)
    BY DEF TaskInv, CostsAreTrue
  <2>2. row'[u] = row[u] /\ Outcomes(u)' = Outcomes(u)
    BY <1>2, <1>11 DEF Outcomes
  <2>3. \A m \in Loops : Moves(m, u)' <=> Moves(m, u)
    BY <1>7, <1>11
  <2>4. ChargeIsTrue(u)'
    BY <2>1, <2>2 DEF ChargeIsTrue
  <2>5. EndIsTrue(u)'
    BY <2>1, <2>2, <2>3 DEF EndIsTrue
  <2>6. ASSUME NEW m \in Loops PROVE MoveIsTrue(m, u)'
    <3>1. CASE m = l
      BY <1>7, <1>11, <3>1 DEF MoveIsTrue
    <3>2. CASE m # l
      BY <2>1, <2>2, <2>3, <3>2 DEF MoveIsTrue
    <3> QED BY <3>1, <3>2
  <2> QED BY <2>4, <2>5, <2>6
<1> QED BY <1>3, <1>4, <1>5, <1>8, <1>10, <1>11 DEF TaskInv, CostsAreTrue

(* The refund of a task, and the correction of its charge.                 *)
LEMMA RefundJob ==
    ASSUME TaskInv, NEW t \in Videos, NEW j, j = Task!RefundTaskQuota(t, Task!NoJob)
    PROVE  /\ j \in Task!Jobs /\ j.step \in {"none", "funding"}
           /\ j.step = "funding" => /\ j.task = t /\ j.rest = Task!NoJob
                                    /\ row[t].quota + j.delta = 0
           /\ j.step = "none" => row[t].quota = 0
<1>0. row[t].quota \in Nat
  BY TaskTypes
<1>1. CASE row[t].quota = 0
  BY <1>1, NewJobs DEF Task!RefundTaskQuota
<1>2. CASE row[t].quota # 0
  <2>1. j = Task!Adjust(t, -row[t].quota, Task!NoJob) /\ -row[t].quota \in Int
    BY <1>0, <1>2 DEF Task!RefundTaskQuota
  <2>2. /\ j \in Task!Jobs /\ j.step = "funding" /\ j.task = t
        /\ j.delta = -row[t].quota /\ j.rest = Task!NoJob
    BY <2>1, NewJobs
  <2> QED BY <1>0, <2>2
<1> QED BY <1>1, <1>2

LEMMA SettleJob ==
    ASSUME TaskInv, NEW t \in Videos, NEW q \in Finals,
           NEW j, j = Task!settleTaskBillingOnComplete(t, q)
    PROVE  /\ j \in Task!Jobs /\ j.step \in {"none", "funding"}
           /\ j.step = "funding" => /\ j.task = t /\ j.rest = Task!NoJob
                                    /\ row[t].quota + j.delta \in Finals \ {0}
<1>0. row[t].quota \in Nat /\ q \in Nat
  BY TaskTypes, TaskAssumption
<1>1. j = Task!NoJob \/ (j = Task!Adjust(t, q - row[t].quota, Task!NoJob) /\ q # 0)
  BY DEF Task!settleTaskBillingOnComplete, Task!RecalculateTaskQuota
<1>2. CASE j = Task!NoJob
  BY <1>2, NewJobs
<1>3. CASE j = Task!Adjust(t, q - row[t].quota, Task!NoJob) /\ q # 0
  <2>1. q - row[t].quota \in Int /\ row[t].quota + (q - row[t].quota) = q
    BY <1>0
  <2>2. /\ j \in Task!Jobs /\ j.step = "funding" /\ j.task = t
        /\ j.delta = q - row[t].quota /\ j.rest = Task!NoJob
    BY <1>3, <2>1, NewJobs
  <2> QED BY <1>3, <2>1, <2>2
<1> QED BY <1>1, <1>2, <1>3

LEMMA SweepKeeps ==
    ASSUME TaskInv, NEW l \in Loops, NEW t \in Videos, Task!sweepTimedOutTasks(l, t) PROVE TaskInv'
<1> DEFINE refund == IF t \in Legacies THEN Task!NoJob ELSE Task!RefundTaskQuota(t, Task!NoJob)
<1>1. /\ t \in todo[l] /\ job[l].step = "none"
      /\ UNCHANGED <<upstream, overdue, orphan, phase, seen, net, tokenNet>>
      /\ \/ /\ Task!Wins(l, t) /\ Task!Write(t, "FAILURE", TRUE) /\ job' = [job EXCEPT ![l] = refund]
            /\ todo' = IF refund = Task!NoJob THEN [todo EXCEPT ![l] = @ \ {t}] ELSE todo
            /\ Task!NoFault
         \/ /\ todo' = [todo EXCEPT ![l] = @ \ {t}] /\ (Task!NoFault \/ Task!HarmlessFault)
            /\ UNCHANGED <<row, job>>
  BY DEF Task!sweepTimedOutTasks, Task!Working, Task!worldVars, Task!moneyVars
<1>2. /\ refund \in Task!Jobs /\ refund.step \in {"none", "funding"}
      /\ refund.step = "funding" => /\ refund.task = t /\ refund.rest = Task!NoJob
                                    /\ row[t].quota + refund.delta = 0
      /\ refund.step = "none" => t \in Legacies \/ row[t].quota = 0
      /\ refund.step = "none" <=> refund = Task!NoJob
  <2>1. CASE t \in Legacies
    BY <2>1, NewJobs
  <2>2. CASE t \notin Legacies
    <3>1. refund = Task!RefundTaskQuota(t, Task!NoJob)
      BY <2>2
    <3> HIDE DEF refund
    <3> QED BY <3>1, RefundJob, JobFacts
  <2> QED BY <2>1, <2>2
<1> HIDE DEF refund
<1>3. CASE /\ Task!Wins(l, t) /\ Task!Write(t, "FAILURE", TRUE) /\ job' = [job EXCEPT ![l] = refund]
           /\ todo' = IF refund = Task!NoJob THEN [todo EXCEPT ![l] = @ \ {t}] ELSE todo
           /\ Task!NoFault
  <2>1. /\ job' \in [Loops -> Task!Jobs] /\ job'[l] = refund
        /\ \A m \in Loops : m # l => job'[m] = job[m]
    BY <1>2, <1>3, TaskTypes
  <2>2. /\ todo' \in [Loops -> SUBSET Videos] /\ \A m \in Loops : todo'[m] \subseteq todo[m]
        /\ \A m \in Loops : m # l => todo'[m] = todo[m]
        /\ refund.step # "none" => t \in todo'[l]
    BY <1>1, <1>2, <1>3, TaskTypes
  <2>3. \A m \in Loops : job'[m].step # "none" => job'[m].task \in todo'[m]
    BY <1>2, <2>1, <2>2 DEF TaskInv, ListsAreOpen
  <2>4. "FAILURE" \in Task!Reports /\ "FAILURE" \in Task!Final /\ UNCHANGED <<taskFaults, hurt>>
    BY <1>3 DEF Task!Reports, Task!Final, Task!NoFault
  <2> QED BY <1>1, <1>2, <1>3, <2>1, <2>2, <2>3, <2>4, WinKeeps
<1>4. CASE /\ todo' = [todo EXCEPT ![l] = @ \ {t}] /\ (Task!NoFault \/ Task!HarmlessFault)
           /\ UNCHANGED <<row, job>>
  BY <1>1, <1>4, PassKeeps
<1> QED BY <1>1, <1>3, <1>4

(* One outcome of a reply: the update wins, loses or fails.                *)
LEMMA UpdateKeeps ==
    ASSUME TaskInv, NEW l \in Loops, job[l].step = "apply",
           NEW s \in Task!Reports, NEW done \in BOOLEAN, NEW j \in Task!Jobs,
           Task!UpdateWithStatus(l, job[l].task, s, done, j), j.step \in {"none", "funding"},
           j.step = "funding" => /\ j.task = job[l].task /\ j.rest = Task!NoJob /\ s \in Task!Final
                                 /\ row[job[l].task].quota + j.delta \in (IF s = "FAILURE" THEN {0} ELSE Finals \ {0}),
           j.step = "none" /\ s = "FAILURE" => row[job[l].task].quota = 0,
           UNCHANGED <<upstream, overdue, orphan, net, tokenNet>>
    PROVE  TaskInv'
<1> DEFINE t == job[l].task
<1>0. t \in todo[l] /\ t \in Videos
  BY TaskTypes DEF TaskInv, ListsAreOpen
<1>1. CASE Task!Wins(l, t) /\ Task!Write(t, s, done) /\ Task!Continue(l, j) /\ Task!NoFault
  <2>1. /\ job' \in [Loops -> Task!Jobs] /\ job'[l] = j
        /\ \A m \in Loops : m # l => job'[m] = job[m]
        /\ todo' \in [Loops -> SUBSET Videos] /\ UNCHANGED <<phase, seen>>
        /\ \A m \in Loops : todo'[m] \subseteq todo[m]
        /\ \A m \in Loops : job'[m].step # "none" => job'[m].task \in todo'[m]
    BY <1>1, ContinueFacts
  <2>2. UNCHANGED <<taskFaults, hurt>>
    BY <1>1 DEF Task!NoFault
  <2> QED BY <1>0, <1>1, <2>1, <2>2, WinKeeps
<1>2. CASE /\ Task!Continue(l, Task!NoJob) /\ row' = row
           /\ Task!HarmlessFault \/ Task!NoFault
  BY <1>2, LoseKeeps
<1> QED BY <1>1, <1>2 DEF Task!UpdateWithStatus

LEMMA VideoKeeps ==
    ASSUME TaskInv, NEW l \in Loops, Task!updateVideoSingleTask(l) PROVE TaskInv'
<1> DEFINE t == job[l].task
<1>0. job[l] \in Task!Jobs /\ job[l].step = "apply" /\ t \in Videos
      /\ UNCHANGED <<upstream, overdue, orphan, net, tokenNet>>
  BY TaskTypes, JobFacts DEF Task!updateVideoSingleTask, Task!Working, Task!worldVars, Task!moneyVars
<1>1. /\ Task!Reports = {"SUCCESS", "FAILURE", "IN_PROGRESS"} /\ Task!Final = {"SUCCESS", "FAILURE"}
      /\ Task!NoJob \in Task!Jobs /\ Task!NoJob.step = "none"
  BY DEF Task!Reports, Task!Final, Task!Jobs, Task!NoJob
<1>2. CASE Task!UpdateWithStatus(l, t, "IN_PROGRESS", FALSE, Task!NoJob)
  BY <1>0, <1>1, <1>2, UpdateKeeps
<1>3. CASE Task!UpdateWithStatus(l, t, "FAILURE", TRUE, Task!RefundTaskQuota(t, Task!NoJob))
  <2> DEFINE j == Task!RefundTaskQuota(t, Task!NoJob)
  <2>1. /\ j \in Task!Jobs /\ j.step \in {"none", "funding"}
        /\ j.step = "funding" => /\ j.task = t /\ j.rest = Task!NoJob /\ row[t].quota + j.delta = 0
        /\ j.step = "none" => row[t].quota = 0
    <3> HIDE DEF j
    <3>1. j = Task!RefundTaskQuota(t, Task!NoJob)
      BY DEF j
    <3> HIDE DEF t
    <3> QED BY <1>0, <3>1, RefundJob
  <2>2. Task!UpdateWithStatus(l, t, "FAILURE", TRUE, j)
    BY <1>3
  <2> HIDE DEF j
  <2> QED BY <1>0, <1>1, <2>1, <2>2, UpdateKeeps
<1>4. ASSUME NEW q \in Finals,
             Task!UpdateWithStatus(l, t, "SUCCESS", TRUE, Task!settleTaskBillingOnComplete(t, q))
      PROVE  TaskInv'
  <2> DEFINE j == Task!settleTaskBillingOnComplete(t, q)
  <2>1. /\ j \in Task!Jobs /\ j.step \in {"none", "funding"}
        /\ j.step = "funding" => /\ j.task = t /\ j.rest = Task!NoJob
                                 /\ row[t].quota + j.delta \in Finals \ {0}
    <3> HIDE DEF j
    <3>1. j = Task!settleTaskBillingOnComplete(t, q)
      BY DEF j
    <3> HIDE DEF t
    <3> QED BY <1>0, <3>1, SettleJob
  <2>2. Task!UpdateWithStatus(l, t, "SUCCESS", TRUE, j)
    BY <1>4
  <2> HIDE DEF j
  <2> QED BY <1>0, <1>1, <2>1, <2>2, UpdateKeeps
<1> QED BY <1>2, <1>3, <1>4 DEF Task!updateVideoSingleTask

(* Steps of the loop that moves the money of a task.                       *)
LEMMA MoneyKeeps ==
    ASSUME TaskInv, NEW l \in Loops, NEW t \in Videos, Moves(l, t),
           NEW j \in Task!Jobs, Task!Continue(l, j), UNCHANGED <<row, upstream, overdue, orphan>>,
           j.step = "none" \/ (j.step = "token" /\ j.task = t /\ j.rest = Task!NoJob),
           net' \in [Videos -> Int], tokenNet' \in [Videos -> Int],
           \A u \in Videos : u # t => net'[u] = net[u] /\ tokenNet'[u] = tokenNet[u],
           taskFaults' \in 0 .. TaskFaults, hurt \subseteq hurt', hurt' \subseteq hurt \cup {t},
           j.step = "token" => /\ row[t].quota + j.delta \in Outcomes(t)
                               /\ tokenNet'[t] = row[t].quota
                               /\ net'[t] = row[t].quota + j.delta,
           net'[t] \in {row[t].quota} \cup Outcomes(t), tokenNet'[t] \in {row[t].quota} \cup Outcomes(t),
           j.step = "none" /\ t \notin hurt' =>
              (net'[t] = tokenNet'[t] /\ (row[t].status = "FAILURE" => net'[t] = 0))
    PROVE  TaskInv'
<1>0. job[l].step # "none" /\ job[l].task = t
  BY DEF Moves
<1>1. /\ job' \in [Loops -> Task!Jobs] /\ job'[l] = j
      /\ \A m \in Loops : m # l => job'[m] = job[m]
      /\ todo' \in [Loops -> SUBSET Videos] /\ UNCHANGED <<phase, seen>>
      /\ \A m \in Loops : todo'[m] \subseteq todo[m]
      /\ \A m \in Loops : job'[m].step # "none" => job'[m].task \in todo'[m]
  BY <1>0, ContinueFacts
<1>2. Task!TaskTypeOK'
  <2>1. hurt' \subseteq Videos
    BY TaskTypes
  <2> QED BY <1>1, <2>1 DEF TaskInv, Task!TaskTypeOK, Task!Processes
<1>3. ListsAreOpen'
  BY <1>1, ListsStayOpen DEF TaskInv
<1>4. JobsAreVideos'
  BY <1>1 DEF TaskInv, JobsAreVideos
<1>5. /\ \A m \in Loops : m # l => \A u \in Videos : Moves(m, u)' <=> Moves(m, u)
      /\ \A u \in Videos : u # t => ~Moves(l, u)' /\ ~Moves(l, u)
      /\ Moves(l, t)' <=> j.step = "token"
  BY <1>0, <1>1 DEF Moves
<1>6. \A m \in Loops : m # l => ~Moves(m, t)
  BY DEF TaskInv, OneMoves
<1>7. OneMoves'
  BY <1>5, <1>6 DEF TaskInv, OneMoves
<1>8. row[t].status \in Task!Final /\ \A u \in Videos : Outcomes(u)' = Outcomes(u)
  BY DEF TaskInv, CostsAreTrue, MoveIsTrue, Outcomes
<1>9. ChargeIsTrue(t)' /\ EndIsTrue(t)' /\ \A m \in Loops : MoveIsTrue(m, t)'
  <2>1. ChargeIsTrue(t)'
    BY <1>8 DEF ChargeIsTrue, Open, Task!Final
  <2>2. EndIsTrue(t)'
    BY <1>5, <1>8 DEF EndIsTrue
  <2>3. ASSUME NEW m \in Loops PROVE MoveIsTrue(m, t)'
    <3>1. CASE m = l
      BY <1>1, <1>5, <1>8, <3>1 DEF MoveIsTrue
    <3>2. CASE m # l
      BY <1>5, <1>6, <3>2 DEF MoveIsTrue
    <3> QED BY <3>1, <3>2
  <2> QED BY <2>1, <2>2, <2>3
<1>10. ASSUME NEW u \in Videos, u # t
       PROVE  ChargeIsTrue(u)' /\ EndIsTrue(u)' /\ \A m \in Loops : MoveIsTrue(m, u)'
  <2>1. ChargeIsTrue(u) /\ EndIsTrue(u) /\ \A m \in Loops : MoveIsTrue(m, u)
    BY DEF TaskInv, CostsAreTrue
  <2>2. /\ net'[u] = net[u] /\ tokenNet'[u] = tokenNet[u] /\ (u \in hurt' <=> u \in hurt)
        /\ Outcomes(u)' = Outcomes(u)
    BY <1>8, <1>10
  <2>3. \A m \in Loops : Moves(m, u)' <=> Moves(m, u)
    BY <1>5, <1>10
  <2>4. ChargeIsTrue(u)'
    BY <2>1, <2>2 DEF ChargeIsTrue
  <2>5. EndIsTrue(u)'
    BY <2>1, <2>2, <2>3 DEF EndIsTrue
  <2>6. ASSUME NEW m \in Loops PROVE MoveIsTrue(m, u)'
    <3>1. CASE m = l
      BY <1>5, <1>10, <3>1 DEF MoveIsTrue
    <3>2. CASE m # l
      BY <1>1, <2>1, <2>2, <2>3, <3>2 DEF MoveIsTrue
    <3> QED BY <3>1, <3>2
  <2> QED BY <2>4, <2>5, <2>6
<1> QED BY <1>2, <1>3, <1>4, <1>7, <1>9, <1>10 DEF TaskInv, CostsAreTrue

(* What is known of a job that moves money.                                *)
LEMMA MoverFacts ==
    ASSUME TaskInv, NEW l \in Loops, job[l].step \in {"funding", "token"}
    PROVE  /\ job[l] \in Task!Jobs /\ job[l].task \in Videos /\ Moves(l, job[l].task)
           /\ MoveIsTrue(l, job[l].task) /\ EndIsTrue(job[l].task)
           /\ job[l].rest = Task!NoJob /\ job[l].delta \in Int
           /\ row[job[l].task].quota \in Nat /\ row[job[l].task].status \in Task!Final
           /\ net[job[l].task] \in Int /\ tokenNet[job[l].task] \in Int
<1>1. job[l] \in Task!Jobs /\ job[l].task \in Videos /\ job[l].delta \in Int
  BY TaskTypes, JobFacts
<1>2. MoveIsTrue(l, job[l].task) /\ EndIsTrue(job[l].task) /\ Moves(l, job[l].task)
  BY <1>1 DEF TaskInv, CostsAreTrue, Moves
<1>3. job[l].rest = Task!NoJob
  BY DEF TaskInv, JobsAreVideos
<1>4. row[job[l].task].status \in Task!Final
  BY <1>2 DEF MoveIsTrue
<1>5. row[job[l].task].quota \in Nat /\ net[job[l].task] \in Int /\ tokenNet[job[l].task] \in Int
  BY <1>1, TaskTypes
<1> QED BY <1>1, <1>2, <1>3, <1>4, <1>5

LEMMA FundingKeeps ==
    ASSUME TaskInv, NEW l \in Loops, Task!taskAdjustFunding(l) PROVE TaskInv'
<1> DEFINE j == job[l]
           t == job[l].task
           k == [job[l] EXCEPT !.step = "token"]
<1>1. /\ job[l].step = "funding" /\ UNCHANGED <<row, upstream, overdue, orphan, tokenNet>>
      /\ \/ net' = [net EXCEPT ![t] = @ + job[l].delta] /\ Task!Continue(l, k) /\ Task!NoFault
         \/ job[l].delta > 0 /\ Task!Continue(l, job[l].rest) /\ Task!NoFault /\ net' = net
         \/ Task!Fault(t) /\ Task!Continue(l, job[l].rest) /\ net' = net
  BY DEF Task!taskAdjustFunding, Task!Working, Task!worldVars
<1>2. /\ j \in Task!Jobs /\ t \in Videos /\ Moves(l, t) /\ MoveIsTrue(l, t)
      /\ job[l].rest = Task!NoJob /\ job[l].delta \in Int /\ row[t].quota \in Nat
      /\ row[t].status \in Task!Final
  BY <1>1, MoverFacts
<1>3. /\ row[t].quota + job[l].delta \in Outcomes(t)
      /\ tokenNet[t] = row[t].quota /\ net[t] = row[t].quota
  BY <1>1, <1>2 DEF MoveIsTrue
<1>4. /\ net \in [Videos -> Int] /\ tokenNet \in [Videos -> Int]
      /\ taskFaults \in 0 .. TaskFaults /\ hurt \subseteq Videos /\ TaskFaults \in Nat
  BY TaskTypes, TaskAssumption
<1>5. Task!NoJob \in Task!Jobs /\ Task!NoJob.step = "none"
  BY DEF Task!Jobs, Task!NoJob
<1>6. CASE net' = [net EXCEPT ![t] = @ + job[l].delta] /\ Task!Continue(l, k) /\ Task!NoFault
  <2>1. k \in Task!Jobs /\ k.step = "token" /\ k.task = t /\ k.rest = Task!NoJob /\ k.delta = job[l].delta
    BY <1>1, <1>2, NextMove
  <2>2. Task!Continue(l, k)
    BY <1>6
  <2> HIDE DEF k
  <2>3. /\ net' \in [Videos -> Int] /\ net'[t] = row[t].quota + k.delta
        /\ \A u \in Videos : u # t => net'[u] = net[u]
    BY <1>2, <1>3, <1>4, <1>6, <2>1
  <2>4. taskFaults' \in 0 .. TaskFaults /\ hurt' = hurt
    BY <1>4, <1>6 DEF Task!NoFault
  <2> HIDE DEF t
  <2> QED BY <1>1, <1>2, <1>3, <1>4, <2>1, <2>2, <2>3, <2>4, MoneyKeeps
<1>7. CASE job[l].delta > 0 /\ Task!Continue(l, job[l].rest) /\ Task!NoFault /\ net' = net
  <2>1. row[t].status # "FAILURE"
    BY <1>2, <1>3, <1>7 DEF Outcomes
  <2>2. taskFaults' \in 0 .. TaskFaults /\ hurt' = hurt
    BY <1>4, <1>7 DEF Task!NoFault
  <2>3. Task!Continue(l, Task!NoJob)
    BY <1>2, <1>7
  <2> HIDE DEF t
  <2> QED BY <1>1, <1>2, <1>3, <1>4, <1>5, <1>7, <2>1, <2>2, <2>3, MoneyKeeps
<1>8. CASE Task!Fault(t) /\ Task!Continue(l, job[l].rest) /\ net' = net
  <2>1. taskFaults' \in 0 .. TaskFaults /\ hurt' = hurt \cup {t}
    BY <1>4, <1>8 DEF Task!Fault
  <2>2. Task!Continue(l, Task!NoJob)
    BY <1>2, <1>8
  <2> HIDE DEF t
  <2> QED BY <1>1, <1>2, <1>3, <1>4, <1>5, <1>8, <2>1, <2>2, MoneyKeeps
<1> QED BY <1>1, <1>6, <1>7, <1>8

LEMMA TokenKeeps ==
    ASSUME TaskInv, NEW l \in Loops, Task!taskAdjustTokenQuota(l) PROVE TaskInv'
<1> DEFINE t == job[l].task
<1>1. /\ job[l].step = "token" /\ UNCHANGED <<row, upstream, overdue, orphan, net>>
      /\ Task!Continue(l, job[l].rest)
      /\ \/ tokenNet' = [tokenNet EXCEPT ![t] = @ + job[l].delta] /\ Task!NoFault
         \/ Task!Fault(t) /\ tokenNet' = tokenNet
  BY DEF Task!taskAdjustTokenQuota, Task!Working, Task!worldVars
<1>2. /\ t \in Videos /\ Moves(l, t) /\ MoveIsTrue(l, t)
      /\ job[l].rest = Task!NoJob /\ job[l].delta \in Int /\ row[t].quota \in Nat
  BY <1>1, MoverFacts
<1>3. /\ row[t].quota + job[l].delta \in Outcomes(t)
      /\ tokenNet[t] = row[t].quota /\ net[t] = row[t].quota + job[l].delta
  BY <1>1, <1>2 DEF MoveIsTrue
<1>4. /\ net \in [Videos -> Int] /\ tokenNet \in [Videos -> Int]
      /\ taskFaults \in 0 .. TaskFaults /\ hurt \subseteq Videos /\ TaskFaults \in Nat
  BY TaskTypes, TaskAssumption
<1>5. /\ Task!NoJob \in Task!Jobs /\ Task!NoJob.step = "none" /\ Task!Continue(l, Task!NoJob)
  BY <1>1, <1>2 DEF Task!Jobs, Task!NoJob
<1>6. CASE tokenNet' = [tokenNet EXCEPT ![t] = @ + job[l].delta] /\ Task!NoFault
  <2>1. /\ tokenNet' \in [Videos -> Int] /\ tokenNet'[t] = row[t].quota + job[l].delta
        /\ \A u \in Videos : u # t => tokenNet'[u] = tokenNet[u]
    BY <1>2, <1>3, <1>4, <1>6
  <2>2. taskFaults' \in 0 .. TaskFaults /\ hurt' = hurt
    BY <1>4, <1>6 DEF Task!NoFault
  <2>3. row[t].status = "FAILURE" => net[t] = 0
    BY <1>3 DEF Outcomes
  <2> HIDE DEF t
  <2> QED BY <1>1, <1>2, <1>3, <1>4, <1>5, <2>1, <2>2, <2>3, MoneyKeeps
<1>7. CASE Task!Fault(t) /\ tokenNet' = tokenNet
  <2>1. taskFaults' \in 0 .. TaskFaults /\ hurt' = hurt \cup {t}
    BY <1>4, <1>7 DEF Task!Fault
  <2> HIDE DEF t
  <2> QED BY <1>1, <1>2, <1>3, <1>4, <1>5, <1>7, <2>1, MoneyKeeps
<1> QED BY <1>1, <1>6, <1>7

LEMMA RoundEndsKeeps ==
    ASSUME TaskInv, NEW l \in Loops, Task!PollingRoundEnds(l) PROVE TaskInv'
<1>1. /\ todo[l] = {} /\ phase' = [phase EXCEPT ![l] = "asleep"]
      /\ UNCHANGED <<row, upstream, overdue, orphan, todo, seen, job, net, tokenNet, taskFaults, hurt>>
  BY DEF Task!PollingRoundEnds, Task!worldVars, Task!moneyVars
<1>2. /\ phase' \in [Loops -> {"asleep", "sweep", "poll"}]
      /\ \A m \in Loops : m # l => phase'[m] = phase[m]
  BY <1>1, TaskTypes
<1>3. Task!TaskTypeOK'
  BY <1>1, <1>2 DEF TaskInv, Task!TaskTypeOK
<1>4. ListsAreOpen'
  BY <1>1, <1>2 DEF TaskInv, ListsAreOpen
<1>5. JobsAreVideos' /\ OneMoves' /\ CostsAreTrue'
  BY <1>1, CostsStayTrue
<1> QED BY <1>1, <1>3, <1>4, <1>5 DEF TaskInv

LEMMA LoopKeeps ==
    ASSUME TaskInv, NEW l \in Loops, Task!LoopStep(l) \/ Task!Crash(l) PROVE TaskInv'
<1>1. CASE Task!GetTimedOutUnfinishedTasks(l)
  <2> DEFINE S == {t \in overdue : TRUE /\ Task!Unfinished(t)}
  <2>1. /\ Task!ReadRows(l, S) /\ phase[l] = "asleep" /\ phase' = [phase EXCEPT ![l] = "sweep"]
        /\ UNCHANGED <<row, upstream, overdue, orphan, job, net, tokenNet, taskFaults, hurt>>
    BY <1>1 DEF Task!GetTimedOutUnfinishedTasks, Task!worldVars, Task!moneyVars
  <2>2. S \subseteq {t \in Videos : Task!Unfinished(t)}
    BY TaskTypes
  <2>3. todo[l] = {}
    BY <2>1 DEF TaskInv, ListsAreOpen
  <2> HIDE DEF S
  <2> QED BY <2>1, <2>2, <2>3, ReadKeeps
<1>2. CASE Task!GetAllUnFinishSyncTasks(l)
  <2> DEFINE S == {t \in Videos : Task!Unfinished(t)}
  <2>1. /\ Task!ReadRows(l, S) /\ todo[l] = {} /\ phase' = [phase EXCEPT ![l] = "poll"]
        /\ UNCHANGED <<row, upstream, overdue, orphan, job, net, tokenNet, taskFaults, hurt>>
    BY <1>2 DEF Task!GetAllUnFinishSyncTasks, Task!worldVars, Task!moneyVars
  <2>2. S \subseteq {t \in Videos : Task!Unfinished(t)}
    OBVIOUS
  <2> HIDE DEF S
  <2> QED BY <2>1, <2>2, ReadKeeps
<1>3. ASSUME NEW t \in Videos, Task!FetchFails(l, t) PROVE TaskInv'
  <2>1. /\ t \in todo[l] /\ job[l].step = "none" /\ todo' = [todo EXCEPT ![l] = @ \ {t}]
        /\ Task!HarmlessFault
        /\ UNCHANGED <<row, upstream, overdue, orphan, phase, seen, job, net, tokenNet>>
    BY <1>3 DEF Task!FetchFails, Task!Working, Task!worldVars, Task!moneyVars
  <2> QED BY <2>1, PassKeeps
<1>4. ASSUME NEW t \in Videos PROVE ~Task!TaskBulkUpdateByID(l, t)
  BY TaskTypes DEF Task!TaskBulkUpdateByID
<1>5. ~Task!SaveTask(l)
  BY DEF Task!SaveTask, Task!Working, TaskInv, JobsAreVideos
<1>6. ~Task!updateSunoTasks(l)
  <2>1. SUFFICES ASSUME Task!updateSunoTasks(l) PROVE FALSE
    OBVIOUS
  <2>2. job[l].step = "apply" /\ [t \in Videos |-> "video"][job[l].task] = "suno"
    BY <2>1 DEF Task!updateSunoTasks, Task!Working
  <2>3. job[l].task \in Videos
    BY <2>2, TaskTypes, JobFacts
  <2> QED BY <2>2, <2>3
<1>7. CASE Task!Crash(l)
  BY <1>7, CrashOfLoopKeeps
<1>8. CASE Task!LoopStep(l)
  BY <1>1, <1>2, <1>3, <1>4, <1>5, <1>6, <1>8, RoundEndsKeeps, SweepKeeps, FetchKeeps,
     VideoKeeps, FundingKeeps, TokenKeeps DEF Task!LoopStep
<1> QED BY <1>7, <1>8

(* TaskInv is inductive.                                                   *)
LEMMA TaskKeeps ==
    ASSUME TaskInv, [Task!Next]_billingVars PROVE TaskInv'
<1>1. CASE UNCHANGED billingVars
  <2>1. UNCHANGED <<row, upstream, overdue, orphan, phase, todo, seen, job, net, tokenNet, taskFaults, hurt>>
    BY <1>1 DEF billingVars
  <2>2. Task!TaskTypeOK' /\ orphan' = {} /\ ListsAreOpen'
    BY <2>1 DEF TaskInv, Task!TaskTypeOK, ListsAreOpen
  <2>3. JobsAreVideos' /\ OneMoves' /\ CostsAreTrue'
    BY <2>1, CostsStayTrue
  <2> QED BY <2>2, <2>3 DEF TaskInv
<1>2. CASE Task!Next
  BY <1>2, LoopKeeps, WorldKeeps, RelayKeeps DEF Task!Next, Task!WorldStep
<1> QED BY <1>1, <1>2

LEMMA TaskStarts == Task!Init => TaskInv
<1> SUFFICES ASSUME Task!Init PROVE TaskInv
  OBVIOUS
<1>1. /\ row = [t \in Videos |-> [status |-> "ABSENT", done |-> FALSE, quota |-> 0]]
      /\ upstream = [t \in Videos |-> "IN_PROGRESS"] /\ overdue = {} /\ orphan = {}
      /\ phase = [l \in Loops |-> "asleep"] /\ todo = [l \in Loops |-> {}]
      /\ seen = [l \in Loops |-> [t \in Videos |-> "ABSENT"]]
      /\ job = [l \in Loops |-> Task!NoJob]
      /\ net = [t \in Videos |-> 0] /\ tokenNet = [t \in Videos |-> 0]
      /\ taskFaults = 0 /\ hurt = {}
  BY DEF Task!Init, Task!Processes
<1>2. /\ Task!NoJob \in Task!Jobs /\ Task!NoJob.step = "none"
      /\ "ABSENT" \in Task!Statuses /\ "IN_PROGRESS" \in Task!Reports
  BY DEF Task!Jobs, Task!NoJob, Task!Statuses, Task!Reports
<1>3. Task!TaskTypeOK
  <2>1. row \in [Videos -> [status : Task!Statuses, done : BOOLEAN, quota : Nat]]
    BY <1>1, <1>2
  <2>2. /\ todo \in [Loops -> SUBSET Videos] /\ seen \in [Loops -> [Videos -> Task!Statuses]]
        /\ job \in [Loops -> Task!Jobs] /\ upstream \in [Videos -> Task!Reports]
    BY <1>1, <1>2
  <2>3. taskFaults \in 0 .. TaskFaults
    BY <1>1, TaskAssumption
  <2> QED BY <1>1, <2>1, <2>2, <2>3 DEF Task!TaskTypeOK, Task!Processes
<1>4. ListsAreOpen /\ JobsAreVideos /\ OneMoves
  BY <1>1, <1>2 DEF ListsAreOpen, JobsAreVideos, OneMoves, Moves
<1>5. ASSUME NEW t \in Videos
      PROVE  ChargeIsTrue(t) /\ EndIsTrue(t) /\ \A l \in Loops : MoveIsTrue(l, t)
  BY <1>1, <1>2 DEF ChargeIsTrue, EndIsTrue, MoveIsTrue, Moves, Task!Final, Open
<1> QED BY <1>1, <1>3, <1>4, <1>5 DEF TaskInv, CostsAreTrue

(* What TaskInv says of the money of a task.                               *)
LEMMA TaskCosts ==
    ASSUME TaskInv
    PROVE  Task!TaskTypeOK /\ Task!NeverRefundedTwice /\ Task!FailureIsRefunded /\ Task!SuccessIsCharged
<1>1. Task!TaskTypeOK
  BY DEF TaskInv
<1>2. ASSUME NEW t \in Videos
      PROVE  /\ row[t].status \in Task!Statuses /\ row[t].quota \in Nat
             /\ ChargeIsTrue(t) /\ EndIsTrue(t) /\ Outcomes(t) \subseteq Nat
             /\ net[t] \in Int /\ tokenNet[t] \in Int
  BY TaskTypes, TaskAssumption DEF TaskInv, CostsAreTrue, Outcomes
<1>3. ASSUME NEW t \in Videos PROVE net[t] >= 0 /\ tokenNet[t] >= 0
  <2>1. CASE row[t].status = "ABSENT"
    BY <1>2, <2>1 DEF ChargeIsTrue
  <2>2. CASE row[t].status \in Open
    BY <1>2, <2>2 DEF ChargeIsTrue
  <2>3. CASE row[t].status \in Task!Final
    <3>1. /\ net[t] \in {row[t].quota} \cup Outcomes(t)
          /\ tokenNet[t] \in {row[t].quota} \cup Outcomes(t)
      BY <1>2, <2>3 DEF EndIsTrue
    <3>2. net[t] \in Nat /\ tokenNet[t] \in Nat
      BY <1>2, <3>1
    <3> QED BY <3>2
  <2> QED BY <1>2, <2>1, <2>2, <2>3 DEF Open, Task!Final, Task!Statuses, Task!Reports
<1>4. ASSUME NEW t \in Videos, ~Task!Moving(t) PROVE \A l \in Loops : ~Moves(l, t)
  BY <1>4 DEF Task!Moving, Task!Processes, Moves
<1>5. ASSUME NEW t \in Videos \ hurt, ~Task!Moving(t), row[t].status \in Task!Final
      PROVE  /\ net[t] = tokenNet[t] /\ net[t] \in {row[t].quota} \cup Outcomes(t)
             /\ row[t].status = "FAILURE" /\ t \notin Legacies => net[t] = 0
  BY <1>2, <1>4, <1>5 DEF EndIsTrue
<1>6. Task!NeverRefundedTwice
  BY <1>3 DEF Task!NeverRefundedTwice
<1>7. Task!FailureIsRefunded
  BY <1>5 DEF Task!FailureIsRefunded, Task!Final
<1>8. Task!SuccessIsCharged
  BY <1>5 DEF Task!SuccessIsCharged, Task!Final, Outcomes
<1> QED BY <1>1, <1>6, <1>7, <1>8

(* UpdateWithStatus writes only where the row still has the status that    *)
(* was read, and what was read was not final.                              *)
LEMMA OutcomesKept ==
    ASSUME TaskInv, Task!Next PROVE Task!OutcomeStays
<1> SUFFICES ASSUME NEW t \in Videos, row[t].status \in Task!Final
             PROVE  row'[t].status = row[t].status
  BY DEF Task!OutcomeStays
<1>1. row \in [Videos -> [status : Task!Statuses, done : BOOLEAN, quota : Nat]]
  BY TaskTypes
<1>2. ASSUME NEW l \in Loops, NEW u \in todo[l] PROVE Task!Wins(l, u) => u # t
  BY DEF Task!Wins, TaskInv, ListsAreOpen, Open, Task!Final
<1>3. ASSUME NEW u \in Videos, u # t, NEW s, NEW done, Task!Write(u, s, done)
      PROVE  row'[t].status = row[t].status
  BY <1>1, <1>3 DEF Task!Write
<1>4. ASSUME NEW l \in Loops, Task!LoopStep(l) \/ Task!Crash(l)
      PROVE  row'[t].status = row[t].status
  <2>1. ASSUME NEW u \in Videos, Task!sweepTimedOutTasks(l, u) PROVE row'[t].status = row[t].status
    <3>1. u \in todo[l] /\ ((Task!Wins(l, u) /\ Task!Write(u, "FAILURE", TRUE)) \/ row' = row)
      BY <2>1 DEF Task!sweepTimedOutTasks
    <3> QED BY <1>2, <1>3, <3>1
  <2>2. CASE Task!updateVideoSingleTask(l)
    <3> DEFINE u == job[l].task
    <3>1. u \in todo[l] /\ u \in Videos
      BY <2>2, TaskTypes DEF Task!updateVideoSingleTask, Task!Working, TaskInv, ListsAreOpen
    <3>2. ASSUME NEW s, NEW done, NEW j, Task!UpdateWithStatus(l, u, s, done, j)
          PROVE  row'[t].status = row[t].status
      <4>1. row' = row \/ (Task!Wins(l, u) /\ Task!Write(u, s, done))
        BY <3>2 DEF Task!UpdateWithStatus
      <4> HIDE DEF u
      <4> QED BY <1>2, <1>3, <3>1, <4>1
    <3> QED BY <2>2, <3>2 DEF Task!updateVideoSingleTask
  <2>3. ASSUME NEW u \in Videos PROVE ~Task!TaskBulkUpdateByID(l, u)
    BY TaskTypes DEF Task!TaskBulkUpdateByID
  <2>4. ~Task!SaveTask(l)
    BY DEF Task!SaveTask, Task!Working, TaskInv, JobsAreVideos
  <2>5. \/ \E u \in Videos : Task!sweepTimedOutTasks(l, u)
        \/ Task!updateVideoSingleTask(l) \/ row' = row
    BY <1>4, <2>3, <2>4
       DEF Task!LoopStep, Task!Crash, Task!GetTimedOutUnfinishedTasks, Task!GetAllUnFinishSyncTasks,
           Task!PollingRoundEnds, Task!FetchTask, Task!FetchFails, Task!updateSunoTasks,
           Task!taskAdjustFunding, Task!taskAdjustTokenQuota
  <2> QED BY <2>1, <2>2, <2>5
<1>5. ASSUME NEW u \in Videos, Task!WorldStep(u) PROVE row'[t].status = row[t].status
  <2>1. CASE Task!RelayTask(u)
    <3>1. row[u].status = "ABSENT"
      BY <2>1 DEF Task!RelayTask
    <3>2. u # t
      BY <3>1 DEF Task!Final
    <3>3. row' = row \/ \E r : row' = [row EXCEPT ![u] = r]
      BY <2>1 DEF Task!RelayTask
    <3> QED BY <1>1, <3>2, <3>3
  <2>2. CASE Task!UpstreamEnds(u) \/ Task!TimesOut(u) \/ Task!ChannelDeleted(u)
    BY <2>2 DEF Task!UpstreamEnds, Task!TimesOut, Task!ChannelDeleted
  <2> QED BY <1>5, <2>1, <2>2 DEF Task!WorldStep
<1> QED BY <1>4, <1>5 DEF Task!Next

TaskParts == {"tasks", "faulty tasks"}

(* Where tasks are polled and swept, TaskInv holds at every step.          *)
LEMMA TaskInvAlways == MeteringSpec => [](part \in TaskParts => TaskInv)
<1>1. MeteringInit => (part \in TaskParts => TaskInv)
  BY TaskStarts DEF MeteringInit, TaskParts
<1>2. ASSUME part \in TaskParts => TaskInv, [MeteringNext]_<<part, vars, billingVars, rowVars>>
      PROVE  (part \in TaskParts => TaskInv)'
  <2>1. CASE MeteringNext
    <3>1. part' = part /\ (part \in TaskParts => Task!Next)
      BY <2>1 DEF MeteringNext, TaskParts
    <3> QED BY <1>2, <3>1, TaskKeeps
  <2>2. CASE UNCHANGED <<part, vars, billingVars, rowVars>>
    BY <1>2, <2>2, TaskKeeps
  <2> QED BY <1>2, <2>1, <2>2
<1> QED BY <1>1, <1>2, PTL DEF MeteringSpec

(* Any number of nodes polls and sweeps any tasks at any prices: a task is *)
(* never given back more than it took, one that failed has cost nothing,   *)
(* one that succeeded what it came to, on token and funding alike          *)
(* (updateVideoSingleTask, sweepTimedOutTasks, RefundTaskQuota,            *)
(* RecalculateTaskQuota).                                                  *)
THEOREM TasksAreMeteredOnce == MeteringSpec => [](part \in TaskParts => MeteredOnce)
<1>1. (part \in TaskParts => TaskInv) => (part \in TaskParts => MeteredOnce)
  BY TaskCosts DEF MeteredOnce, TaskParts
<1> QED BY <1>1, TaskInvAlways, PTL

(* The outcome on which money was moved stays, whatever the nodes have     *)
(* read before (UpdateWithStatus).                                         *)
THEOREM OutcomesStay == MeteringSpec => OutcomeIsFinal
<1>1. ASSUME part \in TaskParts => TaskInv, [MeteringNext]_<<part, vars, billingVars, rowVars>>
      PROVE  [(part \in TaskParts) => Task!OutcomeStays]_billingVars
  <2>1. CASE MeteringNext
    <3>1. part \in TaskParts => Task!Next
      BY <2>1 DEF MeteringNext, TaskParts
    <3> QED BY <1>1, <3>1, OutcomesKept
  <2> QED BY <1>1, <2>1
<1> QED BY <1>1, TaskInvAlways, PTL DEF MeteringSpec, OutcomeIsFinal, TaskParts

-----------------------------------------------------------------------------
(* The row of a subscription.                                              *)

RowType == [used : Nat, next : Nat]
TxType == [read : RowType, save : RowType, reset : BOOLEAN]

(* The requests and the reset task (Row!Task).                             *)
Writers == Payers \cup {"resetTask"}

(* What an open transaction will save: within the total, and enough for    *)
(* what its request takes on top of what it read, or of nothing if it      *)
(* resets the row.                                                         *)
SaveCounts(t, d) ==
    /\ t.save.used <= RowTotal
    /\ (IF t.reset THEN 0 ELSE t.read.used) + d <= t.save.used

RowTypeOK ==
    /\ subscription \in RowType /\ period \in Nat
    /\ step \in [Payers -> {"new", "pre", "held", "post", "done"}]
    /\ amount \in [Payers -> Int] /\ since \in [Payers -> Int]
    /\ tx \in [Writers -> TxType]

RowCounts == SumFunction(since) <= subscription.used /\ subscription.used <= RowTotal

SavesCount ==
    /\ \A r \in Payers : step[r] \in {"pre", "post"} => SaveCounts(tx[r], amount[r])
    /\ tx["resetTask"] # Row!NoTx =>
          tx["resetTask"].reset /\ SaveCounts(tx["resetTask"], 0)

RowInv == RowTypeOK /\ RowCounts /\ SavesCount

LEMMA SameSum == ASSUME NEW f PROVE Row!SumFunction(f) = SumFunction(f)
  BY DEF Row!SumFunction, Row!SumFunctionOnSet, Row!FoldFunctionOnSet, Row!MapThenFoldSet,
     SumFunction, SumFunctionOnSet, FoldFunctionOnSet, MapThenFoldSet

LEMMA RowStarts == ASSUME Row!Init PROVE RowInv
<1>1. /\ subscription = [used |-> 0, next |-> 1] /\ period = 0
      /\ step = [r \in Payers |-> "new"] /\ amount = [r \in Payers |-> 0]
      /\ tx = [a \in Writers |-> Row!NoTx] /\ since = [r \in Payers |-> 0]
  BY DEF Row!Init, Row!Task, Writers
<1>2. Row!NoTx \in TxType
  BY DEF Row!NoTx, TxType, RowType
<1>3. RowTypeOK
  <2>1. subscription \in RowType /\ period \in Nat
    BY <1>1 DEF RowType
  <2>2. tx \in [Writers -> TxType]
    BY <1>1, <1>2
  <2> QED BY <1>1, <2>1, <2>2 DEF RowTypeOK
<1>4. RowCounts
  <2>1. SumFunction(since) = 0
    BY <1>1, RowAssumption, SumOfZeros
  <2> QED BY <1>1, <2>1, RowAssumption DEF RowCounts
<1>5. SavesCount
  BY <1>1 DEF SavesCount, Writers
<1> QED BY <1>3, <1>4, <1>5 DEF RowInv

(* A transaction that reads the row.                                       *)
LEMMA Opens ==
    ASSUME RowTypeOK, NEW a \in Writers, NEW w \in RowType, NEW b \in BOOLEAN, Row!Open(a, w, b)
    PROVE  /\ tx' \in [Writers -> TxType]
           /\ tx'[a] = [read |-> subscription, save |-> w, reset |-> b]
           /\ \A c \in Writers : c # a => tx'[c] = tx[c]
<1>1. [read |-> subscription, save |-> w, reset |-> b] \in TxType
  BY DEF TxType, RowTypeOK
<1> QED BY <1>1 DEF Row!Open, RowTypeOK

LEMMA Closes ==
    ASSUME RowTypeOK, NEW a \in Writers, tx' = [tx EXCEPT ![a] = Row!NoTx]
    PROVE  /\ tx' \in [Writers -> TxType] /\ tx'[a] = Row!NoTx
           /\ \A c \in Writers : c # a => tx'[c] = tx[c]
<1>1. Row!NoTx \in TxType
  BY DEF Row!NoTx, TxType, RowType
<1> QED BY <1>1 DEF RowTypeOK

(* A transaction that is committed finds the row as it read it: on this    *)
(* database a save of a stale row fails.                                   *)
LEMMA Commits ==
    ASSUME RowTypeOK, RowCounts, NEW a \in Writers, NEW d \in Int, Row!Commit(a, d),
           SaveCounts(tx[a], d), a \notin Payers => d = 0
    PROVE  subscription' \in RowType /\ since' \in [Payers -> Int] /\ RowCounts'
<1> DEFINE zeros == [r \in Payers |-> 0]
           base == IF tx[a].reset THEN zeros ELSE since
           low == IF tx[a].reset THEN 0 ELSE tx[a].read.used
<1>1. /\ subscription = tx[a].read /\ subscription' = tx[a].save
      /\ since' = IF a \in Payers THEN [base EXCEPT ![a] = @ + d] ELSE base
  BY DEF Row!Commit, Row!Stale
<1>2. /\ tx[a].read \in RowType /\ tx[a].save \in RowType /\ tx[a].reset \in BOOLEAN
      /\ since \in [Payers -> Int]
  BY DEF RowTypeOK, TxType
<1>3. tx[a].read.used \in Nat /\ tx[a].save.used \in Nat
  BY <1>2 DEF RowType
<1>4. base \in [Payers -> Int] /\ IsFiniteSet(Payers)
  BY <1>2, RowAssumption
<1>5. SumFunction(base) \in Int /\ SumFunction(base) <= low
  <2>1. SumFunction(zeros) = 0
    BY RowAssumption, SumOfZeros
  <2>2. SumFunction(since) <= subscription.used
    BY DEF RowCounts
  <2> HIDE DEF zeros
  <2>3. SumFunction(base) <= low
    BY <1>1, <2>1, <2>2
  <2> HIDE DEF base
  <2> QED BY <1>4, <2>3, SumInt
<1>6. low + d <= tx[a].save.used /\ tx[a].save.used <= RowTotal
  BY DEF SaveCounts
<1>7. low \in Int
  BY <1>3
<1> HIDE DEF base, low
<1>8. CASE a \in Payers
  <2>1. since' \in [Payers -> Int] /\ since'[a] = base[a] + d /\ base[a] \in Int
        /\ \A r \in Payers : r # a => since'[r] = base[r]
    BY <1>1, <1>4, <1>8
  <2>2. SumFunction(since') = SumFunction(base) + (since'[a] - base[a])
    BY <1>4, <1>8, <2>1, SumChanges
  <2>3. SumFunction(since') <= tx[a].save.used
    BY <1>3, <1>5, <1>6, <1>7, <2>1, <2>2
  <2> QED BY <1>1, <1>2, <1>6, <2>1, <2>3 DEF RowCounts
<1>9. CASE a \notin Payers
  <2>1. since' = base /\ d = 0
    BY <1>1, <1>9
  <2>2. SumFunction(since') <= tx[a].save.used
    BY <1>3, <1>5, <1>6, <1>7, <2>1
  <2> QED BY <1>1, <1>2, <1>4, <1>6, <2>1, <2>2 DEF RowCounts
<1> QED BY <1>8, <1>9

(* A request moves on: its own transaction counts, the others are theirs.  *)
LEMMA MovesOn ==
    ASSUME RowTypeOK, SavesCount, NEW r \in Payers, NEW p \in {"new", "pre", "held", "post", "done"},
           step' = [step EXCEPT ![r] = p],
           \A q \in Payers : q # r => amount'[q] = amount[q],
           \A c \in Writers : c # r => tx'[c] = tx[c],
           p \in {"pre", "post"} => SaveCounts(tx'[r], amount'[r])
    PROVE  step' \in [Payers -> {"new", "pre", "held", "post", "done"}] /\ SavesCount'
<1>1. /\ step' \in [Payers -> {"new", "pre", "held", "post", "done"}] /\ step'[r] = p
      /\ \A q \in Payers : q # r => step'[q] = step[q]
  BY DEF RowTypeOK
<1>2. "resetTask" # r /\ "resetTask" \in Writers /\ Payers \subseteq Writers
  BY RowAssumption DEF Writers
<1>3. tx'["resetTask"] = tx["resetTask"]
  BY <1>2
<1>4. ASSUME NEW q \in Payers, step'[q] \in {"pre", "post"} PROVE SaveCounts(tx'[q], amount'[q])
  <2>1. CASE q = r
    BY <1>1, <1>4, <2>1
  <2>2. CASE q # r
    BY <1>1, <1>2, <1>4, <2>2 DEF SavesCount
  <2> QED BY <2>1, <2>2
<1> QED BY <1>1, <1>3, <1>4 DEF SavesCount

LEMMA ResetTyped ==
    ASSUME RowTypeOK
    PROVE  /\ Row!MaybeReset(subscription) \in RowType /\ Row!Due(subscription) \in BOOLEAN
           /\ Row!Due(subscription) => Row!MaybeReset(subscription).used = 0
           /\ ~Row!Due(subscription) => Row!MaybeReset(subscription) = subscription
           /\ subscription.used \in Nat /\ subscription.next \in Nat
<1>1. subscription.used \in Nat /\ subscription.next \in Nat /\ period + 1 \in Nat
      /\ subscription \in RowType
  BY DEF RowTypeOK, RowType
<1>2. Row!Due(subscription) \in BOOLEAN
  BY DEF Row!Due
<1>3. [used |-> 0, next |-> period + 1] \in RowType
  BY <1>1 DEF RowType
<1> QED BY <1>1, <1>2, <1>3 DEF Row!MaybeReset

LEMMA PreConsumeReadsKeeps ==
    ASSUME RowInv, NEW r \in Payers, Row!PreConsumeReads(r)
    PROVE  RowInv'
<1>0. RowTypeOK /\ RowCounts /\ SavesCount /\ r \in Writers
  BY DEF RowInv, Writers
<1> DEFINE m == Row!MaybeReset(subscription)
           due == Row!Due(subscription)
<1>1. PICK a \in RowAmounts : /\ m.used + a <= RowTotal
                              /\ amount' = [amount EXCEPT ![r] = a]
                              /\ Row!Open(r, [m EXCEPT !.used = @ + a], due)
  BY DEF Row!PreConsumeReads
<1>2. /\ step' = [step EXCEPT ![r] = "pre"] /\ UNCHANGED <<subscription, period, since>>
  BY DEF Row!PreConsumeReads
<1>3. a \in Nat
  BY RowAssumption
<1>4. /\ m \in RowType /\ due \in BOOLEAN /\ (due => m.used = 0)
      /\ (~due => m = subscription) /\ subscription.used \in Nat
  BY <1>0, ResetTyped
<1> HIDE DEF m, due
<1> DEFINE w == [m EXCEPT !.used = @ + a]
<1>5. w \in RowType /\ w.used = m.used + a /\ m.used \in Nat
  BY <1>3, <1>4 DEF RowType
<1> HIDE DEF w
<1>6. Row!Open(r, w, due)
  BY <1>1 DEF w
<1>7. /\ tx' \in [Writers -> TxType]
      /\ tx'[r] = [read |-> subscription, save |-> w, reset |-> due]
      /\ \A c \in Writers : c # r => tx'[c] = tx[c]
  BY <1>0, <1>4, <1>5, <1>6, Opens
<1>8. amount' \in [Payers -> Int] /\ amount'[r] = a /\ \A q \in Payers : q # r => amount'[q] = amount[q]
  BY <1>0, <1>1, <1>3 DEF RowTypeOK
<1>9. SaveCounts(tx'[r], amount'[r])
  <2>1. (IF due THEN 0 ELSE subscription.used) + a <= w.used /\ w.used <= RowTotal
    BY <1>1, <1>3, <1>4, <1>5
  <2> QED BY <1>7, <1>8, <2>1 DEF SaveCounts
<1>10. step' \in [Payers -> {"new", "pre", "held", "post", "done"}] /\ SavesCount'
  BY <1>0, <1>2, <1>7, <1>8, <1>9, MovesOn
<1>11. RowTypeOK' /\ RowCounts'
  BY <1>0, <1>2, <1>7, <1>8, <1>10 DEF RowTypeOK, RowCounts
<1> QED BY <1>10, <1>11 DEF RowInv

LEMMA PostConsumeReadsKeeps ==
    ASSUME RowInv, NEW r \in Payers, Row!PostConsumeReads(r)
    PROVE  RowInv'
<1>0. RowTypeOK /\ RowCounts /\ SavesCount /\ r \in Writers
  BY DEF RowInv, Writers
<1>1. PICK d \in {-amount[r]} \cup RowAmounts :
         /\ Row!NewUsed(subscription.used, d) <= RowTotal
         /\ amount' = [amount EXCEPT ![r] = d]
         /\ Row!Open(r, [subscription EXCEPT !.used = Row!NewUsed(@, d)], FALSE)
  BY DEF Row!PostConsumeReads
<1>2. /\ step' = [step EXCEPT ![r] = "post"] /\ UNCHANGED <<subscription, period, since>>
  BY DEF Row!PostConsumeReads
<1>3. d \in Int
  <2>1. amount[r] \in Int
    BY <1>0 DEF RowTypeOK
  <2> QED BY <2>1, RowAssumption
<1>4. subscription \in RowType /\ subscription.used \in Nat
  BY <1>0 DEF RowTypeOK, RowType
<1> DEFINE n == Row!NewUsed(subscription.used, d)
           w == [subscription EXCEPT !.used = n]
<1>5. n \in Nat /\ subscription.used + d <= n
  BY <1>3, <1>4 DEF Row!NewUsed
<1>6. Row!Open(r, w, FALSE)
  BY <1>1
<1>a. n <= RowTotal
  BY <1>1
<1> HIDE DEF n
<1>b. w \in RowType /\ w.used = n
  BY <1>4, <1>5 DEF RowType
<1> HIDE DEF w
<1>7. /\ tx' \in [Writers -> TxType]
      /\ tx'[r] = [read |-> subscription, save |-> w, reset |-> FALSE]
      /\ \A c \in Writers : c # r => tx'[c] = tx[c]
  BY <1>0, <1>b, <1>6, Opens
<1>8. amount' \in [Payers -> Int] /\ amount'[r] = d /\ \A q \in Payers : q # r => amount'[q] = amount[q]
  BY <1>0, <1>1, <1>3 DEF RowTypeOK
<1>9. SaveCounts(tx'[r], amount'[r])
  BY <1>5, <1>7, <1>8, <1>a, <1>b DEF SaveCounts
<1>10. step' \in [Payers -> {"new", "pre", "held", "post", "done"}] /\ SavesCount'
  BY <1>0, <1>2, <1>7, <1>8, <1>9, MovesOn
<1>11. RowTypeOK' /\ RowCounts'
  BY <1>0, <1>2, <1>7, <1>8, <1>10 DEF RowTypeOK, RowCounts
<1> QED BY <1>10, <1>11 DEF RowInv

LEMMA SavesKeep ==
    ASSUME RowInv, NEW r \in Payers, Row!PreConsumeSaves(r) \/ Row!PostConsumeSaves(r)
    PROVE  RowInv'
<1>0. RowTypeOK /\ RowCounts /\ SavesCount /\ r \in Writers
  BY DEF RowInv, Writers
<1>1. /\ step[r] \in {"pre", "post"} /\ Row!Commit(r, amount[r]) /\ UNCHANGED <<period, amount>>
  BY DEF Row!PreConsumeSaves, Row!PostConsumeSaves
<1>2. PICK p \in {"held", "done"} : step' = [step EXCEPT ![r] = p]
  BY DEF Row!PreConsumeSaves, Row!PostConsumeSaves
<1>3. amount[r] \in Int /\ SaveCounts(tx[r], amount[r])
  BY <1>0, <1>1 DEF RowTypeOK, SavesCount
<1>4. subscription' \in RowType /\ since' \in [Payers -> Int] /\ RowCounts'
  BY <1>0, <1>1, <1>3, Commits
<1>5. tx' = [tx EXCEPT ![r] = Row!NoTx]
  BY <1>1 DEF Row!Commit
<1>6. tx' \in [Writers -> TxType] /\ \A c \in Writers : c # r => tx'[c] = tx[c]
  BY <1>0, <1>5, Closes
<1>7. step' \in [Payers -> {"new", "pre", "held", "post", "done"}] /\ SavesCount'
  BY <1>0, <1>1, <1>2, <1>6, MovesOn
<1>8. RowTypeOK'
  BY <1>0, <1>1, <1>4, <1>6, <1>7 DEF RowTypeOK
<1> QED BY <1>4, <1>7, <1>8 DEF RowInv

LEMMA SaveFailsKeeps ==
    ASSUME RowInv, NEW r \in Payers, Row!SaveFails(r)
    PROVE  RowInv'
<1>0. RowTypeOK /\ RowCounts /\ SavesCount /\ r \in Writers
  BY DEF RowInv, Writers
<1>1. /\ step' = [step EXCEPT ![r] = "done"] /\ tx' = [tx EXCEPT ![r] = Row!NoTx]
      /\ UNCHANGED <<subscription, period, amount, since>>
  BY DEF Row!SaveFails
<1>6. tx' \in [Writers -> TxType] /\ \A c \in Writers : c # r => tx'[c] = tx[c]
  BY <1>0, <1>1, Closes
<1>7. step' \in [Payers -> {"new", "pre", "held", "post", "done"}] /\ SavesCount'
  BY <1>0, <1>1, <1>6, MovesOn
<1>8. RowTypeOK' /\ RowCounts'
  BY <1>0, <1>1, <1>6, <1>7 DEF RowTypeOK, RowCounts
<1> QED BY <1>7, <1>8 DEF RowInv

(* A period ends, or the reset task reads or saves.                        *)
LEMMA TimeAndResetKeep ==
    ASSUME RowInv, Row!PeriodEnds \/ Row!ResetReads \/ Row!ResetSaves
    PROVE  RowInv'
<1>0. RowTypeOK /\ RowCounts /\ SavesCount /\ "resetTask" \in Writers
  BY DEF RowInv, Writers
<1>1. CASE Row!PeriodEnds
  <2>1. period' \in Nat /\ UNCHANGED <<subscription, step, amount, tx, since>>
    BY <1>0, <1>1 DEF Row!PeriodEnds, RowTypeOK
  <2> QED BY <1>0, <2>1 DEF RowInv, RowTypeOK, RowCounts, SavesCount
<1>2. ASSUME tx' \in [Writers -> TxType],
             \A c \in Writers : c # "resetTask" => tx'[c] = tx[c],
             tx'["resetTask"] # Row!NoTx =>
                tx'["resetTask"].reset /\ SaveCounts(tx'["resetTask"], 0),
             UNCHANGED <<step, amount>>
      PROVE  SavesCount'
  <2>1. ASSUME NEW q \in Payers PROVE tx'[q] = tx[q]
    BY <1>2, RowAssumption DEF Writers
  <2> QED BY <1>0, <1>2, <2>1 DEF SavesCount
<1>3. CASE Row!ResetReads
  <2> DEFINE m == Row!MaybeReset(subscription)
  <2>1. /\ Row!Due(subscription) /\ Row!Open("resetTask", m, TRUE)
        /\ UNCHANGED <<subscription, period, step, amount, since>>
    BY <1>3 DEF Row!ResetReads, Row!Task
  <2>2. m \in RowType /\ m.used = 0
    BY <1>0, <2>1, ResetTyped
  <2> HIDE DEF m
  <2>3. /\ tx' \in [Writers -> TxType]
        /\ tx'["resetTask"] = [read |-> subscription, save |-> m, reset |-> TRUE]
        /\ \A c \in Writers : c # "resetTask" => tx'[c] = tx[c]
    BY <1>0, <2>1, <2>2, Opens
  <2>4. tx'["resetTask"].reset /\ SaveCounts(tx'["resetTask"], 0)
    BY <2>2, <2>3, RowAssumption DEF SaveCounts
  <2> QED BY <1>0, <1>2, <2>1, <2>3, <2>4 DEF RowInv, RowTypeOK, RowCounts
<1>4. CASE Row!ResetSaves
  <2>1. tx["resetTask"] # Row!NoTx /\ UNCHANGED <<period, step, amount>>
    BY <1>4 DEF Row!ResetSaves, Row!Task
  <2>2. tx' = [tx EXCEPT !["resetTask"] = Row!NoTx]
    BY <1>4 DEF Row!ResetSaves, Row!Task, Row!Commit
  <2>3. /\ tx' \in [Writers -> TxType] /\ tx'["resetTask"] = Row!NoTx
        /\ \A c \in Writers : c # "resetTask" => tx'[c] = tx[c]
    BY <1>0, <2>2, Closes
  <2>4. SavesCount'
    BY <1>2, <2>1, <2>3
  <2>5. subscription' \in RowType /\ since' \in [Payers -> Int] /\ RowCounts'
    <3>1. CASE Row!Commit("resetTask", 0)
      <4>1. SaveCounts(tx["resetTask"], 0)
        BY <1>0, <2>1 DEF SavesCount
      <4> QED BY <1>0, <3>1, <4>1, Commits
    <3>2. CASE UNCHANGED <<subscription, since>>
      BY <1>0, <3>2 DEF RowTypeOK, RowCounts
    <3> QED BY <1>4, <3>1, <3>2 DEF Row!ResetSaves, Row!Task
  <2>6. RowTypeOK'
    BY <1>0, <2>1, <2>3, <2>5 DEF RowTypeOK
  <2> QED BY <2>4, <2>5, <2>6 DEF RowInv
<1> QED BY <1>1, <1>3, <1>4

LEMMA RowKeeps ==
    ASSUME RowInv, [Row!Next]_rowVars
    PROVE  RowInv'
<1>1. CASE UNCHANGED rowVars
  BY <1>1 DEF rowVars, RowInv, RowTypeOK, RowCounts, SavesCount
<1>2. CASE Row!Next
  BY <1>2, PreConsumeReadsKeeps, PostConsumeReadsKeeps, SavesKeep, SaveFailsKeeps,
     TimeAndResetKeep DEF Row!Next
<1> QED BY <1>1, <1>2

(* On a database that fails the save of a stale row, what requests took    *)
(* from a subscription since its last reset is in amount_used, summed over *)
(* all of them, and amount_used stays within amount_total: for any number  *)
(* of requests whose transactions overlap with each other's and with the   *)
(* reset task's (PreConsumeUserSubscription,                               *)
(* PostConsumeUserSubscriptionDelta, ResetDueSubscriptions), although the  *)
(* lock they ask for is not taken and each saves the whole row.            *)
THEOREM TakenStaysCounted == MeteringSpec => []TakenIsCounted
<1>1. MeteringInit => RowInv
  BY RowStarts DEF MeteringInit
<1>2. ASSUME RowInv, [MeteringNext]_<<part, vars, billingVars, rowVars>>
      PROVE  RowInv'
  <2>1. [Row!Next]_rowVars
    BY <1>2 DEF MeteringNext
  <2> QED BY <1>2, <2>1, RowKeeps
<1>3. RowInv => TakenIsCounted
  BY SameSum DEF TakenIsCounted, Row!TakenIsCounted, RowInv, RowCounts
<1> QED BY <1>1, <1>2, <1>3, PTL DEF MeteringSpec
==================================================================================
