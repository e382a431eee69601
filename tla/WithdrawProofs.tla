--------------------------- MODULE WithdrawProofs ---------------------------
(***************************************************************************)
(* Theorems about PiggyWithdraw, for every set of users, orders, records   *)
(* and workers and every amount.                                           *)
(*                                                                         *)
(* A behaviour has some thirty actions, but only a handful of things can   *)
(* happen to the money: an order is made (Hold), given back (Return) or    *)
(* paid out (Pay), its status changes without money (Internal), or the     *)
(* wallet itself is credited, reversed or transferred from.  The lemma     *)
(* StepsClassified shows this once, action by action; the invariants and   *)
(* the refinement are then proved for the handful.                         *)
(***************************************************************************)
EXTENDS PiggyWithdraw, FiniteSetTheorems, TLAPS

USE DEF Manual, Piggy

-----------------------------------------------------------------------------
(* The classes of steps.                                                   *)

OnlyOrder(o, from, to) ==
    /\ \A p \in Orders \ {o} : status'[p] = status[p]
    /\ Phase(o) = from
    /\ Phase(o)' = to
    /\ status' \in OrderStatuses
    /\ UNCHANGED incomeVars

HoldStep(o) == OnlyOrder(o, "none", "held") /\ Freeze(o)

PayStep(o) == OnlyOrder(o, "held", "paid") /\ PayOut(o)

ReturnStep(o) ==
    /\ OnlyOrder(o, "held", "released")
    /\ \E k \in {"reject", "failed", "cancel"} : Release(o, k)

InternalStep ==
    /\ NoMoney
    /\ UNCHANGED incomeVars
    /\ status' \in OrderStatuses
    /\ \A o \in Orders : /\ Phase(o)' = Phase(o)
                         /\ Phase(o) # "held" => status'[o] = status[o]

LedgerStep ==
    \/ \E o \in Orders : HoldStep(o) \/ PayStep(o) \/ ReturnStep(o)
    \/ InternalStep
    \/ WalletNext

(* The phase an order is in when its status is known, before and after.    *)
LEMMA PhaseOfStatus ==
    ASSUME NEW o \in Orders
    PROVE  /\ status[o] = "none" <=> Phase(o) = "none"
           /\ status[o] = "paid" <=> Phase(o) = "paid"
           /\ status[o] \in {"rejected", "cancelled"} => Phase(o) = "released"
           /\ status[o] = "failed" => Phase(o) = IF o \in Piggy THEN "released" ELSE "held"
           /\ status[o] \notin {"none", "paid", "rejected", "cancelled", "failed"}
                 => Phase(o) = "held"
           /\ Phase(o) \in {"none", "held", "paid", "released"}
           /\ status'[o] = "none" <=> Phase(o)' = "none"
           /\ status'[o] = "paid" <=> Phase(o)' = "paid"
           /\ status'[o] \in {"rejected", "cancelled"} => Phase(o)' = "released"
           /\ status'[o] = "failed" => Phase(o)' = IF o \in Piggy THEN "released" ELSE "held"
           /\ status'[o] \notin {"none", "paid", "rejected", "cancelled", "failed"}
                 => Phase(o)' = "held"
  BY DEF Phase, Paid, Released

(* Setting the status of one open order to another open status moves no    *)
(* money and touches no other order.                                       *)
LEMMA InternalMove ==
    ASSUME LedgerTypeOK, NEW o \in Orders, NEW s \in Statuses,
           o \in Manual => s \in ManualStatuses,
           SetStatus(o, s), NoMoney, UNCHANGED incomeVars,
           Phase(o) = "held", Phase(o)' = "held"
    PROVE  InternalStep
  BY DEF InternalStep, LedgerTypeOK, OrderStatuses, SetStatus, Phase, Paid, Released

LEMMA InternalStutter ==
    ASSUME LedgerTypeOK, NoMoney, UNCHANGED <<incomeVars, status>>
    PROVE  InternalStep
  BY DEF InternalStep, LedgerTypeOK, Phase, Paid, Released

LEMMA StatusMove ==
    ASSUME LedgerTypeOK, NEW o \in Orders, NEW s \in Statuses,
           o \in Manual => s \in ManualStatuses,
           SetStatus(o, s), UNCHANGED incomeVars
    PROVE  OnlyOrder(o, Phase(o), Phase(o)') /\ status'[o] = s
  BY DEF OnlyOrder, LedgerTypeOK, OrderStatuses, SetStatus

LEMMA Holds ==
    ASSUME LedgerTypeOK, NEW o \in Orders, status[o] = "none",
           NEW s \in Statuses \ {"none", "paid", "rejected", "cancelled", "failed"},
           o \in Manual => s \in ManualStatuses,
           SetStatus(o, s), UNCHANGED incomeVars, Freeze(o)
    PROVE  LedgerStep
<1>1. OnlyOrder(o, Phase(o), Phase(o)') /\ status'[o] = s
  BY StatusMove
<1>2. Phase(o) = "none" /\ Phase(o)' = "held"
  BY <1>1, PhaseOfStatus
<1>3. HoldStep(o)
  BY <1>1, <1>2 DEF HoldStep
<1> QED BY <1>3 DEF LedgerStep

LEMMA Pays ==
    ASSUME LedgerTypeOK, NEW o \in Orders, Phase(o) = "held",
           SetStatus(o, "paid"), UNCHANGED incomeVars, PayOut(o)
    PROVE  LedgerStep
<1>1. OnlyOrder(o, Phase(o), Phase(o)') /\ status'[o] = "paid"
  BY StatusMove DEF Statuses, ManualStatuses
<1>2. Phase(o)' = "paid"
  BY <1>1, PhaseOfStatus
<1>3. PayStep(o)
  BY <1>1, <1>2 DEF PayStep
<1> QED BY <1>3 DEF LedgerStep

LEMMA Returns ==
    ASSUME LedgerTypeOK, NEW o \in Orders, Phase(o) = "held",
           NEW s \in {"rejected", "cancelled", "failed"}, s # "rejected" => o \in Piggy,
           NEW k \in {"reject", "failed", "cancel"},
           SetStatus(o, s), UNCHANGED incomeVars, Release(o, k)
    PROVE  LedgerStep
<1>1. OnlyOrder(o, Phase(o), Phase(o)') /\ status'[o] = s
  BY StatusMove DEF Statuses, ManualStatuses
<1>2. Phase(o)' = "released"
  BY <1>1, PhaseOfStatus
<1>3. ReturnStep(o)
  BY <1>1, <1>2 DEF ReturnStep
<1> QED BY <1>3 DEF LedgerStep

LEMMA Moves ==
    ASSUME LedgerTypeOK, NEW o \in Orders, Phase(o) = "held",
           NEW s \in Statuses \ {"none", "paid", "rejected", "cancelled"},
           s = "failed" => o \notin Piggy, o \in Manual => s \in ManualStatuses,
           SetStatus(o, s), UNCHANGED incomeVars, NoMoney
    PROVE  LedgerStep
<1>1. status'[o] = s
  BY StatusMove
<1>2. Phase(o)' = "held"
  BY <1>1, PhaseOfStatus
<1> QED BY <1>2, InternalMove DEF LedgerStep

LEMMA Stays ==
    ASSUME LedgerTypeOK, NoMoney, UNCHANGED <<incomeVars, status>>
    PROVE  LedgerStep
  BY InternalStutter DEF LedgerStep

-----------------------------------------------------------------------------
(* The manual channel.                                                     *)
LEMMA ManualClassified ==
    ASSUME LedgerTypeOK, ManualNext
    PROVE  LedgerStep
<1> PICK o \in Orders : \/ SubmitWithdrawOrder(o)
                        \/ ApproveWithdrawOrder(o)
                        \/ RejectWithdrawOrder(o)
                        \/ MarkWithdrawOrderPaid(o)
                        \/ MarkWithdrawOrderFailed(o)
  BY DEF ManualNext
<1>0. UNCHANGED incomeVars
  BY DEF ManualNext
<1>a. o \in Manual => status[o] \in ManualStatuses
  BY DEF LedgerTypeOK, OrderStatuses
<1>1. CASE SubmitWithdrawOrder(o)
  BY <1>0, <1>1, Holds DEF SubmitWithdrawOrder, Statuses, ManualStatuses
<1>2. CASE ApproveWithdrawOrder(o)
  BY <1>0, <1>2, PhaseOfStatus, Moves DEF ApproveWithdrawOrder, Statuses, ManualStatuses
<1>3. CASE RejectWithdrawOrder(o)
  <2>1. Phase(o) = "held"
    BY <1>a, <1>3 DEF RejectWithdrawOrder, ManualStatuses, Phase, Paid, Released
  <2> QED BY <1>0, <1>3, <2>1, Returns DEF RejectWithdrawOrder
<1>4. CASE MarkWithdrawOrderPaid(o)
  <2>1. Phase(o) = "held"
    BY <1>4 DEF MarkWithdrawOrderPaid, Phase, Paid, Released
  <2> QED BY <1>0, <1>4, <2>1, Pays DEF MarkWithdrawOrderPaid
<1>5. CASE MarkWithdrawOrderFailed(o)
  BY <1>0, <1>5, PhaseOfStatus, Moves DEF MarkWithdrawOrderFailed, Statuses, ManualStatuses
<1> QED BY <1>1, <1>2, <1>3, <1>4, <1>5

-----------------------------------------------------------------------------
(* What a step may do to the workers: it keeps their type, and a worker    *)
(* stays with its order, lets go of it, or is given order o.               *)

WorkersOK == wk \in [Workers -> Worker]

WorkerEffect(o) ==
    /\ wk' \in [Workers -> Worker]
    /\ \A v \in Workers : wk'[v].o \in {wk[v].o, NoOrder, o}

(* The worker helpers have no other effect.                                *)
LEMMA IdleIsWorker == Idle \in Worker /\ Idle.o = NoOrder
  BY DEF Idle, Worker, PCs, Contexts, Contents, Replies, Results

LEMMA WorkerSet ==
    ASSUME WorkersOK, NEW w \in Workers, NEW o \in Orders, NEW x \in Worker,
           x.o \in {wk[w].o, NoOrder, o},
           wk' = [wk EXCEPT ![w] = x]
    PROVE  WorkerEffect(o)
  BY DEF WorkersOK, WorkerEffect

LEMMA WorkerKept ==
    ASSUME WorkersOK, NEW o \in Orders, UNCHANGED wk
    PROVE  WorkerEffect(o)
  BY DEF WorkersOK, WorkerEffect

LEMMA WorkerDone ==
    ASSUME WorkersOK, NEW w \in Workers, NEW o \in Orders, Done(w)
    PROVE  WorkerEffect(o)
  BY IdleIsWorker, WorkerSet DEF Done

LEMMA WorkerStart ==
    ASSUME WorkersOK, NEW w \in Workers, NEW o \in Orders,
           NEW pc \in PCs, NEW ctx \in Contexts, Start(w, o, pc, ctx)
    PROVE  WorkerEffect(o)
<1> DEFINE x == [Idle EXCEPT !.pc = pc, !.o = o, !.ctx = ctx]
<1>1. x \in Worker /\ x.o = o
  BY IdleIsWorker DEF Worker
<1>2. wk' = [wk EXCEPT ![w] = x]
  BY DEF Start
<1> QED BY <1>1, <1>2, WorkerSet

LEMMA WorkerGoto ==
    ASSUME WorkersOK, NEW w \in Workers, NEW o \in Orders, NEW pc \in PCs,
           Goto(w, pc)
    PROVE  WorkerEffect(o)
<1> DEFINE x == [wk[w] EXCEPT !.pc = pc]
<1>1. x \in Worker /\ x.o = wk[w].o
  BY DEF Worker, WorkersOK
<1>2. wk' = [wk EXCEPT ![w] = x]
  BY DEF Goto
<1> QED BY <1>1, <1>2, WorkerSet

LEMMA WorkerGotoWith ==
    ASSUME WorkersOK, NEW w \in Workers, NEW o \in Orders, NEW pc \in PCs,
           NEW r \in Replies \cup Results, GotoWith(w, pc, r)
    PROVE  WorkerEffect(o)
<1> DEFINE x == [wk[w] EXCEPT !.pc = pc, !.resp = r]
<1>1. x \in Worker /\ x.o = wk[w].o
  BY DEF Worker, WorkersOK
<1>2. wk' = [wk EXCEPT ![w] = x]
  BY DEF GotoWith, WorkersOK
<1> QED BY <1>1, <1>2, WorkerSet

LEMMA WorkerProcessed ==
    ASSUME WorkersOK, NEW w \in Workers, NEW o \in Orders,
           NEW r \in Replies \cup Results, Processed(w, r)
    PROVE  WorkerEffect(o)
<1> DEFINE m == IF wk[w].ctx = "callback" THEN wk[w].msg ELSE "none"
           x == [wk[w] EXCEPT !.pc = "after", !.resp = r, !.pretax = "ok", !.msg = m]
<1>1. wk[w] \in Worker /\ m \in Contents /\ "after" \in PCs
  BY DEF Worker, WorkersOK, Contents, PCs
<1>2. x \in Worker /\ x.o = wk[w].o
  BY <1>1 DEF Worker
<1>3. wk' = [wk EXCEPT ![w] = x]
  BY DEF Processed, WorkersOK
<1> QED BY <1>2, <1>3, WorkerSet

-----------------------------------------------------------------------------
(* The piggy channel: every database step is one of the classes, whatever  *)
(* the worker that takes it remembers from earlier.                        *)

CompStatuses == {"", "pending", "submit_recovering", "manual_processed"}

RowsOK ==
    /\ comp \in [Orders -> CompStatuses]
    /\ ext \subseteq Orders
    /\ fresh \subseteq Orders
    /\ log \subseteq Orders \X Contents

(* A worker is only ever busy with an order that exists.                   *)
BusyOnOrder == \A v \in Workers, p \in Piggy : wk[v].o = p => status[p] # "none"

DbEffect(o) == LedgerStep /\ WorkerEffect(o) /\ RowsOK' /\ status'[o] # "none"

Ready(o) ==
    /\ LedgerTypeOK /\ WorkersOK /\ RowsOK /\ BusyOnOrder
    /\ o \in Piggy
    /\ UNCHANGED incomeVars

(* The three ways a step moves a piggy order without moving money.         *)
LEMMA ReviewIfActive ==
    ASSUME NEW o \in Piggy, Ready(o), status[o] # "none",
           NEW from \in SUBSET {"approved", "submitted", "await_confirm",
                                "confirming", "cancelling", "manual_review"},
           markPiggyOrderManualReviewIfActive(o, from), UNCHANGED log
    PROVE  LedgerStep /\ RowsOK' /\ status'[o] # "none"
<1> USE DEF Ready
<1>1. CASE SetStatus(o, "manual_review") /\ SetComp(o, "pending") /\ Touch(o)
           /\ UNCHANGED ext /\ status[o] \in from
  <2>1. Phase(o) = "held"
    BY <1>1, PhaseOfStatus
  <2>2. LedgerStep
    BY <1>1, <2>1, Moves DEF markPiggyOrderManualReviewIfActive, Statuses
  <2>3. RowsOK'
    BY <1>1 DEF RowsOK, SetComp, Touch, CompStatuses
  <2>4. status'[o] # "none"
    BY <1>1 DEF SetStatus, LedgerTypeOK, OrderStatuses
  <2> QED BY <2>2, <2>3, <2>4
<1>2. CASE UNCHANGED <<status, rowVars>>
  BY <1>2, Stays DEF markPiggyOrderManualReviewIfActive, RowsOK, rowVars
<1> QED BY <1>1, <1>2 DEF markPiggyOrderManualReviewIfActive

LEMMA SubmitRecoverable ==
    ASSUME NEW o \in Piggy, Ready(o), status[o] # "none",
           markPiggyOrderSubmitRecoverable(o), UNCHANGED log
    PROVE  LedgerStep /\ RowsOK' /\ status'[o] # "none"
<1> USE DEF Ready
<1>1. UNCHANGED status /\ NoMoney
  BY DEF markPiggyOrderSubmitRecoverable
<1>2. RowsOK'
  BY DEF markPiggyOrderSubmitRecoverable, RowsOK, SetComp, Touch, rowVars, CompStatuses
<1> QED BY <1>1, <1>2, Stays

LEMMA MarkersRows ==
    ASSUME NEW o \in Orders, RowsOK, addPiggyApprovedSubmissionMarkers(o), UNCHANGED log
    PROVE  RowsOK'
  BY DEF addPiggyApprovedSubmissionMarkers, RowsOK, Touch, CompStatuses

LEMMA ReviewFromCallback ==
    ASSUME NEW o \in Piggy, Ready(o), Phase(o) = "held",
           markPiggyOrderManualReviewFromCallbackTx(o), UNCHANGED log
    PROVE  LedgerStep /\ RowsOK' /\ status'[o] # "none"
<1> USE DEF Ready
<1>1. LedgerStep
  BY Moves DEF markPiggyOrderManualReviewFromCallbackTx, Statuses
<1>2. RowsOK'
  BY MarkersRows DEF markPiggyOrderManualReviewFromCallbackTx
<1>3. status'[o] # "none"
  BY DEF markPiggyOrderManualReviewFromCallbackTx, SetStatus, LedgerTypeOK, OrderStatuses
<1> QED BY <1>1, <1>2, <1>3

(* A piggy order is held exactly when it exists and is not terminal.       *)
LEMMA PiggyHeld ==
    ASSUME NEW o \in Piggy
    PROVE  Phase(o) = "held" <=> status[o] \notin Terminal \cup {"none"}
  BY DEF Phase, Paid, Released, Terminal

LEMMA NowStatus ==
    ASSUME NEW o \in Orders, LedgerTypeOK, NEW s \in Statuses \ {"none"}, SetStatus(o, s)
    PROVE  status'[o] # "none"
  BY DEF SetStatus, LedgerTypeOK, OrderStatuses

LEMMA OrderStepClassified ==
    ASSUME NEW o \in Piggy, Ready(o), OrderStep(o)
    PROVE  DbEffect(o)
<1> USE DEF Ready, DbEffect
<1>1. CASE SubmitPiggyWithdrawOrder(o)
  <2>1. LedgerStep
    BY <1>1, Holds DEF SubmitPiggyWithdrawOrder, Statuses
  <2>2. WorkerEffect(o) /\ RowsOK' /\ status'[o] # "none"
    BY <1>1, WorkerKept, NowStatus DEF SubmitPiggyWithdrawOrder, RowsOK, Touch, Statuses
  <2> QED BY <2>1, <2>2
<1>2. CASE rejectPiggyWithdrawOrder(o)
  <2>1. LedgerStep
    BY <1>2, PiggyHeld, Returns DEF rejectPiggyWithdrawOrder, Terminal
  <2>2. WorkerEffect(o) /\ RowsOK' /\ status'[o] # "none"
    BY <1>2, WorkerKept, NowStatus DEF rejectPiggyWithdrawOrder, RowsOK, Touch, Statuses
  <2> QED BY <2>1, <2>2
<1>3. CASE recordPiggyManualReviewNote(o)
  <2>1. LedgerStep
    BY <1>3, Stays DEF recordPiggyManualReviewNote
  <2>2. WorkerEffect(o) /\ RowsOK' /\ status'[o] # "none"
    BY <1>3, WorkerKept
       DEF recordPiggyManualReviewNote, RowsOK, Touch, SetComp, CompStatuses
  <2> QED BY <2>1, <2>2
<1>4. CASE markPiggyManualResultPaid(o)
  <2>1. LedgerStep
    BY <1>4, PiggyHeld, Pays DEF markPiggyManualResultPaid, Terminal
  <2>2. WorkerEffect(o) /\ RowsOK' /\ status'[o] # "none"
    BY <1>4, WorkerKept, NowStatus
       DEF markPiggyManualResultPaid, RowsOK, Touch, SetComp, CompStatuses, Statuses
  <2> QED BY <2>1, <2>2
<1>5. CASE failPiggyManualResultAndRelease(o)
  <2>1. LedgerStep
    BY <1>5, PiggyHeld, Returns DEF failPiggyManualResultAndRelease, Terminal
  <2>2. WorkerEffect(o) /\ RowsOK' /\ status'[o] # "none"
    BY <1>5, WorkerKept, NowStatus
       DEF failPiggyManualResultAndRelease, RowsOK, Touch, SetComp, CompStatuses, Statuses
  <2> QED BY <2>1, <2>2
<1> QED BY <1>1, <1>2, <1>3, <1>4, <1>5 DEF OrderStep

LEMMA StartStepClassified ==
    ASSUME NEW w \in Workers, NEW o \in Piggy, Ready(o), StartStep(w, o)
    PROVE  DbEffect(o)
<1> USE DEF Ready, DbEffect
<1>0. ASSUME UNCHANGED <<status, rowVars, log>>, NoMoney, status[o] # "none"
      PROVE  LedgerStep /\ RowsOK' /\ status'[o] # "none"
  BY <1>0, Stays DEF RowsOK, rowVars
<1>1. CASE approvePiggyWithdrawOrder(w, o)
  <2>1. LedgerStep
    BY <1>1, PiggyHeld, Moves DEF approvePiggyWithdrawOrder, Terminal, Statuses
  <2>2. WorkerEffect(o)
    BY <1>1, WorkerStart DEF approvePiggyWithdrawOrder, PCs, Contexts
  <2>3. RowsOK' /\ status'[o] # "none"
    BY <1>1, NowStatus DEF approvePiggyWithdrawOrder, RowsOK, Touch, Statuses
  <2> QED BY <2>1, <2>2, <2>3
<1>2. CASE HandlePiggyPaymentCallback(w, o)
  <2>1. PICK c \in Notices(o), p \in Pretax :
           wk' = [wk EXCEPT ![w] = [Idle EXCEPT !.pc = "apply", !.o = o,
                                   !.ctx = "callback", !.msg = c, !.pretax = p]]
    BY <1>2 DEF HandlePiggyPaymentCallback
  <2> DEFINE x == [Idle EXCEPT !.pc = "apply", !.o = o, !.ctx = "callback",
                               !.msg = c, !.pretax = p]
  <2>2. c \in Contents /\ p \in {"ok", "bad"}
    BY PiggyConstants DEF Notices, Contents
  <2>3. x \in Worker /\ x.o = o
    BY <2>2, IdleIsWorker DEF Worker, PCs, Contexts
  <2>4. WorkerEffect(o)
    BY <2>1, <2>3, WorkerSet
  <2> QED BY <1>0, <1>2, <2>4 DEF HandlePiggyPaymentCallback
<1>3. CASE AdminRetryPiggyConfirm(w, o)
  <2>1. WorkerEffect(o)
    BY <1>3, WorkerStart DEF AdminRetryPiggyConfirm, PCs, Contexts
  <2> QED BY <1>0, <1>3, <2>1 DEF AdminRetryPiggyConfirm
<1>4. CASE AdminRecoverPiggyApprovedSubmission(w, o)
  <2>1. WorkerEffect(o)
    BY <1>4, WorkerStart DEF AdminRecoverPiggyApprovedSubmission, PCs, Contexts
  <2>2. LedgerStep
    BY <1>4, Stays DEF AdminRecoverPiggyApprovedSubmission
  <2>3. RowsOK' /\ status'[o] # "none"
    BY <1>4 DEF AdminRecoverPiggyApprovedSubmission, RowsOK, Touch, SetComp, CompStatuses
  <2> QED BY <2>1, <2>2, <2>3
<1>5. CASE ScanPiggyWithdrawCompensations(w, o)
  <2>1. WorkerEffect(o)
    BY <1>5, WorkerStart DEF ScanPiggyWithdrawCompensations, PCs, Contexts
  <2>2. status[o] # "none"
    BY <1>5 DEF ScanPiggyWithdrawCompensations, ScanQueries
  <2> QED BY <1>0, <1>5, <2>1, <2>2 DEF ScanPiggyWithdrawCompensations
<1>6. CASE claimPiggyOrderForCancel(w, o)
  <2>1. LedgerStep
    BY <1>6, PiggyHeld, Moves DEF claimPiggyOrderForCancel, Terminal, Statuses
  <2>2. WorkerEffect(o)
    BY <1>6, WorkerStart DEF claimPiggyOrderForCancel, PCs, Contexts
  <2>3. RowsOK' /\ status'[o] # "none"
    BY <1>6, NowStatus DEF claimPiggyOrderForCancel, RowsOK, Touch, Statuses
  <2> QED BY <2>1, <2>2, <2>3
<1> QED BY <1>1, <1>2, <1>3, <1>4, <1>5, <1>6 DEF StartStep

LEMMA ContentStepClassified ==
    ASSUME NEW w \in Workers, NEW o \in Piggy, Ready(o), ContentStep(w, o)
    PROVE  DbEffect(o)
<1> USE DEF Ready, DbEffect
<1>a. status[o] # "none"
  BY DEF BusyOnOrder, ContentStep, At, markPiggyOrderAwaitConfirm, markPiggyOrderPaid,
         failPiggyOrderAndRelease, unknownContent, queryFailed, queryUndecided
<1>b. ASSUME UNCHANGED <<status, rowVars, log>>, NoMoney
      PROVE  LedgerStep /\ RowsOK' /\ status'[o] # "none"
  BY <1>a, <1>b, Stays DEF RowsOK, rowVars
<1>c. ASSUME NEW r \in {"proved", "unproved", "err", "notfound"}, Processed(w, r)
      PROVE  WorkerEffect(o)
  BY <1>c, WorkerProcessed DEF Replies, Results
<1>1. CASE markPiggyOrderAwaitConfirm(w, o)
  <2> NoMoney /\ UNCHANGED log
    BY <1>1 DEF markPiggyOrderAwaitConfirm
  <2>1. CASE UNCHANGED <<status, rowVars>> /\ Processed(w, "proved")
    BY <2>1, <1>b, <1>c
  <2>2. CASE /\ status[o] \notin Terminal
             /\ markPiggyOrderManualReviewFromCallbackTx(o)
             /\ Processed(w, "proved")
    BY <2>2, <1>a, <1>c, PiggyHeld, ReviewFromCallback
  <2>3. CASE /\ status[o] \notin Terminal
             /\ SetStatus(o, "await_confirm")
             /\ addPiggyApprovedSubmissionMarkers(o)
             /\ Goto(w, "claim")
    <3>1. LedgerStep
      BY <2>3, <1>a, PiggyHeld, Moves DEF Statuses
    <3>2. WorkerEffect(o)
      BY <2>3, WorkerGoto DEF PCs
    <3>3. RowsOK' /\ status'[o] # "none"
      BY <2>3, MarkersRows, NowStatus DEF Statuses
    <3> QED BY <3>1, <3>2, <3>3
  <2> QED BY <1>1, <2>1, <2>2, <2>3 DEF markPiggyOrderAwaitConfirm, Terminal
<1>2. CASE markPiggyOrderPaid(w, o)
  <2> UNCHANGED log
    BY <1>2 DEF markPiggyOrderPaid
  <2>1. CASE /\ NoMoney /\ UNCHANGED <<status, rowVars>>
             /\ Processed(w, "proved") \/ Processed(w, "err")
    BY <2>1, <1>b, <1>c
  <2>2. CASE /\ status[o] \notin Terminal
             /\ markPiggyOrderManualReviewFromCallbackTx(o)
             /\ Processed(w, "proved")
    BY <2>2, <1>a, <1>c, PiggyHeld, ReviewFromCallback
  <2>3. CASE /\ status[o] \notin Terminal
             /\ PayOut(o)
             /\ SetStatus(o, "paid")
             /\ addPiggyApprovedSubmissionMarkers(o)
             /\ Processed(w, "proved")
    <3>1. LedgerStep
      BY <2>3, <1>a, PiggyHeld, Pays
    <3>2. WorkerEffect(o)
      BY <2>3, <1>c
    <3>3. RowsOK' /\ status'[o] # "none"
      BY <2>3, MarkersRows, NowStatus DEF Statuses
    <3> QED BY <3>1, <3>2, <3>3
  <2> QED BY <1>2, <2>1, <2>2, <2>3 DEF markPiggyOrderPaid
<1>3. CASE failPiggyOrderAndRelease(w, o)
  <2> UNCHANGED log /\ WorkerEffect(o)
    BY <1>3, <1>c DEF failPiggyOrderAndRelease
  <2>1. CASE NoMoney /\ UNCHANGED <<status, rowVars>>
    BY <2>1, <1>b
  <2>2. CASE status[o] \notin Terminal /\ markPiggyOrderManualReviewFromCallbackTx(o)
    BY <2>2, <1>a, PiggyHeld, ReviewFromCallback
  <2>3. CASE /\ status[o] \notin Terminal
             /\ Release(o, "failed")
             /\ SetStatus(o, "failed")
             /\ addPiggyApprovedSubmissionMarkers(o)
    <3>1. LedgerStep
      BY <2>3, <1>a, PiggyHeld, Returns
    <3>2. RowsOK' /\ status'[o] # "none"
      BY <2>3, MarkersRows, NowStatus DEF Statuses
    <3> QED BY <3>1, <3>2
  <2> QED BY <1>3, <2>1, <2>2, <2>3 DEF failPiggyOrderAndRelease, Terminal
<1>4. CASE unknownContent(w, o)
  <2>1. WorkerEffect(o)
    BY <1>4, <1>c DEF unknownContent
  <2> QED BY <1>4, <1>a, <2>1, ReviewIfActive DEF unknownContent, ReviewableByDefault
<1>5. CASE queryFailed(w, o)
  <2>1. WorkerEffect(o)
    BY <1>5, <1>c DEF queryFailed
  <2> QED BY <1>5, <1>a, <2>1, ReviewIfActive DEF queryFailed, ReviewableByDefault
<1>6. CASE queryUndecided(w, o)
  <2>1. WorkerEffect(o)
    BY <1>6, <1>c DEF queryUndecided
  <2> QED BY <1>6, <1>b, <2>1 DEF queryUndecided
<1> QED BY <1>1, <1>2, <1>3, <1>4, <1>5, <1>6 DEF ContentStep

LEMMA OutcomeStepClassified ==
    ASSUME NEW w \in Workers, NEW o \in Piggy, Ready(o), OutcomeStep(w, o)
    PROVE  DbEffect(o)
<1> USE DEF Ready, DbEffect
<1>a. status[o] # "none" /\ wk[w] \in Worker
  BY DEF BusyOnOrder, WorkersOK, OutcomeStep, At, After, submitAccepted,
         failPiggySubmittedOrderAndRelease, submitUnknown, submitDuplicate,
         claimPiggyOrderForConfirm, confirmPiggyOrder, cancelPiggyOrderAndRelease,
         finishPiggyCallbackLog, scanFinished, markExpiredPiggyCancellingManualReview,
         duplicateUnresolved, recoverResubmit, recoverUndecided
<1>b. ASSUME UNCHANGED <<status, rowVars, log>>, NoMoney
      PROVE  LedgerStep /\ RowsOK' /\ status'[o] # "none"
  BY <1>a, <1>b, Stays DEF RowsOK, rowVars
<1>c. ASSUME NEW r \in {"proved", "unproved", "err", "notfound"}, Processed(w, r)
      PROVE  WorkerEffect(o)
  BY <1>c, WorkerProcessed DEF Replies, Results
<1>1. CASE submitAccepted(w, o)
  <2> WorkerEffect(o) /\ NoMoney /\ UNCHANGED log
    BY <1>1, WorkerDone DEF submitAccepted
  <2>1. CASE UNCHANGED <<status, rowVars>>
    BY <2>1, <1>b
  <2>2. CASE /\ status[o] = "approved" /\ SetStatus(o, "submitted") /\ SetComp(o, "")
             /\ ext' = ext \cup {o} /\ Touch(o)
    <3>1. LedgerStep
      BY <2>2, PiggyHeld, Moves DEF Terminal, Statuses
    <3>2. RowsOK' /\ status'[o] # "none"
      BY <2>2, NowStatus DEF RowsOK, SetComp, Touch, CompStatuses, Statuses
    <3> QED BY <3>1, <3>2
  <2> QED BY <1>1, <2>1, <2>2 DEF submitAccepted
<1>2. CASE failPiggySubmittedOrderAndRelease(w, o)
  <2> WorkerEffect(o) /\ UNCHANGED log
    BY <1>2, WorkerDone DEF failPiggySubmittedOrderAndRelease
  <2>1. CASE NoMoney /\ UNCHANGED <<status, rowVars>>
    BY <2>1, <1>b
  <2>2. CASE /\ status[o] = "approved" /\ Release(o, "failed") /\ SetStatus(o, "failed")
             /\ SetComp(o, "") /\ Touch(o) /\ UNCHANGED ext
    <3>1. LedgerStep
      BY <2>2, PiggyHeld, Returns DEF Terminal
    <3>2. RowsOK' /\ status'[o] # "none"
      BY <2>2, NowStatus DEF RowsOK, SetComp, Touch, CompStatuses, Statuses
    <3> QED BY <3>1, <3>2
  <2> QED BY <1>2, <2>1, <2>2 DEF failPiggySubmittedOrderAndRelease
<1>3. CASE submitUnknown(w, o)
  BY <1>3, <1>a, WorkerDone, SubmitRecoverable DEF submitUnknown
<1>4. CASE submitDuplicate(w, o)
  <2> DEFINE x == [wk[w] EXCEPT !.pc = "query", !.ctx = "dup"]
  <2>1. x \in Worker /\ x.o = wk[w].o
    BY <1>a DEF Worker, PCs, Contexts
  <2>2. wk' = [wk EXCEPT ![w] = x]
    BY <1>4 DEF submitDuplicate, WorkersOK
  <2>3. WorkerEffect(o)
    BY <2>1, <2>2, WorkerSet
  <2> QED BY <1>4, <1>b, <2>3 DEF submitDuplicate
<1>5. CASE claimPiggyOrderForConfirm(w, o)
  <2> NoMoney /\ UNCHANGED log
    BY <1>5 DEF claimPiggyOrderForConfirm
  <2>1. CASE UNCHANGED <<status, rowVars>> /\ \E r \in {"err", "proved"} : Processed(w, r)
    BY <2>1, <1>b, <1>c
  <2>2. CASE /\ status[o] = "await_confirm" /\ SetStatus(o, "confirming") /\ Touch(o)
             /\ Goto(w, "confirm") /\ UNCHANGED <<comp, ext>>
    <3>1. LedgerStep
      BY <2>2, PiggyHeld, Moves DEF Terminal, Statuses
    <3>2. RowsOK' /\ status'[o] # "none"
      BY <2>2, NowStatus DEF RowsOK, Touch, Statuses
    <3>3. WorkerEffect(o)
      BY <2>2, WorkerGoto DEF PCs
    <3> QED BY <3>1, <3>2, <3>3
  <2> QED BY <1>5, <2>1, <2>2 DEF claimPiggyOrderForConfirm
<1>6. CASE confirmPiggyOrder(w, o)
  <2> WorkerEffect(o) /\ UNCHANGED log
    BY <1>6, <1>c DEF confirmPiggyOrder
  <2>1. CASE NoMoney /\ UNCHANGED <<status, rowVars>>
    BY <2>1, <1>b
  <2>2. CASE /\ status[o] = "confirming" /\ SetStatus(o, "confirmed") /\ Touch(o)
             /\ UNCHANGED <<comp, ext>> /\ NoMoney
    <3>1. LedgerStep
      BY <2>2, PiggyHeld, Moves DEF Terminal, Statuses
    <3>2. RowsOK' /\ status'[o] # "none"
      BY <2>2, NowStatus DEF RowsOK, Touch, Statuses
    <3> QED BY <3>1, <3>2
  <2>3. CASE markPiggyOrderManualReviewIfActive(o, {"confirming"})
    BY <2>3, <1>a, ReviewIfActive
  <2> QED BY <1>6, <2>1, <2>2, <2>3 DEF confirmPiggyOrder
<1>7. CASE cancelPiggyOrderAndRelease(w, o)
  <2> WorkerEffect(o) /\ UNCHANGED log
    BY <1>7, WorkerDone DEF cancelPiggyOrderAndRelease
  <2>1. CASE NoMoney /\ UNCHANGED <<status, rowVars>>
    BY <2>1, <1>b
  <2>2. CASE /\ status[o] = "cancelling" /\ Release(o, "cancel")
             /\ SetStatus(o, "cancelled") /\ Touch(o) /\ UNCHANGED <<comp, ext>>
    <3>1. LedgerStep
      BY <2>2, PiggyHeld, Returns DEF Terminal
    <3>2. RowsOK' /\ status'[o] # "none"
      BY <2>2, NowStatus DEF RowsOK, Touch, Statuses
    <3> QED BY <3>1, <3>2
  <2>3. CASE markPiggyOrderManualReviewIfActive(o, {"cancelling"})
    BY <2>3, <1>a, ReviewIfActive
  <2> QED BY <1>7, <2>1, <2>2, <2>3 DEF cancelPiggyOrderAndRelease
<1>8. CASE finishPiggyCallbackLog(w, o)
  <2>1. WorkerEffect(o) /\ NoMoney /\ UNCHANGED <<status, rowVars>>
    BY <1>8, WorkerDone DEF finishPiggyCallbackLog
  <2>2. LedgerStep /\ status'[o] # "none"
    BY <2>1, <1>a, Stays
  <2>3. wk[w].msg \in Contents
    BY <1>a DEF Worker
  <2>4. RowsOK'
    BY <1>8, <2>1, <2>3 DEF finishPiggyCallbackLog, RowsOK, rowVars
  <2> QED BY <2>1, <2>2, <2>4
<1>9. CASE scanFinished(w, o)
  BY <1>9, <1>b, WorkerDone DEF scanFinished
<1>10. CASE markExpiredPiggyCancellingManualReview(w, o)
  <2> WorkerEffect(o) /\ UNCHANGED log
    BY <1>10, WorkerDone DEF markExpiredPiggyCancellingManualReview
  <2>1. CASE NoMoney /\ UNCHANGED <<status, rowVars>>
    BY <2>1, <1>b
  <2>2. CASE markPiggyOrderManualReviewIfActive(o, {"cancelling"})
    BY <2>2, <1>a, ReviewIfActive
  <2> QED BY <1>10, <2>1, <2>2 DEF markExpiredPiggyCancellingManualReview
<1>11. CASE duplicateUnresolved(w, o)
  BY <1>11, <1>a, WorkerDone, ReviewIfActive DEF duplicateUnresolved
<1>12. CASE recoverResubmit(w, o)
  <2> DEFINE x == [Idle EXCEPT !.pc = "submit", !.o = o, !.ctx = "approve"]
  <2>1. x \in Worker /\ x.o = o
    BY IdleIsWorker DEF Worker, PCs, Contexts
  <2>2. WorkerEffect(o)
    BY <1>12, <2>1, WorkerSet, WorkerDone DEF recoverResubmit
  <2> QED BY <1>12, <1>b, <2>2 DEF recoverResubmit
<1>13. CASE recoverUndecided(w, o)
  <2> WorkerEffect(o) /\ UNCHANGED log
    BY <1>13, WorkerDone DEF recoverUndecided
  <2>1. CASE markPiggyOrderSubmitRecoverable(o)
    BY <2>1, <1>a, SubmitRecoverable
  <2>2. CASE markPiggyOrderManualReviewIfActive(o, {"approved"})
    BY <2>2, <1>a, ReviewIfActive
  <2> QED BY <1>13, <2>1, <2>2 DEF recoverUndecided
<1> QED BY <1>1, <1>2, <1>3, <1>4, <1>5, <1>6, <1>7, <1>8, <1>9, <1>10, <1>11,
           <1>12, <1>13 DEF OutcomeStep

-----------------------------------------------------------------------------
(* The HTTP calls and the environment leave the ledger alone.              *)

RemoteOK ==
    /\ remote \in [Orders -> RemoteStates]
    /\ late \subseteq {"submit", "confirm", "cancel"} \X Orders
    /\ faults \in 0 .. MaxFaults

LEMMA OutcomesTyped ==
    ASSUME NEW op \in {"submit", "confirm", "cancel"}, NEW r \in RemoteStates,
           NEW out \in Outcomes(op, r)
    PROVE  out[1] \in Replies /\ out[2] \in RemoteStates
<1>1. CASE op = "submit"
  BY <1>1 DEF Outcomes, SubmitOutcomes, Replies, RemoteStates
<1>2. CASE op = "confirm"
  BY <1>2 DEF Outcomes, ConfirmOutcomes, Replies, RemoteStates
<1>3. CASE op = "cancel"
  BY <1>3 DEF Outcomes, CancelOutcomes, Replies, RemoteStates
<1> QED BY <1>1, <1>2, <1>3

LEMMA CallTyped ==
    ASSUME NEW w \in Workers, NEW o \in Orders, WorkersOK, RemoteOK,
           NEW op \in {"submit", "confirm", "cancel"}, NEW next \in PCs,
           Call(w, o, op, next)
    PROVE  WorkerEffect(o) /\ RemoteOK'
<1>1. CASE \E out \in Outcomes(op, remote[o]) :
              /\ remote' = [remote EXCEPT ![o] = out[2]]
              /\ \/ GotoWith(w, next, out[1]) /\ UNCHANGED faults
                 \/ GotoWith(w, next, "unknown") /\ Fault
              /\ UNCHANGED late
  <2>1. PICK out \in Outcomes(op, remote[o]) :
              /\ remote' = [remote EXCEPT ![o] = out[2]]
              /\ \/ GotoWith(w, next, out[1]) /\ UNCHANGED faults
                 \/ GotoWith(w, next, "unknown") /\ Fault
              /\ UNCHANGED late
    BY <1>1
  <2>2. remote[o] \in RemoteStates
    BY DEF RemoteOK
  <2>3. out[1] \in Replies /\ out[2] \in RemoteStates
    BY <2>2, OutcomesTyped
  <2>4. WorkerEffect(o)
    BY <2>1, <2>3, WorkerGotoWith DEF Replies
  <2>5. faults' \in 0 .. MaxFaults
    BY <2>1, PiggyConstants DEF RemoteOK, Fault
  <2> QED BY <2>1, <2>3, <2>4, <2>5 DEF RemoteOK
<1>2. CASE /\ Fault
           /\ late' = late \cup {<<op, o>>}
           /\ GotoWith(w, next, "unknown")
           /\ UNCHANGED remote
  <2>1. WorkerEffect(o)
    BY <1>2, WorkerGotoWith DEF Replies
  <2>2. faults' \in 0 .. MaxFaults
    BY <1>2, PiggyConstants DEF RemoteOK, Fault
  <2> QED BY <1>2, <2>1, <2>2 DEF RemoteOK
<1> QED BY <1>1, <1>2 DEF Call

LEMMA HttpTyped ==
    ASSUME NEW w \in Workers, NEW o \in Piggy, WorkersOK, RemoteOK, HttpStep(w, o)
    PROVE  WorkerEffect(o) /\ RemoteOK'
<1>1. CASE SingleOrderSubmit(w, o)
  BY <1>1, CallTyped DEF SingleOrderSubmit, PCs
<1>2. CASE SingleOrderConfirmPay(w, o)
  BY <1>2, CallTyped DEF SingleOrderConfirmPay, PCs
<1>3. CASE SingleOrderCancel(w, o)
  BY <1>3, CallTyped DEF SingleOrderCancel, PCs
<1>4. CASE SingleOrderQuery(w, o)
  <2>1. PICK c \in QueryReplies(remote[o]), p \in Pretax :
           wk' = [wk EXCEPT ![w].pc = "apply", ![w].msg = c, ![w].pretax = p]
    BY <1>4 DEF SingleOrderQuery
  <2> DEFINE x == [wk[w] EXCEPT !.pc = "apply", !.msg = c, !.pretax = p]
  <2>2. remote[o] \in RemoteStates
    BY DEF RemoteOK
  <2>3. c \in Contents /\ p \in {"ok", "bad"}
    BY <2>2, PiggyConstants DEF QueryReplies, Contents, RemoteStates
  <2>4. x \in Worker /\ x.o = wk[w].o
    BY <2>3 DEF Worker, PCs, WorkersOK
  <2>5. wk' = [wk EXCEPT ![w] = x]
    BY <2>1 DEF WorkersOK
  <2>6. WorkerEffect(o)
    BY <2>4, <2>5, WorkerSet
  <2> QED BY <1>4, <2>6 DEF SingleOrderQuery, RemoteOK
<1> QED BY <1>1, <1>2, <1>3, <1>4 DEF HttpStep

LEMMA EnvTyped ==
    ASSUME WorkersOK, RemoteOK, RowsOK, EnvStep
    PROVE  /\ RowsOK' /\ RemoteOK' /\ WorkersOK'
           /\ UNCHANGED ledgerVars
           /\ \A v \in Workers : wk'[v].o \in {wk[v].o, NoOrder}
<1>1. ASSUME NEW o \in Piggy, RemoteReject(o) \/ RemoteSettle(o)
      PROVE  UNCHANGED <<ledgerVars, rowVars, log, wk>> /\ RemoteOK'
  BY <1>1 DEF RemoteReject, RemoteSettle, RemoteOK, RemoteStates
<1>2. ASSUME NEW o \in Piggy, LeaseExpires(o)
      PROVE  UNCHANGED <<ledgerVars, comp, ext, log, wk, remoteVars, faults>> /\ RowsOK'
  BY <1>2 DEF LeaseExpires, RowsOK
<1>3. ASSUME NEW o \in Piggy, NEW op \in {"submit", "confirm", "cancel"}, LateArrival(o, op)
      PROVE  UNCHANGED <<ledgerVars, rowVars, log, wk>> /\ RemoteOK'
  <2>1. PICK out \in Outcomes(op, remote[o]) : remote' = [remote EXCEPT ![o] = out[2]]
    BY <1>3 DEF LateArrival
  <2>2. remote[o] \in RemoteStates
    BY DEF RemoteOK
  <2>3. out[2] \in RemoteStates
    BY <2>2, OutcomesTyped
  <2> QED BY <1>3, <2>1, <2>3 DEF LateArrival, RemoteOK
<1>4. ASSUME NEW w \in Workers, Crash(w)
      PROVE  /\ UNCHANGED <<ledgerVars, rowVars, log, remoteVars>>
             /\ RemoteOK' /\ WorkersOK'
             /\ \A v \in Workers : wk'[v].o \in {wk[v].o, NoOrder}
  <2>1. faults' \in 0 .. MaxFaults
    BY <1>4, PiggyConstants DEF Crash, Fault, RemoteOK
  <2>2. wk' = [wk EXCEPT ![w] = Idle]
    BY <1>4 DEF Crash, Done
  <2>3. WorkersOK' /\ \A v \in Workers : wk'[v].o \in {wk[v].o, NoOrder}
    BY <2>2, IdleIsWorker DEF WorkersOK
  <2> QED BY <1>4, <2>1, <2>3 DEF Crash, RemoteOK, remoteVars
<1> QED BY <1>1, <1>2, <1>3, <1>4 DEF EnvStep, WorkersOK, RowsOK, RemoteOK, rowVars, remoteVars

-----------------------------------------------------------------------------
(* The ledger keeps its type, and an order once made exists for ever.      *)
LEMMA TransferTyped ==
    ASSUME BalanceTypeOK, NEW u \in Users, NEW a \in TransferAmounts,
           creditTransferredCommission(u, a)
    PROVE  BalanceTypeOK' /\ a \in Nat
<1>1. a \in Nat /\ UnitsPerQuota \in Nat \ {0}
  BY BalanceConstants
<1>2. BookedBalance(u, LegacyBackfill(u)) + a \in Int
  BY <1>1 DEF BookedBalance, quotaToWalletAmount, Clamp, BalanceTypeOK
<1>3. quota[u] + amountToQuota(a) \in Int
  BY <1>1 DEF amountToQuota, Clamp, BalanceTypeOK
<1>4. (IF LegacyBackfill(u) THEN 0 ELSE dust[u])
         + (IF a % UnitsPerQuota = 0 THEN 0 ELSE 1) \in Nat
  BY DEF BalanceTypeOK
<1> QED BY <1>1, <1>2, <1>3, <1>4
        DEF creditTransferredCommission, BookAudited, Book, BalanceTypeOK

LEMMA WalletTyped ==
    ASSUME LedgerTypeOK, WalletNext
    PROVE  LedgerTypeOK' /\ UNCHANGED <<frozen, withdrawn, flows, status>>
<1> USE LedgerConstants
<1>a. ASSUME UNCHANGED balanceVars
      PROVE  BalanceTypeOK'
  BY <1>a DEF LedgerTypeOK, BalanceTypeOK, balanceVars
<1>1. ASSUME NEW r \in Records, CreditCommission(r)
      PROVE  LedgerTypeOK' /\ UNCHANGED <<frozen, withdrawn, flows, status>>
  BY <1>1, <1>a DEF CreditCommission, LedgerTypeOK
<1>2. ASSUME NEW r \in Records, ReverseCommission(r)
      PROVE  LedgerTypeOK' /\ UNCHANGED <<frozen, withdrawn, flows, status>>
  BY <1>2, <1>a DEF ReverseCommission, LedgerTypeOK
<1>3. ASSUME NEW u \in Users, NEW a \in TransferAmounts, TransferCommissionToBalance(u, a)
      PROVE  LedgerTypeOK' /\ UNCHANGED <<frozen, withdrawn, flows, status>>
  <2>1. BalanceTypeOK' /\ a \in Nat
    BY <1>3, TransferTyped DEF TransferCommissionToBalance, LedgerTypeOK
  <2> QED BY <1>3, <2>1 DEF TransferCommissionToBalance, LedgerTypeOK
<1> QED BY <1>1, <1>2, <1>3 DEF WalletNext

LEMMA LedgerTyped ==
    ASSUME LedgerTypeOK, LedgerStep
    PROVE  LedgerTypeOK'
<1> USE LedgerConstants
<1>a. ASSUME UNCHANGED incomeVars
      PROVE  /\ BalanceTypeOK' /\ earned' \in [Users -> Nat] /\ transferred' \in [Users -> Nat]
             /\ granted' \in [Users -> Nat]
             /\ rec' \in [Records -> {"none", "settled", "reversed"}]
  BY <1>a DEF LedgerTypeOK, BalanceTypeOK, balanceVars, incomeVars
<1>1. ASSUME NEW o \in Orders, HoldStep(o)
      PROVE  LedgerTypeOK'
  <2>1. UNCHANGED incomeVars /\ status' \in OrderStatuses
    BY <1>1 DEF HoldStep, OnlyOrder
  <2>2. /\ commission' \in [Users -> Int] /\ frozen' \in [Users -> Nat]
        /\ withdrawn' \in [Users -> Nat] /\ flows' \subseteq FlowKinds \X Orders
    BY <1>1 DEF HoldStep, Freeze, createWalletFlowTx, Clamp, LedgerTypeOK, FlowKinds
  <2> QED BY <1>a, <2>1, <2>2 DEF LedgerTypeOK
<1>2. ASSUME NEW o \in Orders, PayStep(o)
      PROVE  LedgerTypeOK'
  <2>1. UNCHANGED incomeVars /\ status' \in OrderStatuses
    BY <1>2 DEF PayStep, OnlyOrder
  <2>2. /\ commission' \in [Users -> Int] /\ frozen' \in [Users -> Nat]
        /\ withdrawn' \in [Users -> Nat] /\ flows' \subseteq FlowKinds \X Orders
    BY <1>2 DEF PayStep, PayOut, createWalletFlowTx, Clamp, LedgerTypeOK, FlowKinds
  <2> QED BY <1>a, <2>1, <2>2 DEF LedgerTypeOK
<1>3. ASSUME NEW o \in Orders, ReturnStep(o)
      PROVE  LedgerTypeOK'
  <2>1. UNCHANGED incomeVars /\ status' \in OrderStatuses
    BY <1>3 DEF ReturnStep, OnlyOrder
  <2>2. /\ commission' \in [Users -> Int] /\ frozen' \in [Users -> Nat]
        /\ withdrawn' \in [Users -> Nat] /\ flows' \subseteq FlowKinds \X Orders
    BY <1>3 DEF ReturnStep, Release, createWalletFlowTx, Clamp, LedgerTypeOK, FlowKinds
  <2> QED BY <1>a, <2>1, <2>2 DEF LedgerTypeOK
<1>4. CASE InternalStep
  BY <1>4, <1>a DEF InternalStep, NoMoney, moneyVars, LedgerTypeOK
<1>5. CASE WalletNext
  BY <1>5, WalletTyped
<1> QED BY <1>1, <1>2, <1>3, <1>4, <1>5 DEF LedgerStep

LEMMA OrdersStay ==
    ASSUME LedgerTypeOK, LedgerStep, NEW p \in Orders, status[p] # "none"
    PROVE  status'[p] # "none"
<1>1. ASSUME NEW o \in Orders, NEW from, NEW to \in {"held", "paid", "released"},
             OnlyOrder(o, from, to)
      PROVE  status'[p] # "none"
  BY <1>1, PhaseOfStatus DEF OnlyOrder
<1>2. CASE InternalStep
  BY <1>2, PhaseOfStatus DEF InternalStep
<1>3. CASE WalletNext
  BY <1>3, WalletTyped
<1> QED BY <1>1, <1>2, <1>3 DEF LedgerStep, HoldStep, PayStep, ReturnStep

-----------------------------------------------------------------------------
(* Types, together with the fact that workers are busy only with orders    *)
(* that exist, are inductive, and every step is one of the classes.        *)

SInv == TypeOK /\ BusyOnOrder

LEMMA TypeParts == TypeOK <=> LedgerTypeOK /\ RowsOK /\ WorkersOK /\ RemoteOK
  BY DEF TypeOK, RowsOK, WorkersOK, RemoteOK, CompStatuses

LEMMA InitTyped == Init => SInv
<1> SUFFICES ASSUME Init PROVE SInv
  OBVIOUS
<1>0. LedgerInit /\ faults = 0
  BY DEF Init
<1>1. LedgerTypeOK
  <2>1. status \in OrderStatuses
    BY <1>0 DEF LedgerInit, OrderStatuses, Statuses, ManualStatuses
  <2>2. flows \subseteq FlowKinds \X Orders
    BY <1>0 DEF LedgerInit
  <2>3. rec \in [Records -> {"none", "settled", "reversed"}]
    BY <1>0 DEF LedgerInit
  <2>4. /\ commission \in [Users -> Int] /\ frozen \in [Users -> Nat]
        /\ withdrawn \in [Users -> Nat] /\ earned \in [Users -> Nat]
        /\ transferred \in [Users -> Nat] /\ granted \in [Users -> Nat]
    BY <1>0 DEF LedgerInit
  <2>5. BalanceTypeOK
    BY <1>0, BalanceConstants DEF LedgerInit, BalanceInit, BalanceTypeOK
  <2> QED BY <2>1, <2>2, <2>3, <2>4, <2>5 DEF LedgerTypeOK
<1>2. RowsOK
  BY DEF Init, RowsOK, CompStatuses
<1>3. WorkersOK
  BY IdleIsWorker DEF Init, WorkersOK
<1>4. RemoteOK
  <2>1. remote \in [Orders -> RemoteStates]
    BY DEF Init, RemoteStates
  <2>3. faults \in 0 .. MaxFaults
    BY <1>0, PiggyConstants
  <2>2. late \subseteq {"submit", "confirm", "cancel"} \X Orders
    BY DEF Init
  <2> QED BY <2>1, <2>2, <2>3 DEF RemoteOK
<1>5. BusyOnOrder
  BY IdleIsWorker, PiggyConstants DEF Init, BusyOnOrder
<1> QED BY <1>1, <1>2, <1>3, <1>4, <1>5, TypeParts DEF SInv

LEMMA BusyStays ==
    ASSUME LedgerTypeOK, LedgerStep, WorkersOK, BusyOnOrder, NEW o \in Orders,
           WorkerEffect(o), status'[o] # "none"
    PROVE  WorkersOK' /\ BusyOnOrder'
<1>1. WorkersOK'
  BY DEF WorkerEffect, WorkersOK
<1>2. ASSUME NEW v \in Workers, NEW p \in Piggy, wk'[v].o = p
      PROVE  status'[p] # "none"
  <2>1. p = o \/ wk[v].o = p
    BY <1>2, PiggyConstants DEF WorkerEffect
  <2> QED BY <2>1, OrdersStay DEF BusyOnOrder
<1> QED BY <1>1, <1>2 DEF BusyOnOrder

LEMMA StepsClassified ==
    ASSUME SInv, [Next]_vars
    PROVE  LedgerStep /\ SInv'
<1> LedgerTypeOK /\ RowsOK /\ WorkersOK /\ RemoteOK /\ BusyOnOrder
  BY TypeParts DEF SInv
<1> SUFFICES LedgerStep /\ RowsOK' /\ WorkersOK' /\ RemoteOK' /\ BusyOnOrder'
  BY LedgerTyped, TypeParts DEF SInv, TypeOK, RowsOK, WorkersOK, RemoteOK, CompStatuses
<1>1. CASE DbStep
  <2>1. PICK o \in Piggy :
           \/ OrderStep(o)
           \/ \E w \in Workers : StartStep(w, o) \/ ContentStep(w, o) \/ OutcomeStep(w, o)
    BY <1>1 DEF DbStep
  <2>2. UNCHANGED <<incomeVars, remoteVars, faults>>
    BY <1>1 DEF DbStep
  <2>3. Ready(o)
    BY <2>2 DEF Ready
  <2>4. DbEffect(o)
    BY <2>1, <2>3, OrderStepClassified, StartStepClassified, ContentStepClassified,
       OutcomeStepClassified
  <2>5. RemoteOK'
    BY <2>2 DEF RemoteOK, remoteVars
  <2> QED BY <2>4, <2>5, BusyStays DEF DbEffect
<1>2. ASSUME NEW w \in Workers, NEW o \in Piggy, HttpStep(w, o)
      PROVE  LedgerStep /\ RowsOK' /\ WorkersOK' /\ RemoteOK' /\ BusyOnOrder'
  <2>1. UNCHANGED <<ledgerVars, rowVars, log>>
    BY <1>2 DEF HttpStep
  <2>2. LedgerStep
    BY <2>1, Stays DEF ledgerVars, NoMoney
  <2>3. RowsOK'
    BY <2>1 DEF RowsOK, rowVars
  <2>4. WorkerEffect(o) /\ RemoteOK'
    BY <1>2, HttpTyped
  <2>5. status[o] # "none" /\ status' = status
    BY <1>2, <2>1 DEF HttpStep, SingleOrderSubmit, SingleOrderQuery, SingleOrderConfirmPay,
                SingleOrderCancel, At, BusyOnOrder, ledgerVars
  <2> QED BY <2>2, <2>3, <2>4, <2>5, BusyStays
<1>3. CASE EnvStep
  <2>1. /\ RowsOK' /\ RemoteOK' /\ WorkersOK'
        /\ UNCHANGED ledgerVars
        /\ \A v \in Workers : wk'[v].o \in {wk[v].o, NoOrder}
    BY <1>3, EnvTyped
  <2>2. LedgerStep
    BY <2>1, Stays DEF ledgerVars, NoMoney
  <2>3. BusyOnOrder'
    BY <2>1, PiggyConstants DEF BusyOnOrder, ledgerVars
  <2> QED BY <2>1, <2>2, <2>3
<1>4. CASE (ManualNext \/ WalletNext) /\ UNCHANGED piggyVars
  <2>1. LedgerStep
    BY <1>4, ManualClassified DEF LedgerStep
  <2>2. RowsOK' /\ WorkersOK' /\ RemoteOK'
    BY <1>4 DEF piggyVars, RowsOK, WorkersOK, RemoteOK
  <2>3. BusyOnOrder'
    BY <1>4, <2>1, OrdersStay DEF BusyOnOrder, piggyVars
  <2> QED BY <2>1, <2>2, <2>3
<1>5. CASE UNCHANGED vars
  <2>1. LedgerStep
    BY <1>5, Stays DEF vars, ledgerVars, NoMoney
  <2>2. RowsOK' /\ WorkersOK' /\ RemoteOK' /\ BusyOnOrder'
    BY <1>5 DEF vars, ledgerVars, piggyVars, RowsOK, WorkersOK, RemoteOK, BusyOnOrder
  <2> QED BY <2>1, <2>2
<1> QED BY <1>1, <1>2, <1>3, <1>4, <1>5 DEF Next

LEMMA AlwaysSInv == Spec => []SInv
<1>1. SInv /\ [Next]_vars => SInv'
  BY StepsClassified
<1> QED BY <1>1, InitTyped, PTL DEF Spec

(* Type correctness: no status outside the constants of model/withdraw.go, *)
(* no compensation status the scan's filter does not know, no manual order *)
(* in a status of the piggy channel, and no negative frozen or withdrawn   *)
(* amount, in any behaviour of the two channels.                           *)
THEOREM TypeCorrect == Spec => []TypeOK
<1>1. SInv => TypeOK
  BY DEF SInv
<1> QED BY <1>1, AlwaysSInv, PTL

-----------------------------------------------------------------------------
(* Final statuses.                                                         *)
LEMMA ClassesKeepFinal ==
    ASSUME LedgerTypeOK, LedgerStep, NEW o \in Orders, Phase(o) \in {"paid", "released"}
    PROVE  status'[o] = status[o]
<1>1. ASSUME NEW p \in Orders, NEW from \in {"none", "held"}, NEW to, OnlyOrder(p, from, to)
      PROVE  status'[o] = status[o]
  BY <1>1 DEF OnlyOrder
<1>2. CASE InternalStep
  BY <1>2 DEF InternalStep
<1>3. CASE WalletNext
  BY <1>3, WalletTyped
<1> QED BY <1>1, <1>2, <1>3 DEF LedgerStep, HoldStep, PayStep, ReturnStep

(* An order that is paid, or whose commission has been given back, never   *)
(* changes its status again: neither the guards of the admin operations    *)
(* nor the terminal-status checks of callbacks, scan and late replies have *)
(* a gap, for any number of orders and workers.                            *)
THEOREM FinalStays == Spec => TerminalIsFinal
<1>1. SInv /\ [Next]_vars => [\A o \in Orders : Phase(o) \in {"paid", "released"}
                                   => status'[o] = status[o]]_ledgerVars
  BY StepsClassified, ClassesKeepFinal, TypeParts DEF SInv
<1> QED BY <1>1, AlwaysSInv, PTL DEF Spec, TerminalIsFinal

-----------------------------------------------------------------------------
(***************************************************************************)
(* The money: every cent of the frozen and the withdrawn totals is         *)
(* accounted for by orders, commission is conserved, and the two channels  *)
(* together implement CommissionEscrow.                                    *)
(***************************************************************************)

(* Coins.                                                                  *)

(* A disjoint union adds up, and a part taken away leaves the difference.  *)
LEMMA AddPart ==
    ASSUME NEW S, NEW T, IsFiniteSet(S), IsFiniteSet(T), S \cap T = {}
    PROVE  /\ IsFiniteSet(S \cup T)
           /\ Cardinality(S \cup T) = Cardinality(S) + Cardinality(T)
<1>1. Cardinality(S) \in Nat /\ Cardinality(T) \in Nat
  BY FS_CardinalityType
<1>2. Cardinality(S \cap T) = 0
  BY FS_EmptySet
<1>3. /\ IsFiniteSet(S \cup T)
      /\ Cardinality(S \cup T) = Cardinality(S) + Cardinality(T) - Cardinality(S \cap T)
  BY FS_Union
<1> QED BY <1>1, <1>2, <1>3

LEMMA RemovePart ==
    ASSUME NEW S, NEW T, IsFiniteSet(S), T \subseteq S
    PROVE  /\ IsFiniteSet(S \ T)
           /\ Cardinality(S) = Cardinality(S \ T) + Cardinality(T)
<1>1. IsFiniteSet(T) /\ IsFiniteSet(S \ T)
  BY FS_Subset
<1>2. S = (S \ T) \cup T /\ (S \ T) \cap T = {}
  OBVIOUS
<1> QED BY <1>1, <1>2, AddPart

(* The pile {x} \X (1 .. n) has n coins.                                   *)
LEMMA PileSize ==
    ASSUME NEW x, NEW n \in Nat
    PROVE  IsFiniteSet({x} \X (1 .. n)) /\ Cardinality({x} \X (1 .. n)) = n
<1>1. IsFiniteSet({x}) /\ Cardinality({x}) = 1
  BY FS_Singleton
<1>2. IsFiniteSet(1 .. n) /\ Cardinality(1 .. n) = n
  BY FS_Interval
<1>3. /\ IsFiniteSet({x} \X (1 .. n))
      /\ Cardinality({x} \X (1 .. n)) = Cardinality({x}) * Cardinality(1 .. n)
  BY <1>1, <1>2, FS_Product
<1> QED BY <1>1, <1>2, <1>3

LEMMA CoinsSize ==
    ASSUME NEW o \in Orders
    PROVE  IsFiniteSet(Coins(o)) /\ Cardinality(Coins(o)) = Amount[o]
  BY PileSize, LedgerConstants DEF Coins

LEMMA RecordCoinsSize ==
    ASSUME NEW r \in Records
    PROVE  IsFiniteSet(RecordCoins(r)) /\ Cardinality(RecordCoins(r)) = RecordAmount[r]
  BY PileSize, LedgerConstants DEF RecordCoins

(* The piles of different orders share no coin.                            *)
LEMMA PilesDisjoint ==
    ASSUME NEW o \in Orders, NEW p \in Orders, NEW c \in Coins(o), c \in Coins(p)
    PROVE  o = p
  BY DEF Coins

LEMMA RecordPilesDisjoint ==
    ASSUME NEW o \in Records, NEW p \in Records, NEW c \in RecordCoins(o), c \in RecordCoins(p)
    PROVE  o = p
  BY DEF RecordCoins

LEMMA HeldCoinsMember ==
    \A u, c : c \in HeldCoins(u)
        <=> \E p \in Orders : Owner[p] = u /\ Held(p) /\ c \in Coins(p)
  BY DEF HeldCoins

LEMMA PaidCoinsMember ==
    \A u, c : c \in PaidCoins(u)
        <=> \E p \in Orders : Owner[p] = u /\ Paid(p) /\ c \in Coins(p)
  BY DEF PaidCoins

LEMMA HeldCoinsMemberNext ==
    \A u, c : c \in HeldCoins(u)'
        <=> \E p \in Orders : Owner[p] = u /\ Held(p)' /\ c \in Coins(p)
  BY DEF HeldCoins, Coins

LEMMA PaidCoinsMemberNext ==
    \A u, c : c \in PaidCoins(u)'
        <=> \E p \in Orders : Owner[p] = u /\ Paid(p)' /\ c \in Coins(p)
  BY DEF PaidCoins, Coins

(* How the piles of held and paid coins move in each class of steps.       *)
LEMMA HeldIsPhase ==
    ASSUME NEW p \in Orders
    PROVE  /\ Held(p) <=> Phase(p) = "held"
           /\ Held(p)' <=> Phase(p)' = "held"
           /\ Paid(p) <=> Phase(p) = "paid"
           /\ Paid(p)' <=> Phase(p)' = "paid"
  BY DEF Held, Phase, Paid, Released

LEMMA OthersKeepPhase ==
    ASSUME NEW o \in Orders, NEW from, NEW to, OnlyOrder(o, from, to),
           NEW p \in Orders \ {o}
    PROVE  Phase(p)' = Phase(p)
  BY DEF OnlyOrder, Phase, Paid, Released

LEMMA SameHeldCoins ==
    ASSUME \A p \in Orders : Held(p)' <=> Held(p), NEW u
    PROVE  HeldCoins(u)' = HeldCoins(u)
<1>1. ASSUME NEW c
      PROVE  c \in HeldCoins(u)' <=> c \in HeldCoins(u)
  BY HeldCoinsMember, HeldCoinsMemberNext
<1> QED BY <1>1

LEMMA SamePaidCoins ==
    ASSUME \A p \in Orders : Paid(p)' <=> Paid(p), NEW u
    PROVE  PaidCoins(u)' = PaidCoins(u)
<1>1. ASSUME NEW c
      PROVE  c \in PaidCoins(u)' <=> c \in PaidCoins(u)
  BY PaidCoinsMember, PaidCoinsMemberNext
<1> QED BY <1>1

LEMMA HoldMovesCoins ==
    ASSUME NEW o \in Orders, OnlyOrder(o, "none", "held"), NEW u \in Users
    PROVE  /\ HeldCoins(u)' = IF u = Owner[o] THEN HeldCoins(u) \cup Coins(o)
                                              ELSE HeldCoins(u)
           /\ HeldCoins(u) \cap Coins(o) = {}
           /\ PaidCoins(u)' = PaidCoins(u)
<1>1. Phase(o) = "none" /\ Phase(o)' = "held"
  BY DEF OnlyOrder
<1>2. \A p \in Orders \ {o} : (Held(p)' <=> Held(p)) /\ (Paid(p)' <=> Paid(p))
  BY OthersKeepPhase, HeldIsPhase
<1>3. ~Held(o) /\ Held(o)' /\ ~Paid(o) /\ ~Paid(o)'
  BY <1>1, HeldIsPhase
<1>4. HeldCoins(u)' = IF u = Owner[o] THEN HeldCoins(u) \cup Coins(o) ELSE HeldCoins(u)
  <2>1. \A c : c \in HeldCoins(u)' <=> c \in HeldCoins(u) \/ (u = Owner[o] /\ c \in Coins(o))
    BY <1>2, <1>3, HeldCoinsMember, HeldCoinsMemberNext, Zenon
  <2> QED BY <2>1
<1>5. HeldCoins(u) \cap Coins(o) = {}
  BY <1>3, HeldCoinsMember, PilesDisjoint
<1>6. PaidCoins(u)' = PaidCoins(u)
  BY <1>2, <1>3, SamePaidCoins
<1> QED BY <1>4, <1>5, <1>6

LEMMA CloseMovesCoins ==
    ASSUME NEW o \in Orders, NEW to \in {"paid", "released"}, OnlyOrder(o, "held", to),
           NEW u \in Users
    PROVE  /\ HeldCoins(u)' = IF u = Owner[o] THEN HeldCoins(u) \ Coins(o) ELSE HeldCoins(u)
           /\ u = Owner[o] => Coins(o) \subseteq HeldCoins(u)
           /\ PaidCoins(u)' = IF u = Owner[o] /\ to = "paid"
                              THEN PaidCoins(u) \cup Coins(o) ELSE PaidCoins(u)
           /\ PaidCoins(u) \cap Coins(o) = {}
<1>1. Phase(o) = "held" /\ Phase(o)' = to
  BY DEF OnlyOrder
<1>2. \A p \in Orders \ {o} : (Held(p)' <=> Held(p)) /\ (Paid(p)' <=> Paid(p))
  BY OthersKeepPhase, HeldIsPhase
<1>3. Held(o) /\ ~Held(o)' /\ ~Paid(o) /\ (Paid(o)' <=> to = "paid")
  BY <1>1, HeldIsPhase
<1>4. HeldCoins(u)' = IF u = Owner[o] THEN HeldCoins(u) \ Coins(o) ELSE HeldCoins(u)
  <2>1. ASSUME NEW c, c \in HeldCoins(u)'
        PROVE  c \in HeldCoins(u) /\ (u = Owner[o] => c \notin Coins(o))
    <3>1. PICK p \in Orders : Owner[p] = u /\ Held(p)' /\ c \in Coins(p)
      BY <2>1, HeldCoinsMemberNext
    <3>2. p # o /\ Held(p)
      BY <1>2, <1>3, <3>1
    <3> QED BY <3>1, <3>2, HeldCoinsMember, PilesDisjoint
  <2>2. ASSUME NEW c, c \in HeldCoins(u), u = Owner[o] => c \notin Coins(o)
        PROVE  c \in HeldCoins(u)'
    <3>1. PICK p \in Orders : Owner[p] = u /\ Held(p) /\ c \in Coins(p)
      BY <2>2, HeldCoinsMember
    <3>2. p # o /\ Held(p)'
      BY <1>2, <2>2, <3>1
    <3> QED BY <3>1, <3>2, HeldCoinsMemberNext
  <2> QED BY <2>1, <2>2
<1>5. u = Owner[o] => Coins(o) \subseteq HeldCoins(u)
  BY <1>3, HeldCoinsMember
<1>6. PaidCoins(u)' = IF u = Owner[o] /\ to = "paid"
                      THEN PaidCoins(u) \cup Coins(o) ELSE PaidCoins(u)
  <2>1. ASSUME NEW c, c \in PaidCoins(u)'
        PROVE  c \in PaidCoins(u) \/ (u = Owner[o] /\ to = "paid" /\ c \in Coins(o))
    <3>1. PICK p \in Orders : Owner[p] = u /\ Paid(p)' /\ c \in Coins(p)
      BY <2>1, PaidCoinsMemberNext
    <3> QED BY <1>2, <1>3, <3>1, PaidCoinsMember
  <2>2. ASSUME NEW c, c \in PaidCoins(u) \/ (u = Owner[o] /\ to = "paid" /\ c \in Coins(o))
        PROVE  c \in PaidCoins(u)'
    <3>1. PICK p \in Orders : Owner[p] = u /\ Paid(p)' /\ c \in Coins(p)
      BY <1>2, <1>3, <2>2, PaidCoinsMember
    <3> QED BY <3>1, PaidCoinsMemberNext
  <2> QED BY <2>1, <2>2
<1>7. PaidCoins(u) \cap Coins(o) = {}
  BY <1>3, PaidCoinsMember, PilesDisjoint
<1> QED BY <1>4, <1>5, <1>6, <1>7

LEMMA OthersMoveNoCoins ==
    ASSUME LedgerTypeOK, InternalStep \/ WalletNext, NEW u \in Users
    PROVE  HeldCoins(u)' = HeldCoins(u) /\ PaidCoins(u)' = PaidCoins(u)
<1>1. \A p \in Orders : Phase(p)' = Phase(p)
  BY WalletTyped DEF InternalStep, Phase, Paid, Released
<1>2. \A p \in Orders : (Held(p)' <=> Held(p)) /\ (Paid(p)' <=> Paid(p))
  BY <1>1, HeldIsPhase
<1> QED BY <1>2, SameHeldCoins, SamePaidCoins

-----------------------------------------------------------------------------
(* The frozen and the withdrawn totals.  Finiteness is carried along: it   *)
(* holds because only finitely many orders are ever made, whatever the set *)
(* Orders is.                                                              *)

HeldInv ==
    \A u \in Users : IsFiniteSet(HeldCoins(u)) /\ frozen[u] = Cardinality(HeldCoins(u))

PaidInv ==
    \A u \in Users : IsFiniteSet(PaidCoins(u)) /\ withdrawn[u] = Cardinality(PaidCoins(u))

(* The money of an open order is really there, so the clamp at zero takes  *)
(* exactly the amount of the order.                                        *)
LEMMA FrozenSuffices ==
    ASSUME LedgerTypeOK, HeldInv, NEW o \in Orders, NEW to \in {"paid", "released"},
           OnlyOrder(o, "held", to)
    PROVE  /\ frozen[Owner[o]] >= Amount[o]
           /\ Clamp(frozen[Owner[o]] - Amount[o]) = frozen[Owner[o]] - Amount[o]
<1> DEFINE u == Owner[o]
<1>1. u \in Users /\ Amount[o] \in Nat /\ frozen[u] \in Nat
  BY LedgerConstants DEF LedgerTypeOK
<1>2. Coins(o) \subseteq HeldCoins(u) /\ IsFiniteSet(HeldCoins(u))
  BY <1>1, CloseMovesCoins DEF HeldInv
<1>3. Cardinality(HeldCoins(u)) = Cardinality(HeldCoins(u) \ Coins(o)) + Amount[o]
  BY <1>2, RemovePart, CoinsSize
<1>4. Cardinality(HeldCoins(u) \ Coins(o)) \in Nat
  BY <1>2, RemovePart, FS_CardinalityType
<1>5. frozen[u] = Cardinality(HeldCoins(u))
  BY <1>1 DEF HeldInv
<1>6. frozen[u] >= Amount[o]
  BY <1>1, <1>3, <1>4, <1>5
<1> QED BY <1>1, <1>6 DEF Clamp

LEMMA HeldPreserved ==
    ASSUME LedgerTypeOK, HeldInv, LedgerStep
    PROVE  HeldInv'
<1> SUFFICES ASSUME NEW u \in Users
             PROVE  IsFiniteSet(HeldCoins(u)') /\ frozen'[u] = Cardinality(HeldCoins(u)')
  BY DEF HeldInv
<1>a. IsFiniteSet(HeldCoins(u)) /\ frozen[u] = Cardinality(HeldCoins(u)) /\ frozen[u] \in Nat
  BY DEF HeldInv, LedgerTypeOK
<1>1. ASSUME NEW o \in Orders, HoldStep(o)
      PROVE  IsFiniteSet(HeldCoins(u)') /\ frozen'[u] = Cardinality(HeldCoins(u)')
  <2>1. frozen' = [frozen EXCEPT ![Owner[o]] = @ + Amount[o]]
    BY <1>1 DEF HoldStep, Freeze
  <2>2. /\ HeldCoins(u)' = IF u = Owner[o] THEN HeldCoins(u) \cup Coins(o) ELSE HeldCoins(u)
        /\ HeldCoins(u) \cap Coins(o) = {}
    BY <1>1, HoldMovesCoins DEF HoldStep
  <2>3. CASE u = Owner[o]
    <3>1. frozen'[u] = frozen[u] + Amount[o]
      BY <2>1, <2>3 DEF LedgerTypeOK
    <3>2. /\ IsFiniteSet(HeldCoins(u) \cup Coins(o))
          /\ Cardinality(HeldCoins(u) \cup Coins(o)) = Cardinality(HeldCoins(u)) + Amount[o]
      <4>1. IsFiniteSet(Coins(o)) /\ Cardinality(Coins(o)) = Amount[o]
        BY CoinsSize
      <4>2. HeldCoins(u) \cap Coins(o) = {}
        BY <2>2
      <4> QED BY <1>a, <4>1, <4>2, AddPart
    <3> QED BY <1>a, <2>2, <2>3, <3>1, <3>2
  <2>4. CASE u # Owner[o]
    BY <1>a, <2>1, <2>2, <2>4 DEF LedgerTypeOK
  <2> QED BY <2>3, <2>4
<1>2. ASSUME NEW o \in Orders, PayStep(o) \/ ReturnStep(o)
      PROVE  IsFiniteSet(HeldCoins(u)') /\ frozen'[u] = Cardinality(HeldCoins(u)')
  <2>1. frozen' = [frozen EXCEPT ![Owner[o]] = Clamp(@ - Amount[o])]
    BY <1>2 DEF PayStep, ReturnStep, PayOut, Release
  <2>2. PICK to \in {"paid", "released"} : OnlyOrder(o, "held", to)
    BY <1>2 DEF PayStep, ReturnStep
  <2>3. /\ HeldCoins(u)' = IF u = Owner[o] THEN HeldCoins(u) \ Coins(o) ELSE HeldCoins(u)
        /\ u = Owner[o] => Coins(o) \subseteq HeldCoins(u)
    BY <2>2, CloseMovesCoins
  <2>4. CASE u = Owner[o]
    <3>1. frozen'[u] = frozen[u] - Amount[o]
      BY <2>1, <2>2, <2>4, FrozenSuffices DEF LedgerTypeOK
    <3>2. /\ IsFiniteSet(HeldCoins(u) \ Coins(o))
          /\ Cardinality(HeldCoins(u)) = Cardinality(HeldCoins(u) \ Coins(o)) + Amount[o]
      BY <1>a, <2>3, <2>4, RemovePart, CoinsSize
    <3>3. Cardinality(HeldCoins(u) \ Coins(o)) \in Nat /\ Amount[o] \in Nat
      BY <3>2, FS_CardinalityType, LedgerConstants
    <3> QED BY <1>a, <2>3, <2>4, <3>1, <3>2, <3>3
  <2>5. CASE u # Owner[o]
    BY <1>a, <2>1, <2>3, <2>5 DEF LedgerTypeOK
  <2> QED BY <2>4, <2>5
<1>3. CASE InternalStep \/ WalletNext
  BY <1>3, <1>a, OthersMoveNoCoins, WalletTyped DEF InternalStep, NoMoney, moneyVars
<1> QED BY <1>1, <1>2, <1>3 DEF LedgerStep

LEMMA PaidPreserved ==
    ASSUME LedgerTypeOK, PaidInv, LedgerStep
    PROVE  PaidInv'
<1> SUFFICES ASSUME NEW u \in Users
             PROVE  IsFiniteSet(PaidCoins(u)') /\ withdrawn'[u] = Cardinality(PaidCoins(u)')
  BY DEF PaidInv
<1>a. /\ IsFiniteSet(PaidCoins(u)) /\ withdrawn[u] = Cardinality(PaidCoins(u))
      /\ withdrawn[u] \in Nat
  BY DEF PaidInv, LedgerTypeOK
<1>1. ASSUME NEW o \in Orders, HoldStep(o)
      PROVE  IsFiniteSet(PaidCoins(u)') /\ withdrawn'[u] = Cardinality(PaidCoins(u)')
  <2>1. PaidCoins(u)' = PaidCoins(u) /\ withdrawn' = withdrawn
    BY <1>1, HoldMovesCoins DEF HoldStep, Freeze
  <2> QED BY <1>a, <2>1
<1>2. ASSUME NEW o \in Orders, PayStep(o)
      PROVE  IsFiniteSet(PaidCoins(u)') /\ withdrawn'[u] = Cardinality(PaidCoins(u)')
  <2>1. withdrawn' = [withdrawn EXCEPT ![Owner[o]] = @ + Amount[o]]
    BY <1>2 DEF PayStep, PayOut
  <2>2. /\ PaidCoins(u)' = IF u = Owner[o] THEN PaidCoins(u) \cup Coins(o) ELSE PaidCoins(u)
        /\ PaidCoins(u) \cap Coins(o) = {}
    BY <1>2, CloseMovesCoins DEF PayStep
  <2>3. CASE u = Owner[o]
    <3>1. withdrawn'[u] = withdrawn[u] + Amount[o]
      BY <2>1, <2>3 DEF LedgerTypeOK
    <3>2. /\ IsFiniteSet(PaidCoins(u) \cup Coins(o))
          /\ Cardinality(PaidCoins(u) \cup Coins(o)) = Cardinality(PaidCoins(u)) + Amount[o]
      <4>1. IsFiniteSet(Coins(o)) /\ Cardinality(Coins(o)) = Amount[o]
        BY CoinsSize
      <4>2. PaidCoins(u) \cap Coins(o) = {}
        BY <2>2
      <4> QED BY <1>a, <4>1, <4>2, AddPart
    <3> QED BY <1>a, <2>2, <2>3, <3>1, <3>2
  <2>4. CASE u # Owner[o]
    BY <1>a, <2>1, <2>2, <2>4 DEF LedgerTypeOK
  <2> QED BY <2>3, <2>4
<1>3. ASSUME NEW o \in Orders, ReturnStep(o)
      PROVE  IsFiniteSet(PaidCoins(u)') /\ withdrawn'[u] = Cardinality(PaidCoins(u)')
  <2>1. PaidCoins(u)' = PaidCoins(u) /\ withdrawn' = withdrawn
    BY <1>3, CloseMovesCoins DEF ReturnStep, Release
  <2> QED BY <1>a, <2>1
<1>4. CASE InternalStep \/ WalletNext
  BY <1>4, <1>a, OthersMoveNoCoins, WalletTyped DEF InternalStep, NoMoney, moneyVars
<1> QED BY <1>1, <1>2, <1>3, <1>4 DEF LedgerStep

LEMMA NoCoinsInitially ==
    ASSUME Init, NEW u \in Users
    PROVE  HeldCoins(u) = {} /\ PaidCoins(u) = {} /\ ReversedCoins(u) = {}
<1>1. \A p \in Orders : ~Held(p) /\ ~Paid(p)
  BY DEF Init, LedgerInit, Held, Paid
<1>2. \A r \in Records : rec[r] # "reversed"
  BY DEF Init, LedgerInit
<1> QED BY <1>1, <1>2 DEF HeldCoins, PaidCoins, ReversedCoins

LEMMA MoneyInitially == Init => HeldInv /\ PaidInv
<1> SUFFICES ASSUME Init, NEW u \in Users
             PROVE  /\ IsFiniteSet(HeldCoins(u)) /\ frozen[u] = Cardinality(HeldCoins(u))
                    /\ IsFiniteSet(PaidCoins(u)) /\ withdrawn[u] = Cardinality(PaidCoins(u))
  BY DEF HeldInv, PaidInv
<1>1. frozen[u] = 0 /\ withdrawn[u] = 0
  BY DEF Init, LedgerInit
<1> QED BY <1>1, NoCoinsInitially, FS_EmptySet

LEMMA AlwaysMoney == Spec => [](HeldInv /\ PaidInv)
<1>1. SInv /\ HeldInv /\ PaidInv /\ [Next]_vars => (HeldInv /\ PaidInv)'
  BY StepsClassified, HeldPreserved, PaidPreserved, TypeParts DEF SInv
<1> QED BY <1>1, MoneyInitially, AlwaysSInv, PTL DEF Spec

(* frozen_commission_amount is always the total of the open orders of the  *)
(* user, of both channels: no callback, retry, stale reply or crash makes  *)
(* a release or a pay-out happen twice or not at all.                      *)
THEOREM FrozenIsBacked == Spec => []FrozenBacked
<1>1. HeldInv => FrozenBacked
  BY DEF HeldInv, FrozenBacked
<1> QED BY <1>1, AlwaysMoney, PTL

(* total_withdraw_amount is always the total of the paid orders.           *)
THEOREM WithdrawnTotal == Spec => []WithdrawnIsPaid
<1>1. PaidInv => WithdrawnIsPaid
  BY DEF PaidInv, WithdrawnIsPaid
<1> QED BY <1>1, AlwaysMoney, PTL

-----------------------------------------------------------------------------
(* Conservation of commission.                                             *)

ConservedInv ==
    \A u \in Users :
        /\ IsFiniteSet(ReversedCoins(u))
        /\ commission[u] + frozen[u] + withdrawn[u] + transferred[u]
              = earned[u] - Cardinality(ReversedCoins(u))

LEMMA ReversedMember ==
    \A u, c : c \in ReversedCoins(u)
        <=> \E r \in Records : Beneficiary[r] = u /\ rec[r] = "reversed" /\ c \in RecordCoins(r)
  BY DEF ReversedCoins

LEMMA ReversedMemberNext ==
    \A u, c : c \in ReversedCoins(u)'
        <=> \E r \in Records : Beneficiary[r] = u /\ rec'[r] = "reversed" /\ c \in RecordCoins(r)
  BY DEF ReversedCoins, RecordCoins

LEMMA SameReversed ==
    ASSUME \A r \in Records : rec'[r] = "reversed" <=> rec[r] = "reversed", NEW u
    PROVE  ReversedCoins(u)' = ReversedCoins(u)
<1>1. ASSUME NEW c
      PROVE  c \in ReversedCoins(u)' <=> c \in ReversedCoins(u)
  BY ReversedMember, ReversedMemberNext
<1> QED BY <1>1

LEMMA ReversalMovesCoins ==
    ASSUME LedgerTypeOK, NEW r \in Records, ReverseCommission(r), NEW u \in Users
    PROVE  /\ ReversedCoins(u)' = IF u = Beneficiary[r]
                                  THEN ReversedCoins(u) \cup RecordCoins(r)
                                  ELSE ReversedCoins(u)
           /\ ReversedCoins(u) \cap RecordCoins(r) = {}
<1>1. rec[r] # "reversed" /\ rec'[r] = "reversed"
      /\ \A q \in Records \ {r} : rec'[q] = rec[q]
  BY DEF ReverseCommission, LedgerTypeOK
<1>2. ASSUME NEW c, c \in ReversedCoins(u)'
      PROVE  c \in ReversedCoins(u) \/ (u = Beneficiary[r] /\ c \in RecordCoins(r))
  <2>1. PICK q \in Records : Beneficiary[q] = u /\ rec'[q] = "reversed" /\ c \in RecordCoins(q)
    BY <1>2, ReversedMemberNext
  <2> QED BY <1>1, <2>1, ReversedMember
<1>3. ASSUME NEW c, c \in ReversedCoins(u) \/ (u = Beneficiary[r] /\ c \in RecordCoins(r))
      PROVE  c \in ReversedCoins(u)'
  <2>1. PICK q \in Records : Beneficiary[q] = u /\ rec'[q] = "reversed" /\ c \in RecordCoins(q)
    BY <1>1, <1>3, ReversedMember
  <2> QED BY <2>1, ReversedMemberNext
<1>4. ReversedCoins(u)' = IF u = Beneficiary[r]
                          THEN ReversedCoins(u) \cup RecordCoins(r) ELSE ReversedCoins(u)
  BY <1>2, <1>3
<1>5. ReversedCoins(u) \cap RecordCoins(r) = {}
  BY <1>1, ReversedMember, RecordPilesDisjoint
<1> QED BY <1>4, <1>5

LEMMA ConservedPreserved ==
    ASSUME LedgerTypeOK, HeldInv, ConservedInv, LedgerStep
    PROVE  ConservedInv'
<1> DEFINE Total(u) == commission[u] + frozen[u] + withdrawn[u] + transferred[u]
           Good(u) == /\ IsFiniteSet(ReversedCoins(u)')
                      /\ commission'[u] + frozen'[u] + withdrawn'[u] + transferred'[u]
                            = earned'[u] - Cardinality(ReversedCoins(u)')
<1> SUFFICES ASSUME NEW u \in Users
             PROVE  Good(u)
  BY DEF ConservedInv
<1>a. /\ commission[u] \in Int /\ frozen[u] \in Nat /\ withdrawn[u] \in Nat
      /\ transferred[u] \in Nat /\ earned[u] \in Nat
  BY DEF LedgerTypeOK
<1>b. /\ IsFiniteSet(ReversedCoins(u))
      /\ Total(u) = earned[u] - Cardinality(ReversedCoins(u))
      /\ Cardinality(ReversedCoins(u)) \in Nat
  BY FS_CardinalityType DEF ConservedInv
<1>c. ASSUME NEW o \in Orders, HoldStep(o) \/ PayStep(o) \/ ReturnStep(o)
      PROVE  /\ commission'[u] + frozen'[u] + withdrawn'[u]
                   = commission[u] + frozen[u] + withdrawn[u]
             /\ UNCHANGED incomeVars
  <2> Amount[o] \in Nat
    BY LedgerConstants
  <2>1. CASE HoldStep(o)
    BY <1>a, <2>1 DEF HoldStep, OnlyOrder, Freeze, LedgerTypeOK
  <2>2. CASE PayStep(o)
    <3>1. Clamp(frozen[Owner[o]] - Amount[o]) = frozen[Owner[o]] - Amount[o]
      BY <2>2, FrozenSuffices DEF PayStep
    <3> QED BY <1>a, <2>2, <3>1 DEF PayStep, OnlyOrder, PayOut, LedgerTypeOK
  <2>3. CASE ReturnStep(o)
    <3>1. Clamp(frozen[Owner[o]] - Amount[o]) = frozen[Owner[o]] - Amount[o]
      BY <2>3, FrozenSuffices DEF ReturnStep
    <3> QED BY <1>a, <2>3, <3>1 DEF ReturnStep, OnlyOrder, Release, LedgerTypeOK
  <2> QED BY <1>c, <2>1, <2>2, <2>3
<1>d. ASSUME UNCHANGED rec
      PROVE  ReversedCoins(u)' = ReversedCoins(u)
  BY <1>d, SameReversed
<1>1. ASSUME NEW o \in Orders, HoldStep(o) \/ PayStep(o) \/ ReturnStep(o)
      PROVE  Good(u)
  <2>1. UNCHANGED <<earned, transferred, rec>>
    BY <1>1, <1>c DEF incomeVars
  <2>2. commission'[u] + frozen'[u] + withdrawn'[u] = commission[u] + frozen[u] + withdrawn[u]
    BY <1>1, <1>c
  <2>3. ReversedCoins(u)' = ReversedCoins(u)
    BY <2>1, <1>d
  <2> QED BY <1>b, <2>1, <2>2, <2>3
<1>2. CASE InternalStep
  <2>1. UNCHANGED <<commission, frozen, withdrawn, earned, transferred, rec>>
    BY <1>2 DEF InternalStep, NoMoney, moneyVars, incomeVars
  <2>2. ReversedCoins(u)' = ReversedCoins(u)
    BY <2>1, <1>d
  <2> QED BY <1>b, <2>1, <2>2
<1>3. ASSUME NEW r \in Records, CreditCommission(r)
      PROVE  Good(u)
  <2>1. ReversedCoins(u)' = ReversedCoins(u)
    <3>1. \A q \in Records : rec'[q] = "reversed" <=> rec[q] = "reversed"
      BY <1>3 DEF CreditCommission, LedgerTypeOK
    <3> QED BY <3>1, SameReversed
  <2>2. RecordAmount[r] \in Nat
    BY LedgerConstants
  <2>3. /\ UNCHANGED <<frozen, withdrawn, transferred>>
        /\ commission'[u] - earned'[u] = commission[u] - earned[u]
        /\ commission'[u] \in Int /\ earned'[u] \in Int
    BY <1>a, <1>3, <2>2 DEF CreditCommission, LedgerTypeOK
  <2> QED BY <1>a, <1>b, <2>1, <2>3
<1>4. ASSUME NEW r \in Records, ReverseCommission(r)
      PROVE  Good(u)
  <2>1. UNCHANGED <<frozen, withdrawn, transferred, earned>>
    BY <1>4 DEF ReverseCommission
  <2>2. /\ RecordAmount[r] \in Nat
        /\ IsFiniteSet(RecordCoins(r)) /\ Cardinality(RecordCoins(r)) = RecordAmount[r]
    BY LedgerConstants, RecordCoinsSize
  <2>3. CASE u = Beneficiary[r]
    <3>1. commission'[u] = commission[u] - RecordAmount[r]
      BY <1>4, <2>3 DEF ReverseCommission, LedgerTypeOK
    <3>2. ReversedCoins(u)' = ReversedCoins(u) \cup RecordCoins(r)
      BY <1>4, <2>3, ReversalMovesCoins
    <3>3. ReversedCoins(u) \cap RecordCoins(r) = {}
      BY <1>4, ReversalMovesCoins
    <3>4. /\ IsFiniteSet(ReversedCoins(u) \cup RecordCoins(r))
          /\ Cardinality(ReversedCoins(u) \cup RecordCoins(r))
                = Cardinality(ReversedCoins(u)) + RecordAmount[r]
      BY <1>b, <2>2, <3>3, AddPart
    <3> QED BY <1>a, <1>b, <2>1, <2>2, <3>1, <3>2, <3>4
  <2>4. CASE u # Beneficiary[r]
    <3>1. commission'[u] = commission[u]
      BY <1>4, <2>4 DEF ReverseCommission, LedgerTypeOK
    <3>2. ReversedCoins(u)' = ReversedCoins(u)
      BY <1>4, <2>4, ReversalMovesCoins
    <3> QED BY <1>b, <2>1, <3>1, <3>2
  <2> QED BY <2>3, <2>4
<1>5. ASSUME NEW v \in Users, NEW a \in TransferAmounts, TransferCommissionToBalance(v, a)
      PROVE  Good(u)
  <2>1. /\ UNCHANGED <<frozen, withdrawn, earned, rec>>
        /\ commission' = [commission EXCEPT ![v] = @ - a]
        /\ transferred' = [transferred EXCEPT ![v] = @ + a]
    BY <1>5 DEF TransferCommissionToBalance
  <2>2. a \in Nat
    BY BalanceConstants
  <2>3. /\ commission'[u] + transferred'[u] = commission[u] + transferred[u]
        /\ commission'[u] \in Int /\ transferred'[u] \in Int
    BY <1>a, <2>1, <2>2 DEF LedgerTypeOK
  <2>4. ReversedCoins(u)' = ReversedCoins(u)
    BY <2>1, <1>d
  <2> QED BY <1>a, <1>b, <2>1, <2>3, <2>4
<1> QED BY <1>1, <1>2, <1>3, <1>4, <1>5 DEF LedgerStep, WalletNext

(* Commission is neither created nor destroyed: whatever a user ever       *)
(* earned, less what was reversed, is available, frozen, withdrawn or      *)
(* transferred to the balance, for any interleaving of credits, reversals, *)
(* transfers and both withdrawal channels.                                 *)
THEOREM CommissionIsConserved == Spec => []CommissionConserved
<1>1. Init => ConservedInv
  <2> SUFFICES ASSUME Init, NEW u \in Users
               PROVE  /\ IsFiniteSet(ReversedCoins(u))
                      /\ commission[u] + frozen[u] + withdrawn[u] + transferred[u]
                            = earned[u] - Cardinality(ReversedCoins(u))
    BY DEF ConservedInv
  <2>1. /\ commission[u] = 0 /\ frozen[u] = 0 /\ withdrawn[u] = 0
        /\ transferred[u] = 0 /\ earned[u] = 0
    BY DEF Init, LedgerInit
  <2>2. IsFiniteSet(ReversedCoins(u)) /\ Cardinality(ReversedCoins(u)) = 0
    BY NoCoinsInitially, FS_EmptySet
  <2> QED BY <2>1, <2>2
<1>2. SInv /\ HeldInv /\ ConservedInv /\ [Next]_vars => ConservedInv'
  BY StepsClassified, ConservedPreserved, TypeParts DEF SInv
<1>3. ConservedInv => CommissionConserved
  BY DEF ConservedInv, CommissionConserved
<1> QED BY <1>1, <1>2, <1>3, AlwaysSInv, AlwaysMoney, PTL DEF Spec

-----------------------------------------------------------------------------
(* The flow table.                                                         *)

ReleaseKinds == {"reject", "failed", "cancel"}

(* The rows of order o, given its phase.                                   *)
FlowsOf(f, o, ph) ==
    /\ <<"freeze", o>> \in f <=> ph # "none"
    /\ <<"success", o>> \in f <=> ph = "paid"
    /\ (\E k \in ReleaseKinds : <<k, o>> \in f) <=> ph = "released"
    /\ \A k, l \in ReleaseKinds : <<k, o>> \in f /\ <<l, o>> \in f => k = l

FlowsInv == \A o \in Orders : FlowsOf(flows, o, Phase(o))

LEMMA FlowsPreserved ==
    ASSUME LedgerTypeOK, FlowsInv, LedgerStep
    PROVE  FlowsInv'
<1> SUFFICES ASSUME NEW p \in Orders
             PROVE  FlowsOf(flows', p, Phase(p)')
  BY DEF FlowsInv
<1>a. FlowsOf(flows, p, Phase(p))
  BY DEF FlowsInv
<1>1. ASSUME NEW o \in Orders, NEW k \in FlowKinds, createWalletFlowTx(k, o),
             p # o, Phase(p)' = Phase(p)
      PROVE  FlowsOf(flows', p, Phase(p)')
  BY <1>1, <1>a DEF createWalletFlowTx, FlowsOf
<1>2. ASSUME NEW o \in Orders, HoldStep(o)
      PROVE  FlowsOf(flows', p, Phase(p)')
  <2>1. createWalletFlowTx("freeze", o) /\ OnlyOrder(o, "none", "held")
    BY <1>2 DEF HoldStep, Freeze
  <2>2. CASE p = o
    BY <1>a, <2>1, <2>2 DEF OnlyOrder, createWalletFlowTx, FlowsOf, ReleaseKinds
  <2>3. CASE p # o
    BY <1>1, <2>1, <2>3, OthersKeepPhase DEF FlowKinds
  <2> QED BY <2>2, <2>3
<1>3. ASSUME NEW o \in Orders, PayStep(o)
      PROVE  FlowsOf(flows', p, Phase(p)')
  <2>1. createWalletFlowTx("success", o) /\ OnlyOrder(o, "held", "paid")
    BY <1>3 DEF PayStep, PayOut
  <2>2. CASE p = o
    BY <1>a, <2>1, <2>2 DEF OnlyOrder, createWalletFlowTx, FlowsOf, ReleaseKinds
  <2>3. CASE p # o
    BY <1>1, <2>1, <2>3, OthersKeepPhase DEF FlowKinds
  <2> QED BY <2>2, <2>3
<1>4. ASSUME NEW o \in Orders, ReturnStep(o)
      PROVE  FlowsOf(flows', p, Phase(p)')
  <2>1. PICK k \in ReleaseKinds : createWalletFlowTx(k, o)
    BY <1>4 DEF ReturnStep, Release, ReleaseKinds
  <2>2. OnlyOrder(o, "held", "released")
    BY <1>4 DEF ReturnStep
  <2>3. CASE p = o
    BY <1>a, <2>1, <2>2, <2>3 DEF OnlyOrder, createWalletFlowTx, FlowsOf, ReleaseKinds
  <2>4. CASE p # o
    BY <1>1, <2>1, <2>2, <2>4, OthersKeepPhase DEF FlowKinds, ReleaseKinds
  <2> QED BY <2>3, <2>4
<1>5. CASE InternalStep
  BY <1>5, <1>a DEF InternalStep, NoMoney, moneyVars
<1>6. CASE WalletNext
  <2>1. Phase(p)' = Phase(p) /\ flows' = flows
    BY <1>6, WalletTyped DEF Phase, Paid, Released
  <2> QED BY <1>a, <2>1
<1> QED BY <1>2, <1>3, <1>4, <1>5, <1>6 DEF LedgerStep

(* The wallet flows tell the same story as the orders: no row is missing,  *)
(* duplicated, or silently dropped because another had taken its key.      *)
THEOREM FlowsAreComplete == Spec => []FlowsMatchOrders
<1>1. Init => FlowsInv
  <2> SUFFICES ASSUME Init, NEW o \in Orders PROVE FlowsOf(flows, o, Phase(o))
    BY DEF FlowsInv
  <2>1. flows = {} /\ status[o] = "none"
    BY DEF Init, LedgerInit
  <2>2. Phase(o) = "none"
    BY <2>1 DEF Phase
  <2> QED BY <2>1, <2>2 DEF FlowsOf
<1>2. SInv /\ FlowsInv /\ [Next]_vars => FlowsInv'
  BY StepsClassified, FlowsPreserved, TypeParts DEF SInv
<1>3. FlowsInv => FlowsMatchOrders
  BY DEF FlowsInv, FlowsOf, FlowsMatchOrders, ReleaseKinds, Phase, Paid, Released
<1> QED BY <1>1, <1>2, <1>3, AlwaysSInv, PTL DEF Spec

-----------------------------------------------------------------------------
(* Refinement.                                                             *)

PhaseMap == [o \in Orders |-> Phase(o)]

LEMMA PhaseMapMoves ==
    ASSUME NEW o \in Orders, NEW from, NEW to, OnlyOrder(o, from, to)
    PROVE  /\ PhaseMap[o] = from
           /\ PhaseMap' = [PhaseMap EXCEPT ![o] = to]
<1>1. \A p \in Orders \ {o} : Phase(p)' = Phase(p)
  BY OthersKeepPhase
<1>2. Phase(o) = from /\ Phase(o)' = to
  BY DEF OnlyOrder
<1>3. PhaseMap' = [p \in Orders |-> Phase(p)']
  BY DEF PhaseMap
<1> QED BY <1>1, <1>2, <1>3 DEF PhaseMap

LEMMA PhaseMapStays ==
    ASSUME \A p \in Orders : Phase(p)' = Phase(p)
    PROVE  PhaseMap' = PhaseMap
  BY DEF PhaseMap

LEMMA StepRefines ==
    ASSUME LedgerTypeOK, LedgerStep
    PROVE  Escrow!EscrowNext \/ UNCHANGED <<commission, PhaseMap, rec>>
<1>1. ASSUME NEW o \in Orders, HoldStep(o)
      PROVE  Escrow!EscrowNext
  <2>1. PhaseMap[o] = "none" /\ PhaseMap' = [PhaseMap EXCEPT ![o] = "held"]
    BY <1>1, PhaseMapMoves DEF HoldStep
  <2>2. /\ commission[Owner[o]] + Epsilon >= Amount[o]
        /\ commission' = [commission EXCEPT ![Owner[o]] = @ - Amount[o]]
        /\ rec' = rec
    BY <1>1 DEF HoldStep, Freeze, OnlyOrder, incomeVars
  <2>3. Escrow!Hold(o)
    BY <2>1, <2>2 DEF Escrow!Hold, Escrow!Move, PhaseMap
  <2> QED BY <2>3 DEF Escrow!EscrowNext
<1>2. ASSUME NEW o \in Orders, PayStep(o)
      PROVE  Escrow!EscrowNext
  <2>1. PhaseMap[o] = "held" /\ PhaseMap' = [PhaseMap EXCEPT ![o] = "paid"]
    BY <1>2, PhaseMapMoves DEF PayStep
  <2>2. UNCHANGED <<commission, rec>>
    BY <1>2 DEF PayStep, PayOut, OnlyOrder, incomeVars
  <2>3. Escrow!Pay(o)
    BY <2>1, <2>2 DEF Escrow!Pay, Escrow!Move, PhaseMap
  <2> QED BY <2>3 DEF Escrow!EscrowNext
<1>3. ASSUME NEW o \in Orders, ReturnStep(o)
      PROVE  Escrow!EscrowNext
  <2>1. PhaseMap[o] = "held" /\ PhaseMap' = [PhaseMap EXCEPT ![o] = "released"]
    BY <1>3, PhaseMapMoves DEF ReturnStep
  <2>2. /\ commission' = [commission EXCEPT ![Owner[o]] = @ + Amount[o]]
        /\ rec' = rec
    BY <1>3 DEF ReturnStep, Release, OnlyOrder, incomeVars
  <2>3. Escrow!Return(o)
    BY <2>1, <2>2 DEF Escrow!Return, Escrow!Move, PhaseMap
  <2> QED BY <2>3 DEF Escrow!EscrowNext
<1>4. CASE InternalStep
  BY <1>4, PhaseMapStays DEF InternalStep, NoMoney, moneyVars, incomeVars
<1>5. CASE WalletNext
  <2>1. PhaseMap' = PhaseMap
    <3>1. \A p \in Orders : Phase(p)' = Phase(p)
      BY <1>5, WalletTyped DEF Phase, Paid, Released
    <3> QED BY <3>1, PhaseMapStays
  <2>2. ASSUME NEW r \in Records, CreditCommission(r)
        PROVE  Escrow!Earn(r)
    BY <2>1, <2>2 DEF CreditCommission, Escrow!Earn, PhaseMap
  <2>3. ASSUME NEW r \in Records, ReverseCommission(r)
        PROVE  Escrow!ClawBack(r)
    BY <2>1, <2>3 DEF ReverseCommission, Escrow!ClawBack, PhaseMap
  <2>4. ASSUME NEW u \in Users, NEW a \in TransferAmounts, TransferCommissionToBalance(u, a)
        PROVE  Escrow!Transfer(u, a)
    BY <2>1, <2>4 DEF TransferCommissionToBalance, Escrow!Transfer, PhaseMap
  <2> QED BY <1>5, <2>2, <2>3, <2>4 DEF WalletNext, Escrow!EscrowNext
<1> QED BY <1>1, <1>2, <1>3, <1>4, <1>5 DEF LedgerStep

(* Both channels together implement the escrow: each order takes its       *)
(* amount out of the available commission once, and pays it or gives it    *)
(* back once; only a reversal can take more than is available.             *)
THEOREM WithdrawalsImplementEscrow == Spec => ImplementsEscrow
<1>1. Init => Escrow!EscrowInit
  BY DEF Init, LedgerInit, Escrow!EscrowInit, Phase
<1>2. SInv /\ [Next]_vars => [Escrow!EscrowNext]_Escrow!escrowVars
  BY StepsClassified, StepRefines, TypeParts DEF SInv, Escrow!escrowVars, PhaseMap
<1> QED BY <1>1, <1>2, AlwaysSInv, PTL DEF Spec, ImplementsEscrow, Escrow!EscrowSpec
=============================================================================
