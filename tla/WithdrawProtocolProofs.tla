----------------------- MODULE WithdrawProtocolProofs -----------------------
(***************************************************************************)
(* The protocol between the gateway and the payment provider, for every    *)
(* number of orders and workers, every bound on the faults and whether or  *)
(* not a lease outlives its HTTP calls: an order whose commission has been *)
(* given back is not paid, and an order booked as paid has been paid.      *)
(*                                                                         *)
(* The invariants say what a worker may rely on although everything it has *)
(* read may be out of date: a result it holds is still true, because the   *)
(* provider never takes a result back; and before the compare-and-set of   *)
(* claimPiggyOrderForConfirm nobody has asked, and no lost request can     *)
(* still ask, the provider to pay.                                         *)
(*                                                                         *)
(* ProtocolInv is proved order by order.  A database step on order o moves *)
(* one row (RowMove) and one worker (WorkerMove); a step of the provider   *)
(* or an HTTP call moves the provider's state of one order (RemoteMove).   *)
(***************************************************************************)
EXTENDS WithdrawProofs

USE DEF Manual, Piggy

-----------------------------------------------------------------------------
(* The inductive invariant.                                                *)

BeforeClaim == {"none", "pending", "approved", "submitted"}

(* Not terminal, and past the point where the order may be submitted.      *)
InProgress == {"await_confirm", "confirming", "confirmed", "cancelling", "manual_review"}

(* The provider has not been asked to pay the order, and nothing under way *)
(* will ask it.                                                            *)
Unconfirmed(o) ==
    /\ remote[o] \notin {"paying", "success"}
    /\ <<"confirm", o>> \notin late
    /\ \A w \in Workers : ~At(w, o, "confirm")

(* The provider's state r bears out what a worker with record k believes.  *)
TrueTo(k, r) ==
    /\ k.msg = "success" => r = "success"
    /\ k.msg = "failure" => r \in {"failure", "cancelled"}
    /\ k.pc = "cancelled" /\ k.resp = "ok" => r = "cancelled"

RepliesAreTrue(o) ==
    \A w \in Workers : wk[w].o = o => TrueTo(wk[w], remote[o])

(* The row of an open order stays within the filters of the scan.  The     *)
(* last conjunct is stronger than NoOrderOutsideScan needs: an order that  *)
(* is not approved yet has no trade number either.                         *)
RowInScan(o) ==
    /\ status[o] = "manual_review" => comp[o] \in {"", "pending"}
    /\ comp[o] = "submit_recovering" => status[o] = "approved"
    /\ comp[o] = "manual_processed" => status[o] \in Terminal
    /\ status[o] \in {"none", "pending", "approved"} => o \notin ext

(* A released order cannot be paid any more: the provider has a result     *)
(* that says so, or has not been asked to pay and will not be.             *)
ResultHolds(o) ==
    \/ comp[o] = "manual_processed"
    \/ /\ status[o] \in BeforeClaim => Unconfirmed(o)
       /\ Paid(o) => remote[o] = "success"
       /\ Released(o) => remote[o] \in {"failure", "cancelled"} \/ Unconfirmed(o)

OrderInv(o) == RowInScan(o) /\ RepliesAreTrue(o) /\ ResultHolds(o)

ProtocolInv == \A o \in Piggy : OrderInv(o)

-----------------------------------------------------------------------------
(* What one step may do to one order.                                      *)

RowKept(o) ==
    /\ status'[o] = status[o]
    /\ comp'[o] = comp[o]
    /\ o \in ext' <=> o \in ext

RowsElsewhereKept(o) == \A p \in Orders \ {o} : RowKept(p)

(* The worker that moves ends up free or with order o, and holds nothing   *)
(* untrue.                                                                 *)
WorkerMove(o) ==
    \A v \in Workers :
        \/ wk'[v] = wk[v]
        \/ /\ wk'[v].o \in {o, NoOrder}
           /\ wk'[v].o = o => TrueTo(wk'[v], remote[o])

NoNewConfirm(o) ==
    \A v \in Workers : wk'[v].o = o /\ wk'[v].pc = "confirm" => At(v, o, "confirm")

(* The row of order o after a database step, and why the step may leave it *)
(* so.  Only the claim for confirmation lets a worker ask for the payment, *)
(* and it leaves the order in progress.                                    *)
RowMove(o) ==
    /\ RowsElsewhereKept(o)
    /\ RowInScan(o)'
    /\ \/ status'[o] \in InProgress
       \/ /\ NoNewConfirm(o)
          /\ \/ status'[o] = status[o] /\ comp'[o] = comp[o]
             \/ status[o] \in BeforeClaim /\ status'[o] \in BeforeClaim
             \/ comp'[o] = "manual_processed"
             \/ status'[o] = "paid" /\ remote[o] = "success"
             \/ /\ status'[o] \in {"failed", "cancelled", "rejected"}
                /\ remote[o] \in {"failure", "cancelled"} \/ status[o] \in BeforeClaim

(* The provider keeps its results, and pays only what it was asked to pay. *)
RemoteMove(o) ==
    /\ remote[o] \in {"success", "failure", "cancelled"} => remote'[o] = remote[o]
    /\ Unconfirmed(o) => remote'[o] \notin {"paying", "success"}

-----------------------------------------------------------------------------
(* Facts about records of workers.                                         *)

Ours(o) ==
    /\ LedgerTypeOK /\ WorkersOK /\ RowsOK /\ RemoteOK
    /\ o \in Piggy
    /\ OrderInv(o)

LEMMA IdleFields ==
    /\ Idle.pc = "idle" /\ Idle.o = NoOrder /\ Idle.msg = "none" /\ Idle.resp = "none"
  BY DEF Idle

LEMMA MoveSet ==
    ASSUME WorkersOK, NEW w \in Workers, NEW o \in Orders, NEW x \in Worker,
           x.o \in {o, NoOrder}, TrueTo(x, remote[o]),
           wk' = [wk EXCEPT ![w] = x]
    PROVE  WorkerMove(o) /\ (x.pc # "confirm" => NoNewConfirm(o))
  BY DEF WorkersOK, WorkerMove, NoNewConfirm, At

LEMMA MoveDone ==
    ASSUME WorkersOK, NEW w \in Workers, NEW o \in Orders, Done(w)
    PROVE  WorkerMove(o) /\ NoNewConfirm(o)
<1>1. TrueTo(Idle, remote[o])  BY IdleFields DEF TrueTo
<1>2. wk' = [wk EXCEPT ![w] = Idle]  BY DEF Done
<1> QED BY <1>1, <1>2, IdleFields, IdleIsWorker, MoveSet

LEMMA MoveStart ==
    ASSUME WorkersOK, NEW w \in Workers, NEW o \in Orders, NEW pc \in PCs, NEW ctx \in Contexts,
           pc # "cancelled", Start(w, o, pc, ctx)
    PROVE  WorkerMove(o) /\ (pc # "confirm" => NoNewConfirm(o))
<1> DEFINE x == [Idle EXCEPT !.pc = pc, !.o = o, !.ctx = ctx]
<1>1. x.o = o /\ x.pc = pc /\ x.msg = "none" /\ x \in Worker
  BY IdleIsWorker, IdleFields DEF Worker
<1>2. wk' = [wk EXCEPT ![w] = x]  BY DEF Start
<1>3. TrueTo(x, remote[o])  BY <1>1 DEF TrueTo
<1> HIDE DEF x
<1> QED BY <1>1, <1>2, <1>3, MoveSet

LEMMA MoveGoto ==
    ASSUME WorkersOK, NEW w \in Workers, NEW o \in Orders, RepliesAreTrue(o),
           NEW pc \in PCs, pc # "cancelled", wk[w].o = o, Goto(w, pc)
    PROVE  WorkerMove(o) /\ (pc # "confirm" => NoNewConfirm(o))
<1> DEFINE x == [wk[w] EXCEPT !.pc = pc]
<1>0. wk[w] \in Worker  BY DEF WorkersOK
<1>1. x.o = o /\ x.pc = pc /\ x.msg = wk[w].msg /\ x \in Worker
  BY <1>0 DEF Worker
<1>2. wk' = [wk EXCEPT ![w] = x]  BY DEF Goto
<1>3. TrueTo(x, remote[o])  BY <1>1 DEF TrueTo, RepliesAreTrue
<1> HIDE DEF x
<1> QED BY <1>1, <1>2, <1>3, MoveSet

LEMMA MoveProcessed ==
    ASSUME WorkersOK, NEW w \in Workers, NEW o \in Orders, RepliesAreTrue(o),
           NEW r \in Replies \cup Results, wk[w].o = o, Processed(w, r)
    PROVE  WorkerMove(o) /\ NoNewConfirm(o)
<1> DEFINE m == IF wk[w].ctx = "callback" THEN wk[w].msg ELSE "none"
           x == [wk[w] EXCEPT !.pc = "after", !.resp = r, !.pretax = "ok", !.msg = m]
<1>0. wk[w] \in Worker /\ m \in Contents /\ "after" \in PCs
  BY DEF Worker, WorkersOK, Contents, PCs
<1>1. x.o = o /\ x.pc = "after" /\ x.msg \in {wk[w].msg, "none"} /\ x \in Worker
  BY <1>0 DEF Worker
<1>2. wk' = [wk EXCEPT ![w] = x]  BY DEF Processed
<1>3. TrueTo(x, remote[o])  BY <1>1 DEF TrueTo, RepliesAreTrue
<1> HIDE DEF x
<1> QED BY <1>1, <1>2, <1>3, MoveSet

-----------------------------------------------------------------------------
(* The moves keep the invariant of every order.                            *)

LEMMA FrameOfOrder ==
    ASSUME NEW p \in Orders, OrderInv(p), RowKept(p), remote'[p] = remote[p],
           <<"confirm", p>> \in late' => <<"confirm", p>> \in late,
           \A v \in Workers : wk'[v].o = p => wk'[v] = wk[v]
    PROVE  OrderInv(p)'
<1>1. RowInScan(p)'
  BY DEF OrderInv, RowInScan, RowKept
<1>2. RepliesAreTrue(p)'
  BY DEF OrderInv, RepliesAreTrue
<1>3. Unconfirmed(p) => Unconfirmed(p)'
  BY DEF Unconfirmed, At
<1>4. ResultHolds(p)'
  BY <1>3 DEF OrderInv, ResultHolds, RowKept, Paid, Released
<1> QED BY <1>1, <1>2, <1>4 DEF OrderInv

LEMMA DbMoveKeeps ==
    ASSUME NEW o \in Piggy, ProtocolInv,
           RowMove(o), WorkerMove(o), UNCHANGED <<remote, late>>
    PROVE  ProtocolInv'
<1>1. ASSUME NEW p \in Piggy, p # o  PROVE OrderInv(p)'
  <2>1. \A v \in Workers : wk'[v].o = p => wk'[v] = wk[v]
    BY <1>1, PiggyConstants DEF WorkerMove
  <2>2. RowKept(p)
    BY <1>1 DEF RowMove, RowsElsewhereKept
  <2> QED BY <2>1, <2>2, FrameOfOrder DEF ProtocolInv
<1>2. OrderInv(o)'
  <2>0. OrderInv(o) /\ RowInScan(o)'
    BY DEF ProtocolInv, RowMove
  <2>1. RepliesAreTrue(o)'
    BY <2>0 DEF OrderInv, RepliesAreTrue, WorkerMove
  <2>2. ASSUME NoNewConfirm(o), Unconfirmed(o)  PROVE Unconfirmed(o)'
    BY <2>2 DEF Unconfirmed, At, NoNewConfirm
  <2>3. ResultHolds(o)'
    <3>1. CASE status'[o] \in InProgress
      BY <3>1 DEF InProgress, ResultHolds, BeforeClaim, Paid, Released
    <3>2. ASSUME NoNewConfirm(o), status'[o] = status[o], comp'[o] = comp[o]
          PROVE  ResultHolds(o)'
      BY <3>2, <2>0, <2>2 DEF OrderInv, ResultHolds, Paid, Released
    <3>3. ASSUME status[o] \in BeforeClaim
          PROVE  Unconfirmed(o)
      BY <3>3, <2>0 DEF OrderInv, RowInScan, ResultHolds, BeforeClaim, Terminal
    <3>4. ASSUME NoNewConfirm(o), status[o] \in BeforeClaim, status'[o] \in BeforeClaim
          PROVE  ResultHolds(o)'
      BY <3>4, <3>3, <2>2 DEF ResultHolds, BeforeClaim, Paid, Released
    <3>5. CASE comp'[o] = "manual_processed"
      BY <3>5 DEF ResultHolds
    <3>6. CASE status'[o] = "paid" /\ remote[o] = "success"
      BY <3>6 DEF ResultHolds, BeforeClaim, Paid, Released
    <3>7. ASSUME NoNewConfirm(o), status'[o] \in {"failed", "cancelled", "rejected"},
                 remote[o] \in {"failure", "cancelled"} \/ status[o] \in BeforeClaim
          PROVE  ResultHolds(o)'
      BY <3>7, <3>3, <2>2 DEF ResultHolds, BeforeClaim, Paid, Released
    <3> QED BY <3>1, <3>2, <3>4, <3>5, <3>6, <3>7 DEF RowMove
  <2> QED BY <2>0, <2>1, <2>3 DEF OrderInv
<1> QED BY <1>1, <1>2 DEF ProtocolInv

-----------------------------------------------------------------------------
(* The helpers that write the row.                                         *)

(* The row is left alone, or the order is in progress afterwards.          *)
RowAtRest(o) ==
    /\ RowsElsewhereKept(o)
    /\ RowInScan(o)'
    /\ \/ status'[o] \in InProgress
       \/ status'[o] = status[o] /\ comp'[o] = comp[o]

LEMMA AtRestMoves ==
    ASSUME NEW o \in Piggy, RowAtRest(o), NoNewConfirm(o)
    PROVE  RowMove(o)
  BY DEF RowAtRest, RowMove

LEMMA RowTypes ==
    ASSUME NEW o \in Piggy, Ours(o)
    PROVE  /\ status \in [Orders -> Statuses] /\ comp \in [Orders -> CompStatuses]
           /\ ext \subseteq Orders /\ o \in Orders
           /\ RowInScan(o) /\ RepliesAreTrue(o) /\ WorkersOK
  BY DEF Ours, LedgerTypeOK, OrderStatuses, RowsOK, OrderInv

LEMMA StatusSet ==
    ASSUME NEW o \in Piggy, Ours(o), NEW s \in Statuses, SetStatus(o, s)
    PROVE  status'[o] = s /\ \A p \in Orders \ {o} : status'[p] = status[p]
  BY RowTypes DEF SetStatus

LEMMA CompSet ==
    ASSUME NEW o \in Piggy, Ours(o), NEW c \in CompStatuses, SetComp(o, c)
    PROVE  comp'[o] = c /\ \A p \in Orders \ {o} : comp'[p] = comp[p]
  BY RowTypes DEF SetComp

LEMMA MarkersSet ==
    ASSUME NEW o \in Piggy, Ours(o), addPiggyApprovedSubmissionMarkers(o)
    PROVE  /\ comp'[o] = IF status[o] = "approved" /\ comp[o] = "submit_recovering"
                         THEN "" ELSE comp[o]
           /\ \A p \in Orders \ {o} : comp'[p] = comp[p] /\ (p \in ext' <=> p \in ext)
  BY RowTypes DEF addPiggyApprovedSubmissionMarkers

LEMMA NothingMoves ==
    ASSUME NEW o \in Piggy, Ours(o), UNCHANGED <<status, rowVars>>
    PROVE  RowAtRest(o)
  BY RowTypes DEF rowVars, RowAtRest, RowsElsewhereKept, RowKept, RowInScan

LEMMA ReviewMoves ==
    ASSUME NEW o \in Piggy, Ours(o), NEW from,
           markPiggyOrderManualReviewIfActive(o, from)
    PROVE  RowAtRest(o)
<1>1. CASE SetStatus(o, "manual_review") /\ SetComp(o, "pending") /\ UNCHANGED ext
  <2>1. status'[o] = "manual_review" /\ \A p \in Orders \ {o} : status'[p] = status[p]
    BY <1>1, StatusSet DEF Statuses
  <2>2. comp'[o] = "pending" /\ \A p \in Orders \ {o} : comp'[p] = comp[p]
    BY <1>1, CompSet DEF CompStatuses
  <2> QED BY <1>1, <2>1, <2>2 DEF RowAtRest, RowsElsewhereKept, RowKept, RowInScan,
                                 InProgress
<1> QED BY <1>1, NothingMoves DEF markPiggyOrderManualReviewIfActive

(* A callback moves an open order to a status past the submission.         *)
LEMMA MarkedMove ==
    ASSUME NEW o \in Piggy, Ours(o), NEW s \in InProgress \cup Terminal,
           status[o] \notin Terminal, SetStatus(o, s),
           addPiggyApprovedSubmissionMarkers(o)
    PROVE  RowsElsewhereKept(o) /\ RowInScan(o)' /\ status'[o] = s
<1>0. s \in Statuses  BY DEF Statuses, InProgress, Terminal
<1>1. status'[o] = s /\ \A p \in Orders \ {o} : status'[p] = status[p]
  BY <1>0, StatusSet
<1>2. comp[o] # "manual_processed" /\ (comp[o] = "submit_recovering" => status[o] = "approved")
  BY RowTypes DEF RowInScan
<1>3. comp'[o] \in {"", "pending"}
  BY <1>2, MarkersSet, RowTypes DEF CompStatuses
<1>4. RowInScan(o)'
  BY <1>1, <1>3 DEF RowInScan, InProgress, Terminal
<1> QED BY <1>1, <1>4, MarkersSet DEF RowsElsewhereKept, RowKept

LEMMA CallbackReviewMoves ==
    ASSUME NEW o \in Piggy, Ours(o), status[o] \notin Terminal,
           markPiggyOrderManualReviewFromCallbackTx(o)
    PROVE  RowAtRest(o)
  BY MarkedMove DEF markPiggyOrderManualReviewFromCallbackTx, RowAtRest, InProgress

(* The other writes set status and compensation status of an order without *)
(* a trade number, or past the need of one.                                *)
LEMMA RowSet ==
    ASSUME NEW o \in Piggy, Ours(o), NEW s \in Statuses, SetStatus(o, s),
           UNCHANGED comp \/ \E c \in CompStatuses : SetComp(o, c),
           UNCHANGED ext \/ ext' = ext \cup {o}
    PROVE  RowsElsewhereKept(o) /\ status'[o] = s
<1>1. \A p \in Orders \ {o} : comp'[p] = comp[p]  BY CompSet
<1> QED BY <1>1, StatusSet DEF RowsElsewhereKept, RowKept

-----------------------------------------------------------------------------
(* The database steps are moves.                                           *)

DbMove(o) == RowMove(o) /\ WorkerMove(o)

LEMMA WorkersKept ==
    ASSUME NEW o \in Piggy, UNCHANGED wk
    PROVE  WorkerMove(o) /\ NoNewConfirm(o)
  BY DEF WorkerMove, NoNewConfirm, At

LEMMA OrderStepMoves ==
    ASSUME NEW o \in Piggy, Ours(o), OrderStep(o)
    PROVE  DbMove(o)
<1> USE DEF DbMove, RowMove
<1>0. RowInScan(o) /\ comp[o] \in CompStatuses
  BY RowTypes
<1>1. CASE SubmitPiggyWithdrawOrder(o)
  <2>1. /\ status[o] = "none" /\ RowsElsewhereKept(o) /\ status'[o] = "pending"
        /\ UNCHANGED <<comp, ext, wk>>
    BY <1>1, RowSet DEF SubmitPiggyWithdrawOrder, Statuses
  <2>2. RowInScan(o)'
    BY <2>1, <1>0 DEF RowInScan, Terminal
  <2> QED BY <2>1, <2>2, WorkersKept DEF BeforeClaim
<1>2. CASE rejectPiggyWithdrawOrder(o)
  <2>1. /\ status[o] = "pending" /\ RowsElsewhereKept(o) /\ status'[o] = "rejected"
        /\ UNCHANGED <<comp, ext, wk>>
    BY <1>2, RowSet DEF rejectPiggyWithdrawOrder, Statuses
  <2>2. RowInScan(o)'
    BY <2>1, <1>0 DEF RowInScan, Terminal
  <2> QED BY <2>1, <2>2, WorkersKept DEF BeforeClaim
<1>3. CASE recordPiggyManualReviewNote(o)
  <2>1. /\ status[o] = "manual_review" /\ UNCHANGED <<status, ext, wk>>
        /\ comp'[o] = "pending" /\ \A p \in Orders \ {o} : comp'[p] = comp[p]
    BY <1>3, CompSet DEF recordPiggyManualReviewNote, CompStatuses
  <2>2. RowInScan(o)' /\ RowsElsewhereKept(o)
    BY <2>1, <1>0 DEF RowInScan, RowsElsewhereKept, RowKept
  <2> QED BY <2>1, <2>2, WorkersKept DEF InProgress
<1>4. CASE markPiggyManualResultPaid(o) \/ failPiggyManualResultAndRelease(o)
  <2>1. /\ RowsElsewhereKept(o) /\ status'[o] \in {"paid", "failed"}
        /\ SetComp(o, "manual_processed") /\ UNCHANGED <<ext, wk>>
    BY <1>4, RowSet DEF markPiggyManualResultPaid, failPiggyManualResultAndRelease,
                        Statuses, CompStatuses
  <2>2. comp'[o] = "manual_processed"
    BY <2>1, CompSet DEF CompStatuses
  <2>3. RowInScan(o)'
    BY <2>1, <2>2 DEF RowInScan, Terminal
  <2> QED BY <2>1, <2>2, <2>3, WorkersKept
<1> QED BY <1>1, <1>2, <1>3, <1>4 DEF OrderStep

LEMMA StartStepMoves ==
    ASSUME NEW w \in Workers, NEW o \in Piggy, Ours(o), StartStep(w, o)
    PROVE  DbMove(o)
<1> USE DEF DbMove
<1>0. RowInScan(o) /\ comp[o] \in CompStatuses /\ WorkersOK /\ o \in Orders
  BY RowTypes
<1>a. ASSUME UNCHANGED <<status, rowVars>>, NEW pc \in PCs \ {"cancelled", "confirm"},
             NEW ctx \in Contexts, Start(w, o, pc, ctx)
      PROVE  DbMove(o)
  BY <1>a, <1>0, NothingMoves, MoveStart, AtRestMoves
<1>1. CASE approvePiggyWithdrawOrder(w, o)
  <2>1. /\ status[o] = "pending" /\ RowsElsewhereKept(o) /\ status'[o] = "approved"
        /\ UNCHANGED <<comp, ext>>
    BY <1>1, RowSet DEF approvePiggyWithdrawOrder, Statuses
  <2>2. RowInScan(o)'
    BY <2>1, <1>0 DEF RowInScan, Terminal
  <2>3. WorkerMove(o) /\ NoNewConfirm(o)
    BY <1>1, <1>0, MoveStart DEF approvePiggyWithdrawOrder, PCs, Contexts
  <2> QED BY <2>1, <2>2, <2>3 DEF RowMove, BeforeClaim
<1>2. CASE HandlePiggyPaymentCallback(w, o)
  <2>1. PICK c \in Notices(o), p \in Pretax :
           wk' = [wk EXCEPT ![w] = [Idle EXCEPT !.pc = "apply", !.o = o,
                                   !.ctx = "callback", !.msg = c, !.pretax = p]]
    BY <1>2 DEF HandlePiggyPaymentCallback
  <2> DEFINE x == [Idle EXCEPT !.pc = "apply", !.o = o, !.ctx = "callback",
                               !.msg = c, !.pretax = p]
  <2>2. c \in Contents /\ p \in {"ok", "bad"}
    BY PiggyConstants DEF Notices, Contents
  <2>3. x \in Worker /\ x.o = o /\ x.pc = "apply" /\ x.msg = c
    BY <2>2, <1>0, IdleIsWorker DEF Worker, PCs, Contexts
  <2>4. TrueTo(x, remote[o])
    <3>1. c \in {"success", "failure"} => remote[o] = c
      BY PiggyConstants DEF Notices
    <3> HIDE DEF x
    <3> QED BY <2>3, <3>1 DEF TrueTo
  <2> HIDE DEF x
  <2>5. WorkerMove(o) /\ NoNewConfirm(o)
    BY <2>1, <2>3, <2>4, <1>0, MoveSet DEF x
  <2> QED BY <1>2, <2>5, NothingMoves, AtRestMoves DEF HandlePiggyPaymentCallback
<1>3. CASE AdminRetryPiggyConfirm(w, o)
  BY <1>3, <1>a DEF AdminRetryPiggyConfirm, PCs, Contexts
<1>4. CASE AdminRecoverPiggyApprovedSubmission(w, o)
  <2>1. /\ status[o] = "approved" /\ UNCHANGED <<status, ext>>
        /\ comp'[o] = "submit_recovering" /\ \A p \in Orders \ {o} : comp'[p] = comp[p]
    BY <1>4, CompSet DEF AdminRecoverPiggyApprovedSubmission, CompStatuses
  <2>2. RowInScan(o)' /\ RowsElsewhereKept(o)
    BY <2>1, <1>0 DEF RowInScan, RowsElsewhereKept, RowKept
  <2>3. WorkerMove(o) /\ NoNewConfirm(o)
    BY <1>4, <1>0, MoveStart DEF AdminRecoverPiggyApprovedSubmission, PCs, Contexts
  <2> QED BY <2>1, <2>2, <2>3 DEF RowMove, BeforeClaim
<1>5. CASE ScanPiggyWithdrawCompensations(w, o)
  BY <1>5, <1>a DEF ScanPiggyWithdrawCompensations, PCs, Contexts
<1>6. CASE claimPiggyOrderForCancel(w, o)
  <2>1. /\ status[o] \in {"submitted", "await_confirm", "manual_review"}
        /\ RowsElsewhereKept(o) /\ status'[o] = "cancelling"
        /\ UNCHANGED <<comp, ext>>
    BY <1>6, RowSet DEF claimPiggyOrderForCancel, Statuses
  <2>2. RowInScan(o)'
    BY <2>1, <1>0 DEF RowInScan, Terminal
  <2>3. WorkerMove(o)
    BY <1>6, <1>0, MoveStart DEF claimPiggyOrderForCancel, PCs, Contexts
  <2> QED BY <2>1, <2>2, <2>3 DEF RowMove, InProgress
<1> QED BY <1>1, <1>2, <1>3, <1>4, <1>5, <1>6 DEF StartStep

LEMMA ContentStepMoves ==
    ASSUME NEW w \in Workers, NEW o \in Piggy, Ours(o), ContentStep(w, o)
    PROVE  DbMove(o)
<1> USE DEF DbMove
<1>0. WorkersOK /\ o \in Orders /\ RepliesAreTrue(o)
  BY RowTypes
<1>w. wk[w].o = o /\ TrueTo(wk[w], remote[o])
  BY <1>0 DEF ContentStep, At, markPiggyOrderAwaitConfirm, markPiggyOrderPaid, RepliesAreTrue,
         failPiggyOrderAndRelease, unknownContent, queryFailed, queryUndecided
<1>p. ASSUME NEW r \in {"proved", "unproved", "err", "notfound"}, Processed(w, r)
      PROVE  WorkerMove(o) /\ NoNewConfirm(o)
  BY <1>p, <1>0, <1>w, MoveProcessed DEF Replies, Results
<1>a. ASSUME RowAtRest(o), NEW r \in {"proved", "unproved", "err", "notfound"}, Processed(w, r)
      PROVE  DbMove(o)
  BY <1>a, <1>p, AtRestMoves
<1>1. CASE markPiggyOrderAwaitConfirm(w, o)
  <2>1. CASE UNCHANGED <<status, rowVars>> /\ Processed(w, "proved")
    BY <2>1, <1>a, NothingMoves
  <2>2. CASE /\ status[o] \notin Terminal
             /\ markPiggyOrderManualReviewFromCallbackTx(o)
             /\ Processed(w, "proved")
    BY <2>2, <1>a, CallbackReviewMoves
  <2>3. CASE /\ status[o] \notin Terminal
             /\ SetStatus(o, "await_confirm")
             /\ addPiggyApprovedSubmissionMarkers(o)
             /\ Goto(w, "claim")
    <3>1. RowsElsewhereKept(o) /\ RowInScan(o)' /\ status'[o] = "await_confirm"
      BY <2>3, MarkedMove DEF InProgress
    <3>2. WorkerMove(o)
      BY <2>3, <1>0, <1>w, MoveGoto DEF PCs
    <3> QED BY <3>1, <3>2 DEF RowMove, InProgress
  <2> QED BY <1>1, <2>1, <2>2, <2>3 DEF markPiggyOrderAwaitConfirm, Terminal
<1>2. CASE markPiggyOrderPaid(w, o)
  <2>1. CASE UNCHANGED <<status, rowVars>> /\ \E r \in {"proved", "err"} : Processed(w, r)
    BY <2>1, <1>a, NothingMoves
  <2>2. CASE /\ status[o] \notin Terminal
             /\ markPiggyOrderManualReviewFromCallbackTx(o)
             /\ Processed(w, "proved")
    BY <2>2, <1>a, CallbackReviewMoves
  <2>3. CASE /\ status[o] \notin Terminal
             /\ SetStatus(o, "paid")
             /\ addPiggyApprovedSubmissionMarkers(o)
             /\ Processed(w, "proved")
    <3>1. RowsElsewhereKept(o) /\ RowInScan(o)' /\ status'[o] = "paid"
      BY <2>3, MarkedMove DEF Terminal
    <3>2. remote[o] = "success"
      BY <1>2, <1>w DEF markPiggyOrderPaid, TrueTo
    <3> QED BY <2>3, <3>1, <3>2, <1>p DEF RowMove
  <2> QED BY <1>2, <2>1, <2>2, <2>3 DEF markPiggyOrderPaid
<1>3. CASE failPiggyOrderAndRelease(w, o)
  <2>0. Processed(w, "proved")
    BY <1>3 DEF failPiggyOrderAndRelease
  <2>1. CASE UNCHANGED <<status, rowVars>>
    BY <2>0, <2>1, <1>a, NothingMoves
  <2>2. CASE status[o] \notin Terminal /\ markPiggyOrderManualReviewFromCallbackTx(o)
    BY <2>0, <2>2, <1>a, CallbackReviewMoves
  <2>3. CASE /\ status[o] \notin Terminal
             /\ SetStatus(o, "failed")
             /\ addPiggyApprovedSubmissionMarkers(o)
    <3>1. RowsElsewhereKept(o) /\ RowInScan(o)' /\ status'[o] = "failed"
      BY <2>3, MarkedMove DEF Terminal
    <3>2. remote[o] \in {"failure", "cancelled"}
      BY <1>3, <1>w DEF failPiggyOrderAndRelease, TrueTo
    <3> QED BY <2>0, <3>1, <3>2, <1>p DEF RowMove
  <2> QED BY <1>3, <2>1, <2>2, <2>3 DEF failPiggyOrderAndRelease, Terminal
<1>4. CASE unknownContent(w, o)
  <2>1. RowAtRest(o)
    BY <1>4, ReviewMoves DEF unknownContent
  <2>2. \E r \in {"proved", "err"} : Processed(w, r)
    BY <1>4 DEF unknownContent
  <2> QED BY <2>1, <2>2, <1>a
<1>5. CASE queryFailed(w, o)
  <2>1. RowAtRest(o)
    BY <1>5, ReviewMoves DEF queryFailed
  <2>2. \E r \in {"unproved", "err", "notfound"} : Processed(w, r)
    BY <1>5 DEF queryFailed
  <2> QED BY <2>1, <2>2, <1>a
<1>6. CASE queryUndecided(w, o)
  <2>1. RowAtRest(o)
    BY <1>6, NothingMoves DEF queryUndecided
  <2>2. \E r \in {"unproved", "err"} : Processed(w, r)
    BY <1>6 DEF queryUndecided
  <2> QED BY <2>1, <2>2, <1>a
<1> QED BY <1>1, <1>2, <1>3, <1>4, <1>5, <1>6 DEF ContentStep

(* The results of the calls, each recorded only where the compare-and-set  *)
(* finds the status the call was made for.                                 *)
LEMMA OutcomeStepMoves ==
    ASSUME NEW w \in Workers, NEW o \in Piggy, Ours(o), OutcomeStep(w, o)
    PROVE  DbMove(o)
<1> USE DEF DbMove
<1>0. /\ WorkersOK /\ o \in Orders /\ RepliesAreTrue(o) /\ RowInScan(o)
      /\ comp[o] \in CompStatuses
  BY RowTypes
<1>w. wk[w].o = o /\ TrueTo(wk[w], remote[o])
  BY <1>0 DEF OutcomeStep, At, After, RepliesAreTrue,
              submitAccepted, failPiggySubmittedOrderAndRelease, submitUnknown,
              submitDuplicate, claimPiggyOrderForConfirm, confirmPiggyOrder,
              cancelPiggyOrderAndRelease, finishPiggyCallbackLog, scanFinished,
              markExpiredPiggyCancellingManualReview, duplicateUnresolved,
              recoverResubmit, recoverUndecided
<1>p. ASSUME NEW r \in {"proved", "unproved", "err", "notfound"}, Processed(w, r)
      PROVE  WorkerMove(o) /\ NoNewConfirm(o)
  BY <1>p, <1>0, <1>w, MoveProcessed DEF Replies, Results
<1>d. ASSUME Done(w)  PROVE WorkerMove(o) /\ NoNewConfirm(o)
  BY <1>d, <1>0, MoveDone
<1>r. ASSUME RowAtRest(o), Done(w)  PROVE DbMove(o)
  BY <1>r, <1>d, AtRestMoves
<1>u. ASSUME UNCHANGED <<status, rowVars>>  PROVE RowAtRest(o)
  BY <1>u, NothingMoves
<1>s. ASSUME markPiggyOrderSubmitRecoverable(o)
      PROVE  /\ RowsElsewhereKept(o) /\ RowInScan(o)' /\ status' = status
             /\ status[o] \in BeforeClaim \/ RowAtRest(o)
  <2>1. CASE status[o] = "approved" /\ SetComp(o, "pending") /\ UNCHANGED <<status, ext>>
    <3>1. comp'[o] = "pending" /\ \A p \in Orders \ {o} : comp'[p] = comp[p]
      BY <2>1, CompSet DEF CompStatuses
    <3> QED BY <2>1, <3>1, <1>0 DEF RowInScan, RowsElsewhereKept, RowKept, BeforeClaim
  <2>2. CASE UNCHANGED <<status, rowVars>>
    BY <2>2, <1>u DEF RowAtRest, rowVars
  <2> QED BY <1>s, <2>1, <2>2 DEF markPiggyOrderSubmitRecoverable
<1>1. CASE submitAccepted(w, o)
  <2>0. Done(w)  BY <1>1 DEF submitAccepted
  <2>1. CASE /\ status[o] = "approved" /\ SetStatus(o, "submitted") /\ SetComp(o, "")
             /\ ext' = ext \cup {o}
    <3>1. RowsElsewhereKept(o) /\ status'[o] = "submitted" /\ comp'[o] = ""
      BY <2>1, RowSet, CompSet DEF Statuses, CompStatuses
    <3>2. RowInScan(o)'
      BY <3>1 DEF RowInScan
    <3> QED BY <2>0, <2>1, <3>1, <3>2, <1>d DEF RowMove, BeforeClaim
  <2> QED BY <1>1, <2>0, <2>1, <1>u, <1>r DEF submitAccepted
<1>2. CASE failPiggySubmittedOrderAndRelease(w, o)
  <2>0. Done(w)  BY <1>2 DEF failPiggySubmittedOrderAndRelease
  <2>1. CASE /\ status[o] = "approved" /\ SetStatus(o, "failed") /\ SetComp(o, "")
             /\ UNCHANGED ext
    <3>1. RowsElsewhereKept(o) /\ status'[o] = "failed" /\ comp'[o] = ""
      BY <2>1, RowSet, CompSet DEF Statuses, CompStatuses
    <3>2. RowInScan(o)'
      BY <3>1 DEF RowInScan
    <3> QED BY <2>0, <2>1, <3>1, <3>2, <1>d DEF RowMove, BeforeClaim
  <2> QED BY <1>2, <2>0, <2>1, <1>u, <1>r DEF failPiggySubmittedOrderAndRelease
<1>3. CASE submitUnknown(w, o)
  <2>1. Done(w) /\ markPiggyOrderSubmitRecoverable(o)
    BY <1>3 DEF submitUnknown
  <2> QED BY <2>1, <1>s, <1>d, <1>r DEF RowMove
<1>4. CASE submitDuplicate(w, o)
  <2> DEFINE x == [wk[w] EXCEPT !.pc = "query", !.ctx = "dup"]
  <2>0. wk[w] \in Worker  BY <1>0 DEF WorkersOK
  <2>1. x.o = o /\ x.pc = "query" /\ x.msg = wk[w].msg /\ x \in Worker
    BY <2>0, <1>w DEF Worker, PCs, Contexts
  <2>2. wk' = [wk EXCEPT ![w] = x]
    BY <1>4, <1>0 DEF submitDuplicate, WorkersOK
  <2>3. TrueTo(x, remote[o])  BY <2>1, <1>w DEF TrueTo
  <2> HIDE DEF x
  <2>4. WorkerMove(o) /\ NoNewConfirm(o)
    BY <2>1, <2>2, <2>3, <1>0, MoveSet
  <2> QED BY <1>4, <2>4, <1>u, AtRestMoves DEF submitDuplicate
<1>5. CASE claimPiggyOrderForConfirm(w, o)
  <2>1. CASE /\ status[o] = "await_confirm" /\ SetStatus(o, "confirming")
             /\ Goto(w, "confirm") /\ UNCHANGED <<comp, ext>>
    <3>1. RowsElsewhereKept(o) /\ status'[o] = "confirming"
      BY <2>1, RowSet DEF Statuses
    <3>2. RowInScan(o)'
      BY <2>1, <3>1, <1>0 DEF RowInScan, Terminal
    <3>3. WorkerMove(o)
      BY <2>1, <1>0, <1>w, MoveGoto DEF PCs
    <3> QED BY <3>1, <3>2, <3>3 DEF RowMove, InProgress
  <2>2. CASE /\ \E r \in {"err", "proved"} : Processed(w, r)
             /\ UNCHANGED <<status, rowVars>>
    BY <2>2, <1>p, <1>u, AtRestMoves
  <2> QED BY <1>5, <2>1, <2>2 DEF claimPiggyOrderForConfirm
<1>6. CASE confirmPiggyOrder(w, o)
  <2>0. \E r \in {"err", "proved"} : Processed(w, r)
    BY <1>6 DEF confirmPiggyOrder
  <2>1. CASE /\ status[o] = "confirming" /\ SetStatus(o, "confirmed")
             /\ UNCHANGED <<comp, ext>>
    <3>1. RowsElsewhereKept(o) /\ status'[o] = "confirmed"
      BY <2>1, RowSet DEF Statuses
    <3>2. RowInScan(o)'
      BY <2>1, <3>1, <1>0 DEF RowInScan, Terminal
    <3> QED BY <2>0, <3>1, <3>2, <1>p DEF RowMove, InProgress
  <2>2. CASE UNCHANGED <<status, rowVars>>
    BY <2>0, <2>2, <1>u, <1>p, AtRestMoves
  <2>3. CASE markPiggyOrderManualReviewIfActive(o, {"confirming"})
    BY <2>0, <2>3, ReviewMoves, <1>p, AtRestMoves
  <2> QED BY <1>6, <2>1, <2>2, <2>3 DEF confirmPiggyOrder
<1>7. CASE cancelPiggyOrderAndRelease(w, o)
  <2>0. Done(w)  BY <1>7 DEF cancelPiggyOrderAndRelease
  <2>1. CASE /\ wk[w].resp = "ok" /\ status[o] = "cancelling"
             /\ SetStatus(o, "cancelled") /\ UNCHANGED <<comp, ext>>
    <3>1. RowsElsewhereKept(o) /\ status'[o] = "cancelled"
      BY <2>1, RowSet DEF Statuses
    <3>2. RowInScan(o)'
      BY <2>1, <3>1, <1>0 DEF RowInScan, Terminal
    <3>3. remote[o] = "cancelled"
      BY <1>7, <2>1, <1>w DEF cancelPiggyOrderAndRelease, At, TrueTo
    <3> QED BY <2>0, <3>1, <3>2, <3>3, <1>d DEF RowMove
  <2>2. CASE UNCHANGED <<status, rowVars>>
    BY <2>0, <2>2, <1>u, <1>r
  <2>3. CASE markPiggyOrderManualReviewIfActive(o, {"cancelling"})
    BY <2>0, <2>3, ReviewMoves, <1>r
  <2> QED BY <1>7, <2>1, <2>2, <2>3 DEF cancelPiggyOrderAndRelease
<1>8. CASE finishPiggyCallbackLog(w, o) \/ scanFinished(w, o)
  BY <1>8, <1>u, <1>r DEF finishPiggyCallbackLog, scanFinished
<1>9. CASE markExpiredPiggyCancellingManualReview(w, o)
  BY <1>9, <1>u, <1>r, ReviewMoves DEF markExpiredPiggyCancellingManualReview
<1>10. CASE duplicateUnresolved(w, o)
  BY <1>10, <1>r, ReviewMoves DEF duplicateUnresolved
<1>11. CASE recoverResubmit(w, o)
  <2>1. CASE Done(w)
    BY <1>11, <2>1, <1>u, <1>r DEF recoverResubmit
  <2>2. CASE wk' = [wk EXCEPT ![w] = [Idle EXCEPT !.pc = "submit", !.o = o,
                                                  !.ctx = "approve"]]
    <3> DEFINE x == [Idle EXCEPT !.pc = "submit", !.o = o, !.ctx = "approve"]
    <3>1. x \in Worker /\ x.o = o /\ x.pc = "submit" /\ x.msg = "none"
      BY <1>0, IdleIsWorker, IdleFields DEF Worker, PCs, Contexts
    <3>2. TrueTo(x, remote[o])
      <4> HIDE DEF x
      <4> QED BY <3>1 DEF TrueTo
    <3> HIDE DEF x
    <3>3. WorkerMove(o) /\ NoNewConfirm(o)
      BY <2>2, <3>1, <3>2, <1>0, MoveSet DEF x
    <3> QED BY <1>11, <3>3, <1>u, AtRestMoves DEF recoverResubmit
  <2> QED BY <1>11, <2>1, <2>2 DEF recoverResubmit
<1>12. CASE recoverUndecided(w, o)
  <2>0. Done(w)  BY <1>12 DEF recoverUndecided
  <2>1. CASE markPiggyOrderManualReviewIfActive(o, {"approved"})
    BY <2>0, <2>1, ReviewMoves, <1>r
  <2>2. CASE markPiggyOrderSubmitRecoverable(o)
    BY <2>0, <2>2, <1>s, <1>d, <1>r DEF RowMove
  <2> QED BY <1>12, <2>1, <2>2 DEF recoverUndecided
<1> QED BY <1>1, <1>2, <1>3, <1>4, <1>5, <1>6, <1>7, <1>8, <1>9, <1>10, <1>11, <1>12
        DEF OutcomeStep

-----------------------------------------------------------------------------
(* The HTTP calls and the provider.                                        *)

(* A step on the provider's side of order o, answered or not: no row       *)
(* moves, a new request to pay comes only from a worker that was at it,    *)
(* and the answer the worker takes away is true.                           *)
ProviderStep(o) ==
    /\ \A p \in Orders : RowKept(p)
    /\ \A p \in Orders \ {o} : remote'[p] = remote[p]
    /\ RemoteMove(o)
    /\ \A p \in Orders : <<"confirm", p>> \in late' =>
                            \/ <<"confirm", p>> \in late
                            \/ p = o /\ ~Unconfirmed(o)
    /\ \A v \in Workers :
          \/ wk'[v] = wk[v]
          \/ /\ wk'[v].o \in {o, NoOrder}
             /\ wk'[v].pc # "confirm"
             /\ wk'[v].o = o => TrueTo(wk'[v], remote'[o])

LEMMA ProviderStepKeeps ==
    ASSUME NEW o \in Piggy, ProtocolInv, ProviderStep(o)
    PROVE  ProtocolInv'
<1>1. ASSUME NEW p \in Piggy, p # o  PROVE OrderInv(p)'
  <2>1. \A v \in Workers : wk'[v].o = p => wk'[v] = wk[v]
    BY <1>1, PiggyConstants DEF ProviderStep
  <2>2. RowKept(p) /\ remote'[p] = remote[p]
        /\ (<<"confirm", p>> \in late' => <<"confirm", p>> \in late)
    BY <1>1 DEF ProviderStep
  <2> QED BY <2>1, <2>2, FrameOfOrder DEF ProtocolInv
<1>2. OrderInv(o)'
  <2>0. OrderInv(o) /\ RowKept(o) /\ RemoteMove(o)
    BY DEF ProtocolInv, ProviderStep
  <2>1. RowInScan(o)'
    BY <2>0 DEF OrderInv, RowInScan, RowKept
  <2>2. RepliesAreTrue(o)'
    <3> SUFFICES ASSUME NEW v \in Workers, wk'[v].o = o
                 PROVE  TrueTo(wk'[v], remote'[o])
      BY DEF RepliesAreTrue
    <3>1. CASE wk'[v] = wk[v]
      BY <3>1, <2>0 DEF OrderInv, RepliesAreTrue, TrueTo, RemoteMove
    <3> QED BY <3>1 DEF ProviderStep
  <2>3. Unconfirmed(o) => Unconfirmed(o)'
    BY <2>0 DEF ProviderStep, RemoteMove, Unconfirmed, At
  <2>4. ResultHolds(o)'
    BY <2>0, <2>3 DEF OrderInv, ResultHolds, RowKept, Paid, Released, RemoteMove
  <2> QED BY <2>1, <2>2, <2>4 DEF OrderInv
<1> QED BY <1>1, <1>2 DEF ProtocolInv

(* What a request does to the provider, whatever its state: it never       *)
(* undoes a result, only a confirmation leads to a payment, and a          *)
(* successful cancellation leaves the order cancelled.                     *)
LEMMA OutcomesMeaning ==
    ASSUME NEW op \in {"submit", "confirm", "cancel"}, NEW r \in RemoteStates,
           NEW out \in Outcomes(op, r)
    PROVE  /\ r \in {"success", "failure", "cancelled"} => out[2] = r
           /\ out[2] \in {"paying", "success"} =>
                 r \in {"paying", "success"} \/ op = "confirm"
           /\ op = "cancel" /\ out[1] = "ok" => out[2] = "cancelled"
<1>1. CASE op = "submit"
  BY <1>1 DEF Outcomes, SubmitOutcomes, RemoteStates
<1>2. CASE op = "confirm"
  BY <1>2 DEF Outcomes, ConfirmOutcomes, RemoteStates
<1>3. CASE op = "cancel"
  BY <1>3 DEF Outcomes, CancelOutcomes, RemoteStates
<1> QED BY <1>1, <1>2, <1>3

LEMMA RowsKeptAll ==
    ASSUME UNCHANGED <<status, comp, ext>>
    PROVE  \A p \in Orders : RowKept(p)
  BY DEF RowKept

LEMMA CallIsProviderStep ==
    ASSUME NEW w \in Workers, NEW o \in Piggy, Ours(o),
           NEW op \in {"submit", "confirm", "cancel"},
           NEW next \in PCs \ {"confirm"},
           next = "cancelled" => op = "cancel",
           op = "confirm" => At(w, o, "confirm"),
           wk[w].o = o, Call(w, o, op, next), UNCHANGED <<status, comp, ext>>
    PROVE  ProviderStep(o)
<1>0. /\ WorkersOK /\ o \in Orders /\ RepliesAreTrue(o) /\ wk[w] \in Worker
      /\ TrueTo(wk[w], remote[o])
  BY RowTypes DEF WorkersOK, RepliesAreTrue
<1>t. /\ remote \in [Orders -> RemoteStates] /\ remote[o] \in RemoteStates
      /\ late \subseteq {"submit", "confirm", "cancel"} \X Orders
  BY <1>0 DEF Ours, RemoteOK
<1>g. ASSUME NEW r \in Replies, GotoWith(w, next, r)
      PROVE  /\ wk'[w].o = o /\ wk'[w].msg = wk[w].msg /\ wk'[w].pc = next /\ wk'[w].resp = r
             /\ \A v \in Workers \ {w} : wk'[v] = wk[v]
  BY <1>g, <1>0 DEF GotoWith, WorkersOK, Worker
<1>1. CASE \E out \in Outcomes(op, remote[o]) :
              /\ remote' = [remote EXCEPT ![o] = out[2]]
              /\ GotoWith(w, next, out[1]) \/ GotoWith(w, next, "unknown")
              /\ UNCHANGED late
  <2>1. PICK out \in Outcomes(op, remote[o]) :
              /\ remote' = [remote EXCEPT ![o] = out[2]]
              /\ GotoWith(w, next, out[1]) \/ GotoWith(w, next, "unknown")
              /\ UNCHANGED late
    BY <1>1
  <2>2. remote'[o] = out[2] /\ \A p \in Orders \ {o} : remote'[p] = remote[p]
    BY <2>1, <1>t, <1>0
  <2>3. RemoteMove(o)
    BY <2>2, <1>t, OutcomesMeaning DEF RemoteMove, Unconfirmed
  <2>4. out[1] \in Replies
    BY <1>t, OutcomesTyped
  <2>5. /\ wk'[w].o = o /\ wk'[w].msg = wk[w].msg /\ wk'[w].pc = next
        /\ wk'[w].resp \in {out[1], "unknown"}
        /\ \A v \in Workers \ {w} : wk'[v] = wk[v]
    BY <2>1, <2>4, <1>g DEF Replies
  <2>6. wk'[w].pc = "cancelled" /\ wk'[w].resp = "ok" => remote'[o] = "cancelled"
    BY <2>2, <2>5, <1>t, OutcomesMeaning
  <2>7. TrueTo(wk'[w], remote'[o])
    BY <2>3, <2>5, <2>6, <1>0 DEF TrueTo, RemoteMove
  <2> QED BY <2>1, <2>2, <2>3, <2>5, <2>7, RowsKeptAll DEF ProviderStep
<1>2. CASE /\ late' = late \cup {<<op, o>>}
           /\ GotoWith(w, next, "unknown")
           /\ UNCHANGED remote
  <2>1. /\ wk'[w].o = o /\ wk'[w].msg = wk[w].msg /\ wk'[w].pc = next
        /\ wk'[w].resp = "unknown"
        /\ \A v \in Workers \ {w} : wk'[v] = wk[v]
    BY <1>2, <1>g DEF Replies
  <2>2. TrueTo(wk'[w], remote'[o])
    BY <1>2, <2>1, <1>0 DEF TrueTo
  <2>3. RemoteMove(o)
    BY <1>2 DEF RemoteMove, Unconfirmed
  <2>4. ASSUME NEW p \in Orders, <<"confirm", p>> \in late', <<"confirm", p>> \notin late
        PROVE  p = o /\ ~Unconfirmed(o)
    <3>1. <<"confirm", p>> = <<op, o>>
      BY <1>2, <2>4
    <3>2. p = o /\ op = "confirm"
      BY <3>1
    <3> QED BY <3>2 DEF Unconfirmed
  <2> QED BY <1>2, <2>1, <2>2, <2>3, <2>4, RowsKeptAll DEF ProviderStep
<1> QED BY <1>1, <1>2 DEF Call

LEMMA HttpIsProviderStep ==
    ASSUME NEW w \in Workers, NEW o \in Piggy, Ours(o), HttpStep(w, o)
    PROVE  ProviderStep(o)
<1>0. UNCHANGED <<status, comp, ext>>
  BY DEF HttpStep, ledgerVars, rowVars
<1>1. CASE SingleOrderSubmit(w, o)
  BY <1>0, <1>1, CallIsProviderStep DEF SingleOrderSubmit, PCs, At
<1>2. CASE SingleOrderConfirmPay(w, o)
  BY <1>0, <1>2, CallIsProviderStep DEF SingleOrderConfirmPay, PCs, At
<1>3. CASE SingleOrderCancel(w, o)
  BY <1>0, <1>3, CallIsProviderStep DEF SingleOrderCancel, PCs, At
<1>4. CASE SingleOrderQuery(w, o)
  <2>1. PICK c \in QueryReplies(remote[o]), p \in Pretax :
           wk' = [wk EXCEPT ![w].pc = "apply", ![w].msg = c, ![w].pretax = p]
    BY <1>4 DEF SingleOrderQuery
  <2>2. wk[w] \in Worker /\ wk[w].o = o /\ WorkersOK /\ remote[o] \in RemoteStates
    BY <1>4, RowTypes DEF WorkersOK, SingleOrderQuery, At, Ours, RemoteOK
  <2>3. /\ wk'[w].o = o /\ wk'[w].pc = "apply" /\ wk'[w].msg = c
        /\ \A v \in Workers \ {w} : wk'[v] = wk[v]
    BY <2>1, <2>2 DEF WorkersOK, Worker
  <2>4. c = "success" => remote[o] = "success"
    BY <2>2, PiggyConstants DEF QueryReplies, RemoteStates
  <2>5. c = "failure" => remote[o] \in {"failure", "cancelled"}
    BY <2>2, PiggyConstants DEF QueryReplies, RemoteStates
  <2>6. UNCHANGED <<remote, late>>
    BY <1>4 DEF SingleOrderQuery
  <2>7. TrueTo(wk'[w], remote'[o])
    BY <2>3, <2>4, <2>5, <2>6 DEF TrueTo
  <2>8. RemoteMove(o)
    BY <2>6 DEF RemoteMove, Unconfirmed
  <2> QED BY <2>3, <2>6, <2>7, <2>8, <1>0, RowsKeptAll DEF ProviderStep
<1> QED BY <1>1, <1>2, <1>3, <1>4 DEF HttpStep

LEMMA EnvKeeps ==
    ASSUME SInv, ProtocolInv, EnvStep
    PROVE  ProtocolInv'
<1> LedgerTypeOK /\ RowsOK /\ WorkersOK /\ RemoteOK
  BY TypeParts DEF SInv
<1>a. remote \in [Orders -> RemoteStates]
  BY DEF RemoteOK
<1>1. ASSUME NEW o \in Piggy, RemoteReject(o) \/ RemoteSettle(o)
      PROVE  ProtocolInv'
  <2>1. PICK s \in {"success", "failure"} :
           /\ remote' = [remote EXCEPT ![o] = s]
           /\ (remote[o] = "await" /\ s = "failure") \/ remote[o] = "paying"
    BY <1>1 DEF RemoteReject, RemoteSettle
  <2>2. RemoteMove(o) /\ \A p \in Orders \ {o} : remote'[p] = remote[p]
    BY <2>1, <1>a DEF RemoteMove, Unconfirmed
  <2>3. UNCHANGED <<status, comp, ext, wk, late>>
    BY <1>1 DEF RemoteReject, RemoteSettle, ledgerVars, rowVars
  <2>4. ProviderStep(o)
    BY <2>2, <2>3, RowsKeptAll DEF ProviderStep
  <2> QED BY <2>4, ProviderStepKeeps
<1>2. ASSUME NEW o \in Piggy, LeaseExpires(o)
      PROVE  ProtocolInv'
  <2>1. UNCHANGED <<status, comp, ext, wk, remote, late>>
    BY <1>2 DEF LeaseExpires, ledgerVars, remoteVars
  <2>2. ProviderStep(o)
    BY <2>1, RowsKeptAll DEF ProviderStep, RemoteMove, Unconfirmed
  <2> QED BY <2>2, ProviderStepKeeps
<1>3. ASSUME NEW o \in Piggy, NEW op \in {"submit", "confirm", "cancel"}, LateArrival(o, op)
      PROVE  ProtocolInv'
  <2>1. PICK out \in Outcomes(op, remote[o]) : remote' = [remote EXCEPT ![o] = out[2]]
    BY <1>3 DEF LateArrival
  <2>2. /\ UNCHANGED <<status, comp, ext, wk>> /\ late' \subseteq late
        /\ op = "confirm" => <<"confirm", o>> \in late
    BY <1>3 DEF LateArrival, ledgerVars, rowVars
  <2>3. remote'[o] = out[2] /\ \A p \in Orders \ {o} : remote'[p] = remote[p]
    BY <2>1, <1>a
  <2>4. RemoteMove(o)
    BY <2>2, <2>3, <1>a, OutcomesMeaning DEF RemoteMove, Unconfirmed
  <2>5. ProviderStep(o)
    BY <2>2, <2>3, <2>4, RowsKeptAll DEF ProviderStep
  <2> QED BY <2>5, ProviderStepKeeps
<1>4. ASSUME NEW w \in Workers, Crash(w)
      PROVE  ProtocolInv'
  <2>1. UNCHANGED <<status, comp, ext, remote, late>> /\ wk' = [wk EXCEPT ![w] = Idle]
    BY <1>4 DEF Crash, Done, ledgerVars, rowVars, remoteVars
  <2>2. \A v \in Workers : wk'[v] = wk[v] \/ wk'[v].o = NoOrder
    BY <2>1, IdleFields DEF WorkersOK
  <2>3. ASSUME NEW p \in Piggy  PROVE OrderInv(p)'
    <3>1. \A v \in Workers : wk'[v].o = p => wk'[v] = wk[v]
      BY <2>2, PiggyConstants
    <3>2. RowKept(p)  BY <2>1, RowsKeptAll
    <3> QED BY <2>1, <3>1, <3>2, FrameOfOrder DEF ProtocolInv
  <2> QED BY <2>3 DEF ProtocolInv
<1> QED BY <1>1, <1>2, <1>3, <1>4 DEF EnvStep

-----------------------------------------------------------------------------
(* The theorem.                                                            *)

(* The manual channel and the wallet never touch an order of the piggy     *)
(* channel: the admin routes take any id, the guards on the provider keep  *)
(* them apart.                                                             *)
LEMMA ManualElsewhere ==
    ASSUME LedgerTypeOK, ManualNext \/ WalletNext, NEW p \in Piggy
    PROVE  status'[p] = status[p]
<1>1. ASSUME NEW o \in Orders, o \in Manual, NEW s, SetStatus(o, s)
      PROVE  status'[p] = status[p]
  BY <1>1 DEF SetStatus, LedgerTypeOK, OrderStatuses
<1>2. CASE ManualNext
  BY <1>1, <1>2 DEF ManualNext, SubmitWithdrawOrder, ApproveWithdrawOrder,
        RejectWithdrawOrder, MarkWithdrawOrderPaid, MarkWithdrawOrderFailed
<1>3. CASE WalletNext
  BY <1>3 DEF WalletNext, CreditCommission, ReverseCommission, TransferCommissionToBalance
<1> QED BY <1>2, <1>3

LEMMA ProtocolInit == Init => ProtocolInv
<1> SUFFICES ASSUME Init, NEW o \in Piggy PROVE OrderInv(o)
  BY DEF ProtocolInv
<1>1. /\ status[o] = "none" /\ comp[o] = "" /\ o \notin ext /\ remote[o] = "none"
      /\ late = {} /\ \A w \in Workers : wk[w] = Idle
  BY DEF Init, LedgerInit
<1>2. RowInScan(o)
  BY <1>1 DEF RowInScan
<1>3. RepliesAreTrue(o) /\ Unconfirmed(o)
  BY <1>1, IdleFields DEF RepliesAreTrue, TrueTo, Unconfirmed, At
<1>4. ResultHolds(o)
  BY <1>1, <1>3 DEF ResultHolds, Paid, Released
<1> QED BY <1>2, <1>3, <1>4 DEF OrderInv

LEMMA ProtocolStep ==
    ASSUME SInv, ProtocolInv, [Next]_vars
    PROVE  ProtocolInv'
<1> LedgerTypeOK /\ RowsOK /\ WorkersOK /\ RemoteOK
  BY TypeParts DEF SInv
<1>0. \A o \in Piggy : Ours(o)
  BY DEF Ours, ProtocolInv
<1>1. CASE DbStep
  <2>1. PICK o \in Piggy :
           \/ OrderStep(o)
           \/ \E w \in Workers : StartStep(w, o) \/ ContentStep(w, o) \/ OutcomeStep(w, o)
    BY <1>1 DEF DbStep
  <2>2. DbMove(o)
    BY <2>1, <1>0, OrderStepMoves, StartStepMoves, ContentStepMoves, OutcomeStepMoves
  <2>3. UNCHANGED <<remote, late>>
    BY <1>1 DEF DbStep, remoteVars
  <2> QED BY <2>2, <2>3, DbMoveKeeps DEF DbMove
<1>2. ASSUME NEW w \in Workers, NEW o \in Piggy, HttpStep(w, o)
      PROVE  ProtocolInv'
  BY <1>0, <1>2, HttpIsProviderStep, ProviderStepKeeps
<1>3. CASE EnvStep
  BY <1>3, EnvKeeps
<1>4. CASE (ManualNext \/ WalletNext) /\ UNCHANGED piggyVars
  <2>1. UNCHANGED <<comp, ext, wk, remote, late>>
    BY <1>4 DEF piggyVars
  <2>2. ASSUME NEW p \in Piggy  PROVE OrderInv(p)'
    <3>1. RowKept(p)
      BY <1>4, <2>1, ManualElsewhere DEF RowKept
    <3> QED BY <2>1, <3>1, FrameOfOrder DEF ProtocolInv
  <2> QED BY <2>2 DEF ProtocolInv
<1>5. CASE UNCHANGED vars
  <2>1. UNCHANGED <<status, comp, ext, wk, remote, late>>
    BY <1>5 DEF vars, ledgerVars, piggyVars
  <2>2. ASSUME NEW p \in Piggy  PROVE OrderInv(p)'
    <3>1. RowKept(p)  BY <2>1, RowsKeptAll
    <3> QED BY <2>1, <3>1, FrameOfOrder DEF ProtocolInv
  <2> QED BY <2>2 DEF ProtocolInv
<1> QED BY <1>1, <1>2, <1>3, <1>4, <1>5 DEF Next

(* The inductive invariant holds in every behaviour: the results workers   *)
(* hold are true whatever has happened since they were read, and no        *)
(* request to pay exists before the claim of claimPiggyOrderForConfirm.    *)
THEOREM ProtocolAlways == Spec => []ProtocolInv
<1>1. SInv /\ ProtocolInv /\ [Next]_vars => ProtocolInv'
  BY ProtocolStep
<1> QED BY <1>1, ProtocolInit, AlwaysSInv, PTL DEF Spec

(* Commission that failPiggyOrderAndRelease, cancelPiggyOrderAndRelease, a *)
(* refused submission or a rejection gave back is never also paid by the   *)
(* provider: not by a stale reply, a late confirm request or a crashed     *)
(* worker, for any number of them.                                         *)
THEOREM ReleasedIsNotPaid == Spec => []NoPayoutAfterRelease
<1>1. ProtocolInv => NoPayoutAfterRelease
  BY DEF ProtocolInv, NoPayoutAfterRelease, OrderInv, ResultHolds, Unconfirmed
<1> QED BY <1>1, ProtocolAlways, PTL

(* markPiggyOrderPaid books an order as paid only when the provider has    *)
(* paid it, however old the notification or the query reply it acts on.    *)
THEOREM PaidWasPaid == Spec => []PaidMeansPaid
<1>1. ProtocolInv => PaidMeansPaid
  BY DEF ProtocolInv, PaidMeansPaid, OrderInv, ResultHolds
<1> QED BY <1>1, ProtocolAlways, PTL

(* Until claimPiggyOrderForConfirm has succeeded for an order, no request  *)
(* to pay it has been sent, is under way or can be sent by any worker.     *)
THEOREM ClaimComesFirst == Spec => []NoPaymentBeforeClaim
<1>1. ASSUME ProtocolInv, NEW o \in Piggy,
             status[o] \in {"none", "pending", "approved", "submitted"}
      PROVE  Unconfirmed(o)
  BY <1>1 DEF ProtocolInv, OrderInv, ResultHolds, RowInScan, BeforeClaim, Terminal
<1>2. ProtocolInv => NoPaymentBeforeClaim
  BY <1>1 DEF NoPaymentBeforeClaim, Unconfirmed
<1> QED BY <1>2, ProtocolAlways, PTL

(* Whatever happens to the worker that held it, an open order stays within *)
(* the filters of ScanPiggyWithdrawCompensations and of the recovery of    *)
(* approved orders.                                                        *)
THEOREM ScanReachesAll == Spec => []NoOrderOutsideScan
<1>1. ProtocolInv => NoOrderOutsideScan
  BY DEF ProtocolInv, NoOrderOutsideScan, OrderInv, RowInScan
<1> QED BY <1>1, ProtocolAlways, PTL
=============================================================================
