---------------------------- MODULE PiggyWithdraw ---------------------------
(***************************************************************************)
(* Withdrawals paid through the external labour-settlement provider        *)
(* ("piggy", service/piggy_withdraw.go), together with the manual channel  *)
(* that shares its tables.                                                 *)
(*                                                                         *)
(* A worker is one goroutine of the gateway: an admin request, a provider  *)
(* callback, or the compensation scan.  Every database transaction (or     *)
(* single guarded UPDATE) and every HTTP call is one step; between two     *)
(* steps other workers run, and a worker may disappear (Crash).  What a    *)
(* worker has read, its continuation and the reply it holds, lives in wk,  *)
(* so a step may act on a reply that is long out of date.                  *)
(*                                                                         *)
(* The provider is external: it is modelled from the replies the code      *)
(* distinguishes.  A request may be executed and answered, executed with   *)
(* the answer lost, or time out and be executed later or never.  Callbacks *)
(* are delivered in any order, any number of times, or not at all.         *)
(***************************************************************************)
EXTENDS ManualWithdraw

CONSTANTS Workers, NoOrder,
          Noise,      \* replies to a query that decide nothing
          Pretax,     \* {"ok"} or {"ok", "bad"}: the notified pretax amount
          Timely,     \* does a lease outlive the HTTP calls made under it
          MaxFaults   \* bound on crashes plus lost replies in a behaviour

ASSUME PiggyConstants ==
    /\ NoOrder \notin Orders
    /\ Noise \subseteq {"other", "untyped", "empty", "invalid", "err"}
    /\ Pretax \subseteq {"ok", "bad"}
    /\ Timely \in BOOLEAN
    /\ MaxFaults \in Nat

VARIABLES comp,    \* withdraw_orders.compensation_status
          ext,     \* orders with a non-empty external_trade_no
          fresh,   \* orders whose updated_at is younger than the lease
          log,     \* callback log: keys with process_status = success
          wk,      \* the workers
          remote,  \* the provider's state of each order
          late,    \* requests that timed out here but may still arrive there
          faults   \* crashes and lost replies so far

rowVars    == <<comp, ext, fresh>>
remoteVars == <<remote, late>>
piggyVars  == <<comp, ext, fresh, log, wk, remote, late, faults>>
vars       == <<ledgerVars, piggyVars>>

-----------------------------------------------------------------------------
(* Workers.                                                                *)

Contexts == {"callback", "scan", "cancel_scan", "recover", "dup", "approve"}

PCs == {"idle", "submit", "submitted", "query", "apply", "claim", "confirm",
        "confirmed", "cancel", "cancelled", "after"}

Contents == {"none", "await", "success", "failure", "other", "untyped",
             "empty", "invalid", "err", "notfound"}

Replies == {"none", "ok", "bizfail", "duplicate", "unknown", "error"}

Results == {"none", "proved", "unproved", "err", "notfound"}

(* o: the order, ctx: who asked, msg: the content to process, pretax: does *)
(* its amount match the order, resp: the HTTP reply or result held.        *)
Worker == [pc : PCs, o : Orders \cup {NoOrder}, ctx : Contexts,
           msg : Contents, pretax : {"ok", "bad"}, resp : Replies \cup Results]

Idle == [pc |-> "idle", o |-> NoOrder, ctx |-> "scan", msg |-> "none",
         pretax |-> "ok", resp |-> "none"]

At(w, o, pc) == wk[w].pc = pc /\ wk[w].o = o

Start(w, o, pc, ctx) ==
    /\ wk[w].pc = "idle"
    /\ wk' = [wk EXCEPT ![w] = [Idle EXCEPT !.pc = pc, !.o = o, !.ctx = ctx]]

Goto(w, pc) == wk' = [wk EXCEPT ![w].pc = pc]

GotoWith(w, pc, r) == wk' = [wk EXCEPT ![w].pc = pc, ![w].resp = r]

(* The content has been processed with result r; only a callback needs to  *)
(* remember which content it was, for its log entry.                       *)
Processed(w, r) ==
    LET msg == IF wk[w].ctx = "callback" THEN wk[w].msg ELSE "none"
    IN  wk' = [wk EXCEPT ![w] = [wk[w] EXCEPT !.pc = "after", !.resp = r,
                                              !.pretax = "ok", !.msg = msg]]

Done(w) == wk' = [wk EXCEPT ![w] = Idle]

-----------------------------------------------------------------------------
(* Columns of the order row.  gorm refreshes updated_at on every Updates.  *)

(* Mutant: a failed order is not recognised as final.                      *)
Terminal_NoFailed == {"paid", "cancelled", "rejected"}

Terminal == {"paid", "failed", "cancelled", "rejected"}

Touch(o) == fresh' = fresh \cup {o}

SetComp(o, c) == comp' = [comp EXCEPT ![o] = c]

(* The default list of markPiggyOrderManualReviewIfActiveWithResult: an    *)
(* approved or confirmed order is not in it.                               *)
ReviewableByDefault == {"submitted", "await_confirm", "confirming",
                        "cancelling", "manual_review"}

(* UPDATE ... SET status = manual_review, compensation_status = pending    *)
(* WHERE status IN from AND (status <> manual_review OR compensation open) *)
markPiggyOrderManualReviewIfActive(o, from) ==
    /\ IF /\ status[o] \in from
          /\ status[o] = "manual_review" => comp[o] \in {"", "pending"}
       THEN /\ SetStatus(o, "manual_review")
            /\ SetComp(o, "pending")
            /\ Touch(o)
            /\ UNCHANGED ext
       ELSE UNCHANGED <<status, rowVars>>
    /\ NoMoney

markPiggyOrderSubmitRecoverable(o) ==
    /\ IF status[o] = "approved"
       THEN SetComp(o, "pending") /\ Touch(o) /\ UNCHANGED <<status, ext>>
       ELSE UNCHANGED <<status, rowVars>>
    /\ NoMoney

(* What a callback that moves an approved order leaves behind: the trade   *)
(* number is recorded and a submit_recovering claim is cleared.            *)
(* Its mutant leaves the claim.                                            *)
addPiggyApprovedSubmissionMarkers_KeepClaim(o) ==
    /\ ext' = IF status[o] = "approved" THEN ext \cup {o} ELSE ext
    /\ UNCHANGED comp
    /\ Touch(o)

addPiggyApprovedSubmissionMarkers(o) ==
    /\ ext' = IF status[o] = "approved" THEN ext \cup {o} ELSE ext
    /\ comp' = IF status[o] = "approved" /\ comp[o] = "submit_recovering"
               THEN [comp EXCEPT ![o] = ""] ELSE comp
    /\ Touch(o)

markPiggyOrderManualReviewFromCallbackTx(o) ==
    /\ SetStatus(o, "manual_review")
    /\ addPiggyApprovedSubmissionMarkers(o)
    /\ NoMoney

-----------------------------------------------------------------------------
(* The provider.  Each operator gives the pairs <<reply, new state>> a     *)
(* request may have when it is executed in state r.                        *)

RemoteStates == {"none", "await", "paying", "success", "failure", "cancelled"}

SubmitOutcomes(r) ==
    IF r = "none" THEN {<<"ok", "await">>, <<"bizfail", "none">>}
                  ELSE {<<"duplicate", r>>, <<"bizfail", r>>}

ConfirmOutcomes(r) ==
    IF r = "await" THEN {<<"ok", "paying">>, <<"error", "await">>}
                   ELSE {<<"error", r>>}

CancelOutcomes(r) ==
    CASE r = "await"     -> {<<"ok", "cancelled">>, <<"error", "await">>}
      [] r = "cancelled" -> {<<"ok", r>>, <<"error", r>>}
      [] OTHER           -> {<<"error", r>>}

Outcomes(op, r) == CASE op = "submit"  -> SubmitOutcomes(r)
                     [] op = "confirm" -> ConfirmOutcomes(r)
                     [] op = "cancel"  -> CancelOutcomes(r)

(* A query of an order that is being paid may still show it as awaiting.   *)
QueryReplies(r) ==
    Noise \cup (CASE r = "none"   -> {"notfound"}
                  [] r = "await"  -> {"await"}
                  [] r = "paying" -> {"await", "other"}
                  [] r = "success" -> {"success"}
                  [] r = "failure" -> {"failure"}
                  [] r = "cancelled" -> {"failure", "other"})

(* The notifications the provider may deliver, at any time and again: the  *)
(* submit result (even before this side has recorded its own submission)   *)
(* and the result of the trade.                                            *)
Notices(o) == {"await"}
              \cup (IF remote[o] \in {"success", "failure"}
                    THEN {remote[o]} ELSE {})
              \cup (Noise \cap {"other", "untyped"})

Fault == faults < MaxFaults /\ faults' = faults + 1

(* One HTTP request of worker w: answered, answer lost, or timed out.      *)
Call(w, o, op, next) ==
    \/ \E out \in Outcomes(op, remote[o]) :
          /\ remote' = [remote EXCEPT ![o] = out[2]]
          /\ \/ GotoWith(w, next, out[1]) /\ UNCHANGED faults
             \/ GotoWith(w, next, "unknown") /\ Fault
          /\ UNCHANGED late
    \/ /\ Fault
       /\ late' = late \cup {<<op, o>>}
       /\ GotoWith(w, next, "unknown")
       /\ UNCHANGED remote

(* A request that timed out on this side reaches the provider after all.   *)
LateArrival(o, op) ==
    /\ <<op, o>> \in late
    /\ late' = late \ {<<op, o>>}
    /\ \E out \in Outcomes(op, remote[o]) :
          remote' = [remote EXCEPT ![o] = out[2]]
    /\ UNCHANGED <<ledgerVars, rowVars, log, wk, faults>>

(* The provider rejects an order it had accepted; it finishes a payment.   *)
RemoteReject(o) ==
    /\ remote[o] = "await"
    /\ remote' = [remote EXCEPT ![o] = "failure"]
    /\ UNCHANGED <<ledgerVars, rowVars, log, wk, late, faults>>

RemoteSettle(o) ==
    /\ remote[o] = "paying"
    /\ \E s \in {"success", "failure"} : remote' = [remote EXCEPT ![o] = s]
    /\ UNCHANGED <<ledgerVars, rowVars, log, wk, late, faults>>

-----------------------------------------------------------------------------
(* Submission, approval and rejection.                                     *)

SubmitPiggyWithdrawOrder(o) ==
    /\ status[o] = "none"
    /\ Freeze(o)
    /\ SetStatus(o, "pending")
    /\ Touch(o)
    /\ UNCHANGED <<comp, ext, wk, log>>

(* The approval commits first; the HTTP submission follows it.             *)
approvePiggyWithdrawOrder(w, o) ==
    /\ status[o] = "pending"
    /\ SetStatus(o, "approved")
    /\ Touch(o)
    /\ NoMoney
    /\ Start(w, o, "submit", "approve")
    /\ UNCHANGED <<comp, ext, log>>

rejectPiggyWithdrawOrder(o) ==
    /\ status[o] = "pending"
    /\ Release(o, "reject")
    /\ SetStatus(o, "rejected")
    /\ Touch(o)
    /\ UNCHANGED <<comp, ext, wk, log>>

SingleOrderSubmit(w, o) == At(w, o, "submit") /\ Call(w, o, "submit", "submitted")

(* The rest of submitPiggyOrderToProvider, one action per outcome.         *)
(* Mutants: the result of the submission is recorded without looking at    *)
(* the status the order has by now.                                        *)
submitAccepted_NoCAS(w, o) ==
    /\ At(w, o, "submitted") /\ wk[w].resp = "ok"
    /\ SetStatus(o, "submitted")
    /\ SetComp(o, "")
    /\ ext' = ext \cup {o}
    /\ Touch(o)
    /\ NoMoney
    /\ Done(w)
    /\ UNCHANGED log

failPiggySubmittedOrderAndRelease_NoCAS(w, o) ==
    /\ At(w, o, "submitted") /\ wk[w].resp = "bizfail"
    /\ IF status[o] \notin Terminal
       THEN /\ Release(o, "failed")
            /\ SetStatus(o, "failed")
            /\ SetComp(o, "")
            /\ Touch(o)
            /\ UNCHANGED ext
       ELSE NoMoney /\ UNCHANGED <<status, rowVars>>
    /\ Done(w)
    /\ UNCHANGED log

submitAccepted(w, o) ==
    /\ At(w, o, "submitted") /\ wk[w].resp = "ok"
    /\ IF status[o] = "approved"
       THEN /\ SetStatus(o, "submitted")
            /\ SetComp(o, "")
            /\ ext' = ext \cup {o}
            /\ Touch(o)
       ELSE UNCHANGED <<status, rowVars>>
    /\ NoMoney
    /\ Done(w)
    /\ UNCHANGED log

failPiggySubmittedOrderAndRelease(w, o) ==
    /\ At(w, o, "submitted") /\ wk[w].resp = "bizfail"
    /\ IF status[o] = "approved"
       THEN /\ Release(o, "failed")
            /\ SetStatus(o, "failed")
            /\ SetComp(o, "")
            /\ Touch(o)
            /\ UNCHANGED ext
       ELSE NoMoney /\ UNCHANGED <<status, rowVars>>
    /\ Done(w)
    /\ UNCHANGED log

submitUnknown(w, o) ==
    /\ At(w, o, "submitted") /\ wk[w].resp = "unknown"
    /\ markPiggyOrderSubmitRecoverable(o)
    /\ Done(w)
    /\ UNCHANGED log

(* handlePiggyDuplicateOuterTradeNoSubmission queries the original order.  *)
submitDuplicate(w, o) ==
    /\ At(w, o, "submitted") /\ wk[w].resp = "duplicate"
    /\ wk' = [wk EXCEPT ![w].pc = "query", ![w].ctx = "dup"]
    /\ NoMoney
    /\ UNCHANGED <<status, rowVars, log>>

-----------------------------------------------------------------------------
(* Callbacks and queries: both end in processPiggyPaymentCallbackContent.  *)

(* HandlePiggyPaymentCallback up to the duplicate check: a notification    *)
(* whose key is logged as processed is dropped.                            *)
HandlePiggyPaymentCallback(w, o) ==
    /\ status[o] # "none"
    /\ wk[w].pc = "idle"
    /\ \E c \in Notices(o), p \in Pretax :
          /\ <<o, c>> \notin log
          /\ wk' = [wk EXCEPT ![w] = [Idle EXCEPT !.pc = "apply", !.o = o,
                                   !.ctx = "callback", !.msg = c, !.pretax = p]]
    /\ NoMoney
    /\ UNCHANGED <<status, rowVars, log>>

SingleOrderQuery(w, o) ==
    /\ At(w, o, "query")
    /\ \E c \in QueryReplies(remote[o]), p \in Pretax :
          wk' = [wk EXCEPT ![w].pc = "apply", ![w].msg = c, ![w].pretax = p]
    /\ UNCHANGED <<remote, late, faults>>

(* isPiggyConfirmingExpired and isPiggyCancellingExpired.                  *)
Expired(o) == o \notin fresh

markPiggyOrderAwaitConfirm(w, o) ==
    /\ At(w, o, "apply") /\ wk[w].msg = "await"
    /\ \/ /\ \/ status[o] \in Terminal \cup {"confirmed", "cancelling"}
             \/ status[o] = "confirming" /\ ~Expired(o)
          /\ UNCHANGED <<status, rowVars>>
          /\ Processed(w, "proved")
       \/ /\ status[o] = "pending"
          /\ markPiggyOrderManualReviewFromCallbackTx(o)
          /\ Processed(w, "proved")
       \/ /\ \/ status[o] \in {"submitted", "await_confirm", "approved",
                               "manual_review"}
             \/ status[o] = "confirming" /\ Expired(o)
          /\ IF wk[w].pretax = "bad"
             THEN /\ markPiggyOrderManualReviewFromCallbackTx(o)
                  /\ Processed(w, "proved")
             ELSE /\ SetStatus(o, "await_confirm")
                  /\ addPiggyApprovedSubmissionMarkers(o)
                  /\ Goto(w, "claim")
    /\ NoMoney
    /\ UNCHANGED log

markPiggyOrderPaid(w, o) ==
    /\ At(w, o, "apply") /\ wk[w].msg = "success"
    /\ \/ /\ status[o] \in Terminal
          /\ NoMoney /\ UNCHANGED <<status, rowVars>>
          /\ Processed(w, "proved")
       \/ /\ status[o] \notin Terminal
          /\ status[o] = "pending" \/ wk[w].pretax = "bad"
          /\ markPiggyOrderManualReviewFromCallbackTx(o)
          /\ Processed(w, "proved")
       \/ /\ status[o] \notin Terminal \cup {"pending"}
          /\ wk[w].pretax = "ok"
          /\ PayOut(o)
          /\ SetStatus(o, "paid")
          /\ addPiggyApprovedSubmissionMarkers(o)
          /\ Processed(w, "proved")
       \/ /\ status[o] \notin Terminal \cup {"pending"}
          /\ wk[w].pretax = "ok"
          /\ ~FrozenCovers(o)
          /\ NoMoney /\ UNCHANGED <<status, rowVars>>
          /\ Processed(w, "err")
    /\ UNCHANGED log

failPiggyOrderAndRelease(w, o) ==
    /\ At(w, o, "apply") /\ wk[w].msg = "failure"
    /\ \/ /\ status[o] \in Terminal
          /\ NoMoney /\ UNCHANGED <<status, rowVars>>
       \/ /\ status[o] = "pending"
          /\ markPiggyOrderManualReviewFromCallbackTx(o)
       \/ /\ status[o] \notin Terminal \cup {"pending"}
          /\ Release(o, "failed")
          /\ SetStatus(o, "failed")
          /\ addPiggyApprovedSubmissionMarkers(o)
    /\ Processed(w, "proved")
    /\ UNCHANGED log

(* A content the code cannot classify: a typed one is answered with nil, a *)
(* content without a notify type with an error.                            *)
unknownContent(w, o) ==
    /\ At(w, o, "apply") /\ wk[w].msg \in {"other", "untyped"}
    /\ markPiggyOrderManualReviewIfActive(o, ReviewableByDefault)
    /\ Processed(w, IF wk[w].msg = "other" THEN "proved" ELSE "err")
    /\ UNCHANGED log

(* queryPiggyOrderStatusWithEvidence on an error, on a reply without a     *)
(* status, and on a reply that fails the payout snapshot validation.       *)
queryFailed(w, o) ==
    /\ At(w, o, "apply") /\ wk[w].msg \in {"err", "notfound"}
    /\ markPiggyOrderManualReviewIfActive(o, ReviewableByDefault)
    /\ Processed(w, IF status[o] \in Terminal THEN "unproved"
                                                ELSE wk[w].msg)
    /\ UNCHANGED log

queryUndecided(w, o) ==
    /\ At(w, o, "apply") /\ wk[w].msg \in {"empty", "invalid"}
    /\ Processed(w, IF wk[w].msg = "empty" THEN "unproved" ELSE "err")
    /\ NoMoney
    /\ UNCHANGED <<status, rowVars, log>>

-----------------------------------------------------------------------------
(* Confirming the payment (confirmPiggyOrder): claim by compare-and-set,   *)
(* HTTP call, then record the outcome if the claim still stands.           *)

claimPiggyOrderForConfirm(w, o) ==
    /\ At(w, o, "claim")
    /\ IF status[o] = "await_confirm"
       THEN /\ SetStatus(o, "confirming")
            /\ Touch(o)
            /\ Goto(w, "confirm")
            /\ UNCHANGED <<comp, ext>>
       ELSE /\ Processed(w,
                        IF status[o] \in {"pending", "approved", "submitted"}
                        THEN "err" ELSE "proved")
            /\ UNCHANGED <<status, rowVars>>
    /\ NoMoney
    /\ UNCHANGED log

SingleOrderConfirmPay(w, o) ==
    At(w, o, "confirm") /\ Call(w, o, "confirm", "confirmed")

(* Mutant: an accepted confirmation is taken for the payment itself.       *)
confirmPiggyOrder_Final(w, o) ==
    /\ At(w, o, "confirmed")
    /\ IF wk[w].resp = "ok" /\ status[o] = "confirming"
       THEN /\ PayOut(o) /\ SetStatus(o, "paid") /\ Touch(o)
            /\ UNCHANGED <<comp, ext>>
       ELSE NoMoney /\ UNCHANGED <<status, rowVars>>
    /\ Processed(w, "proved")
    /\ UNCHANGED log

confirmPiggyOrder(w, o) ==
    /\ At(w, o, "confirmed")
    /\ IF wk[w].resp = "ok"
       THEN /\ IF status[o] = "confirming"
               THEN SetStatus(o, "confirmed") /\ Touch(o) /\ UNCHANGED <<comp, ext>>
               ELSE UNCHANGED <<status, rowVars>>
            /\ NoMoney
            /\ Processed(w, "proved")
       ELSE /\ markPiggyOrderManualReviewIfActive(o, {"confirming"})
            /\ Processed(w, "err")
    /\ UNCHANGED log

-----------------------------------------------------------------------------
(* What the caller does once the content has been processed.               *)

After(w, o, ctx) == At(w, o, "after") /\ wk[w].ctx = ctx

(* finishPiggyCallbackLog: only a success counts as processed.             *)
finishPiggyCallbackLog(w, o) ==
    /\ After(w, o, "callback")
    /\ log' = IF wk[w].resp = "proved" THEN log \cup {<<o, wk[w].msg>>} ELSE log
    /\ Done(w)
    /\ NoMoney
    /\ UNCHANGED <<status, rowVars>>

scanFinished(w, o) ==
    /\ After(w, o, "scan")
    /\ Done(w)
    /\ NoMoney
    /\ UNCHANGED <<status, rowVars, log>>

markExpiredPiggyCancellingManualReview(w, o) ==
    /\ After(w, o, "cancel_scan")
    /\ IF wk[w].resp \in {"proved", "unproved"}
       THEN markPiggyOrderManualReviewIfActive(o, {"cancelling"})
       ELSE NoMoney /\ UNCHANGED <<status, rowVars>>
    /\ Done(w)
    /\ UNCHANGED log

duplicateUnresolved(w, o) ==
    /\ After(w, o, "dup")
    /\ markPiggyOrderManualReviewIfActive(o, {"approved"})
    /\ Done(w)
    /\ UNCHANGED log

(* The rest of AdminRecoverPiggyApprovedSubmissionWithResult: submit again *)
(* when the query was answered and the order is still approved without a   *)
(* trade number.                                                           *)
recoverResubmit(w, o) ==
    /\ After(w, o, "recover") /\ wk[w].resp = "proved"
    /\ IF status[o] = "approved" /\ o \notin ext
       THEN wk' = [wk EXCEPT ![w] = [Idle EXCEPT !.pc = "submit", !.o = o,
                                                 !.ctx = "approve"]]
       ELSE Done(w)
    /\ NoMoney
    /\ UNCHANGED <<status, rowVars, log>>

recoverUndecided(w, o) ==
    /\ After(w, o, "recover") /\ wk[w].resp # "proved"
    /\ IF wk[w].resp = "notfound"
       THEN markPiggyOrderManualReviewIfActive(o, {"approved"})
       ELSE markPiggyOrderSubmitRecoverable(o)
    /\ Done(w)
    /\ UNCHANGED log

-----------------------------------------------------------------------------
(* Administration and the compensation scan.                               *)

(* The scan takes the same step for an order it reads as await_confirm.    *)
AdminRetryPiggyConfirm(w, o) ==
    /\ status[o] = "await_confirm"
    /\ Start(w, o, "claim", "scan")
    /\ NoMoney
    /\ UNCHANGED <<status, rowVars, log>>

(* The claim of AdminRecoverPiggyApprovedSubmissionWithResult, which the   *)
(* scan calls for an approved order: one guarded UPDATE.  The compensation *)
(* statuses it may claim from, and a mutant that overlooks the order whose *)
(* worker died right after the approval.                                   *)
Recoverable_MarkedOnly(o) == comp[o] \in {"pending", "submit_recovering"}

Recoverable(o) == comp[o] \in {"", "pending", "submit_recovering"}

AdminRecoverPiggyApprovedSubmission(w, o) ==
    /\ status[o] = "approved"
    /\ Expired(o)
    /\ Recoverable(o)
    /\ SetComp(o, "submit_recovering")
    /\ Touch(o)
    /\ Start(w, o, "query", "recover")
    /\ NoMoney
    /\ UNCHANGED <<status, ext, log>>

(* The scan's row filter for the orders it queries, on the row as read.    *)
(* Its mutant never looks at an expired confirmation.                      *)
ScanQueries_NoConfirming(o) ==
    \/ status[o] \in {"submitted", "confirmed"}
    \/ status[o] = "manual_review" /\ comp[o] \in {"", "pending"}

ScanQueries(o) ==
    \/ status[o] \in {"submitted", "confirmed"}
    \/ status[o] = "confirming" /\ Expired(o)
    \/ status[o] = "manual_review" /\ comp[o] \in {"", "pending"}

ScanPiggyWithdrawCompensations(w, o) ==
    /\ \/ ScanQueries(o) /\ Start(w, o, "query", "scan")
       \/ /\ status[o] = "cancelling" /\ Expired(o)
          /\ Start(w, o, "query", "cancel_scan")
    /\ NoMoney
    /\ UNCHANGED <<status, rowVars, log>>

claimPiggyOrderForCancel(w, o) ==
    /\ status[o] \in {"submitted", "await_confirm", "manual_review"}
    /\ SetStatus(o, "cancelling")
    /\ Touch(o)
    /\ Start(w, o, "cancel", "scan")
    /\ NoMoney
    /\ UNCHANGED <<comp, ext, log>>

SingleOrderCancel(w, o) ==
    At(w, o, "cancel") /\ Call(w, o, "cancel", "cancelled")

cancelPiggyOrderAndRelease(w, o) ==
    /\ At(w, o, "cancelled")
    /\ IF wk[w].resp # "ok"
       THEN markPiggyOrderManualReviewIfActive(o, {"cancelling"})
       ELSE IF status[o] = "cancelling"
            THEN /\ Release(o, "cancel")
                 /\ SetStatus(o, "cancelled")
                 /\ Touch(o)
                 /\ UNCHANGED <<comp, ext>>
            ELSE NoMoney /\ UNCHANGED <<status, rowVars>>
    /\ Done(w)
    /\ UNCHANGED log

(* AdminRecordPiggyManualResult: a note, or the human verdict.             *)
(* Mutant: the note is stored in the compensation status as typed.         *)
recordPiggyManualReviewNote_Raw(o) ==
    /\ status[o] = "manual_review"
    /\ SetComp(o, "note")
    /\ Touch(o)
    /\ NoMoney
    /\ UNCHANGED <<status, ext, wk, log>>

recordPiggyManualReviewNote(o) ==
    /\ status[o] = "manual_review"
    /\ SetComp(o, "pending")
    /\ Touch(o)
    /\ NoMoney
    /\ UNCHANGED <<status, ext, wk, log>>

markPiggyManualResultPaid(o) ==
    /\ status[o] = "manual_review"
    /\ PayOut(o)
    /\ SetStatus(o, "paid")
    /\ SetComp(o, "manual_processed")
    /\ Touch(o)
    /\ UNCHANGED <<ext, wk, log>>

failPiggyManualResultAndRelease(o) ==
    /\ status[o] = "manual_review"
    /\ Release(o, "failed")
    /\ SetStatus(o, "failed")
    /\ SetComp(o, "manual_processed")
    /\ Touch(o)
    /\ UNCHANGED <<ext, wk, log>>

-----------------------------------------------------------------------------
(* Environment: the lease on updated_at runs out; a worker dies.           *)

(* The recovery delay is max(60, 2 * RequestTimeout) seconds and the       *)
(* callback lock lives 300, against HTTP calls of at most RequestTimeout:  *)
(* Timely says that no live worker is still inside a call when its lease   *)
(* runs out.  Safety is checked without that assumption.                   *)
UnderLease(w, o) ==
    /\ wk[w].o = o
    /\ \/ wk[w].pc \in {"submit", "submitted", "confirm", "confirmed",
                        "cancel", "cancelled"}
       \/ wk[w].ctx = "recover"

LeaseExpires(o) ==
    /\ o \in fresh
    /\ Timely => \A w \in Workers : ~UnderLease(w, o)
    /\ status[o] \in {"approved", "confirming", "cancelling"}
    /\ fresh' = fresh \ {o}
    /\ UNCHANGED <<ledgerVars, comp, ext, log, wk, remoteVars, faults>>

Crash(w) ==
    /\ wk[w].pc # "idle"
    /\ Fault
    /\ Done(w)
    /\ UNCHANGED <<ledgerVars, rowVars, log, remoteVars>>

-----------------------------------------------------------------------------
(* The specification.                                                      *)

TypeOK ==
    /\ LedgerTypeOK
    /\ comp \in [Orders -> {"", "pending", "submit_recovering", "manual_processed"}]
    /\ ext \subseteq Orders
    /\ fresh \subseteq Orders
    /\ log \subseteq Orders \X Contents
    /\ wk \in [Workers -> Worker]
    /\ remote \in [Orders -> RemoteStates]
    /\ late \subseteq {"submit", "confirm", "cancel"} \X Orders
    /\ faults \in 0 .. MaxFaults

Init ==
    /\ LedgerInit
    /\ comp = [o \in Orders |-> ""]
    /\ ext = {}
    /\ fresh = {}
    /\ log = {}
    /\ wk = [w \in Workers |-> Idle]
    /\ remote = [o \in Orders |-> "none"]
    /\ late = {}
    /\ faults = 0

(* Steps that commit to the database without calling the provider.         *)
OrderStep(o) ==
    \/ SubmitPiggyWithdrawOrder(o)
    \/ rejectPiggyWithdrawOrder(o)
    \/ recordPiggyManualReviewNote(o)
    \/ markPiggyManualResultPaid(o)
    \/ failPiggyManualResultAndRelease(o)

StartStep(w, o) ==
    \/ approvePiggyWithdrawOrder(w, o)
    \/ HandlePiggyPaymentCallback(w, o)
    \/ AdminRetryPiggyConfirm(w, o)
    \/ AdminRecoverPiggyApprovedSubmission(w, o)
    \/ ScanPiggyWithdrawCompensations(w, o)
    \/ claimPiggyOrderForCancel(w, o)

ContentStep(w, o) ==
    \/ markPiggyOrderAwaitConfirm(w, o)
    \/ markPiggyOrderPaid(w, o)
    \/ failPiggyOrderAndRelease(w, o)
    \/ unknownContent(w, o)
    \/ queryFailed(w, o)
    \/ queryUndecided(w, o)

OutcomeStep(w, o) ==
    \/ submitAccepted(w, o)
    \/ failPiggySubmittedOrderAndRelease(w, o)
    \/ submitUnknown(w, o)
    \/ submitDuplicate(w, o)
    \/ claimPiggyOrderForConfirm(w, o)
    \/ confirmPiggyOrder(w, o)
    \/ cancelPiggyOrderAndRelease(w, o)
    \/ finishPiggyCallbackLog(w, o)
    \/ scanFinished(w, o)
    \/ markExpiredPiggyCancellingManualReview(w, o)
    \/ duplicateUnresolved(w, o)
    \/ recoverResubmit(w, o)
    \/ recoverUndecided(w, o)

DbStep ==
    /\ \E o \in Piggy :
          \/ OrderStep(o)
          \/ \E w \in Workers : StartStep(w, o) \/ ContentStep(w, o) \/ OutcomeStep(w, o)
    /\ UNCHANGED <<incomeVars, remoteVars, faults>>

HttpStep(w, o) ==
    /\ \/ SingleOrderSubmit(w, o)
       \/ SingleOrderQuery(w, o)
       \/ SingleOrderConfirmPay(w, o)
       \/ SingleOrderCancel(w, o)
    /\ UNCHANGED <<ledgerVars, rowVars, log>>

EnvStep ==
    \/ \E o \in Piggy : RemoteReject(o) \/ RemoteSettle(o) \/ LeaseExpires(o)
    \/ \E o \in Piggy, op \in {"submit", "confirm", "cancel"} : LateArrival(o, op)
    \/ \E w \in Workers : Crash(w)

Next ==
    \/ DbStep
    \/ \E w \in Workers, o \in Piggy : HttpStep(w, o)
    \/ EnvStep
    \/ (ManualNext \/ WalletNext) /\ UNCHANGED piggyVars

Spec == Init /\ [][Next]_vars

-----------------------------------------------------------------------------
(* Safety.                                                                 *)

(* Commission given back to the user is never also paid to the bank: once  *)
(* an order is failed, cancelled or rejected the provider is not paying it *)
(* and never will, whatever replies, callbacks and late requests are still *)
(* under way.  Only a human verdict (manual_processed) can contradict it.  *)
NoPayoutAfterRelease ==
    \A o \in Piggy :
        Released(o) /\ remote[o] \in {"paying", "success"}
            => comp[o] = "manual_processed"

(* An order is booked as paid only when the provider has really paid it,   *)
(* again except by a human verdict.                                        *)
PaidMeansPaid ==
    \A o \in Piggy : Paid(o) /\ comp[o] # "manual_processed"
                        => remote[o] = "success"

(* The provider is told to pay only after this side has claimed the order: *)
(* an order that is still pending, approved or submitted, and so may still *)
(* be submitted again or failed, is not being paid and no confirm request  *)
(* for it is on its way.                                                   *)
NoPaymentBeforeClaim ==
    \A o \in Piggy :
        status[o] \in {"none", "pending", "approved", "submitted"}
            => /\ remote[o] \notin {"paying", "success"}
               /\ <<"confirm", o>> \notin late
               /\ \A w \in Workers : ~At(w, o, "confirm")

(* No open order falls out of the compensation scan: whatever the worker   *)
(* that held it did or failed to do, its compensation status is one the    *)
(* scan's filter accepts for its status, and a recovery claim exists only  *)
(* on an approved order, which has no trade number yet.                    *)
NoOrderOutsideScan ==
    \A o \in Piggy :
        /\ status[o] = "manual_review" => comp[o] \in {"", "pending"}
        /\ comp[o] = "submit_recovering" => status[o] = "approved"
        /\ comp[o] = "manual_processed" => status[o] \in Terminal
        /\ status[o] = "approved" => o \notin ext

-----------------------------------------------------------------------------
(* Refinement: the account rows, the order rows and all that happens to    *)
(* them are one escrow per order.                                          *)

Escrow == INSTANCE CommissionEscrow WITH
             avail  <- commission,
             phase  <- [o \in Orders |-> Phase(o)],
             record <- rec

(* Every behaviour of both withdrawal channels, with its crashes, retries  *)
(* and stale replies, is a behaviour of the escrow: each order takes its   *)
(* amount once, and pays or returns it once.                               *)
ImplementsEscrow == Escrow!EscrowSpec

-----------------------------------------------------------------------------
(* Liveness.                                                               *)

(* Every worker runs to its end, the provider finishes the payments it     *)
(* started, leases run out, and the compensation task, which has a         *)
(* goroutine of its own, comes back to every order as often as it finds    *)
(* one to work on.                                                         *)
ScanStep(w, o) ==
    /\ \/ AdminRetryPiggyConfirm(w, o)
       \/ AdminRecoverPiggyApprovedSubmission(w, o)
       \/ ScanPiggyWithdrawCompensations(w, o)
    /\ UNCHANGED <<incomeVars, remoteVars, faults>>

WorkerStep(w) ==
    \E o \in Piggy :
        \/ HttpStep(w, o)
        \/ /\ ContentStep(w, o) \/ OutcomeStep(w, o)
           /\ UNCHANGED <<incomeVars, remoteVars, faults>>

Fairness ==
    /\ \A w \in Workers : WF_vars(WorkerStep(w))
    /\ \A o \in Piggy : /\ SF_vars(\E w \in Workers : ScanStep(w, o))
                        /\ WF_vars(RemoteSettle(o))
                        /\ WF_vars(LeaseExpires(o))

LiveSpec == Spec /\ Fairness

(* No approved order is forgotten: lost replies, lost callbacks and dead   *)
(* workers notwithstanding, it is eventually settled or put before a       *)
(* human.                                                                  *)
OrdersConclude ==
    \A o \in Piggy :
        status[o] = "approved" ~> status[o] \in Terminal \cup {"manual_review"}

(* The same for an order somebody claimed for confirmation or cancelling:  *)
(* a claim that outlives its worker is taken over.                         *)
ClaimsConclude ==
    \A o \in Piggy :
        status[o] \in {"confirming", "cancelling", "confirmed"}
            ~> status[o] \in Terminal \cup {"manual_review"}
=============================================================================
