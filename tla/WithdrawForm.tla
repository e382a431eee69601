------------------------------- MODULE WithdrawForm -------------------------------
(***************************************************************************)
(* The withdrawal form of the web console: the dialog                      *)
(* (wallet/components/dialogs/withdraw-dialog.tsx), the hook behind it     *)
(* (wallet/hooks/use-wallet-account.ts) and the page that joins them       *)
(* (withdrawal/index.tsx).  The user edits an amount, asks for estimates   *)
(* of the tax and submits; every call is answered later, in any order.     *)
(*                                                                         *)
(* The hook numbers the estimates and keeps the number of the latest in a  *)
(* ref.  Here an estimate is named by its call: latest is the call whose   *)
(* number the ref holds, None if the number was moved on by a reset.       *)
(***************************************************************************)
EXTENDS Integers

CONSTANTS
    Amounts,        \* what can be typed into the field
    Mins,           \* values of the least amount, set by the administrator; 0: none
    Trials,         \* estimates that can be under way together
    Submissions,    \* submissions that can be under way together
    None

ASSUME WithdrawFormAssumption ==
    /\ Amounts \subseteq Nat /\ {0, 1} \subseteq Amounts /\ Mins \subseteq Amounts
    /\ None \notin Amounts /\ None \notin Trials

VARIABLES
    open, amount,                   \* the dialog and its draft
    minAmount, available,           \* of the account, as last loaded
    eligibility,                    \* "none", "blocked", "waiting" or "ok", as last loaded
    taxTrial,                       \* the estimate on display: of which amount
    taxTrialLoading, latest,
    trial,                          \* each estimate: of which amount it is, None if not under way
    withdrawing,
    submission                      \* each submission: "idle", "post", "account" or "refresh"

trialVars == <<taxTrial, taxTrialLoading, latest, trial>>
dialogVars == <<open, amount>>
accountVars == <<minAmount, available, eligibility>>
submitVars == <<withdrawing, submission>>
vars == <<trialVars, dialogVars, accountVars, submitVars>>

clearWithdrawTaxTrial ==
    /\ taxTrial' = None /\ taxTrialLoading' = FALSE /\ latest' = None
    /\ UNCHANGED trial

(***************************************************************************)
(* The dialog.  An effect resets the draft when the dialog opens and when  *)
(* the least amount changes under it; another one resets the estimate on   *)
(* every change of the amount, on opening and on closing.                  *)
(***************************************************************************)

Draft(min) == IF min = 0 THEN 1 ELSE min

(* The page's button is also off while the account is being loaded, which  *)
(* takes no time here: the load is the step that brings its answer.        *)
Open ==
    /\ ~open /\ available > 0
    /\ open' = TRUE
    /\ amount' = Draft(minAmount)
    /\ clearWithdrawTaxTrial
    /\ UNCHANGED <<accountVars, submitVars>>

(* The cross, the escape key and a click outside, even while submitting.   *)
Close ==
    /\ open
    /\ open' = FALSE
    /\ clearWithdrawTaxTrial
    /\ UNCHANGED <<amount, accountVars, submitVars>>

SetAmount(a) ==
    /\ open /\ a # amount
    /\ amount' = a
    /\ clearWithdrawTaxTrial
    /\ UNCHANGED <<open, accountVars, submitVars>>

canRequestWithdrawTaxTrial == open /\ eligibility \in {"waiting", "ok"} /\ amount > 0

(* The button; trialWithdrawTax up to its await.                           *)
trialWithdrawTax(t) ==
    /\ canRequestWithdrawTaxTrial /\ ~taxTrialLoading /\ trial[t] = None
    /\ trial' = [trial EXCEPT ![t] = amount]
    /\ latest' = t
    /\ taxTrialLoading' = TRUE
    /\ UNCHANGED <<taxTrial, dialogVars, accountVars, submitVars>>

(* Fault: an outdated answer is shown.                                     *)
TrialRepliesUnchecked(t, ok) ==
    /\ trial[t] # None
    /\ trial' = [trial EXCEPT ![t] = None]
    /\ taxTrial' = (IF ok THEN trial[t] ELSE None)
    /\ taxTrialLoading' = FALSE
    /\ UNCHANGED <<latest, dialogVars, accountVars, submitVars>>

(* The answer to an estimate, or its failure.                              *)
TrialReplies(t, ok) ==
    /\ trial[t] # None
    /\ trial' = [trial EXCEPT ![t] = None]
    /\ IF latest = t
       THEN /\ taxTrial' = (IF ok THEN trial[t] ELSE None)
            /\ taxTrialLoading' = FALSE
       ELSE UNCHANGED <<taxTrial, taxTrialLoading>>
    /\ UNCHANGED <<latest, dialogVars, accountVars, submitVars>>

(***************************************************************************)
(* Submitting                                                              *)
(***************************************************************************)

invalid == eligibility # "ok" \/ amount <= 0 \/ amount > available \/ amount < minAmount

handleSubmit(s) ==
    /\ open /\ ~withdrawing /\ ~invalid /\ submission[s] = "idle"
    /\ withdrawing' = TRUE
    /\ submission' = [submission EXCEPT ![s] = "post"]
    /\ UNCHANGED <<trialVars, dialogVars, accountVars>>

(* The answer to the POST.  A refusal, and an answer that is lost, end it. *)
SubmitReplies(s, ok) ==
    /\ submission[s] = "post"
    /\ submission' = [submission EXCEPT ![s] = IF ok THEN "account" ELSE "idle"]
    /\ withdrawing' = ok
    /\ UNCHANGED <<trialVars, dialogVars, accountVars>>

(* What fetchWalletAccount may bring: the account, or nothing new of it;   *)
(* the eligibility, or "none" if it could not be loaded.  A new least      *)
(* amount under an open dialog resets the draft and with it the estimate.  *)
AccountLoads ==
    /\ \E e \in {"none", "blocked", "waiting", "ok"} : eligibility' = e
    /\ \/ UNCHANGED <<minAmount, available>>
       \/ \E m \in Mins, a \in Amounts : minAmount' = m /\ available' = a
    /\ IF open /\ minAmount' # minAmount
       THEN amount' = Draft(minAmount') /\ clearWithdrawTaxTrial
       ELSE UNCHANGED <<amount, trialVars>>

(* submitWithdraw loads the account before it lets go of the button.       *)
SubmitLoads(s) ==
    /\ submission[s] = "account"
    /\ submission' = [submission EXCEPT ![s] = "refresh"]
    /\ withdrawing' = FALSE
    /\ AccountLoads
    /\ UNCHANGED open

(* The page loads the account a second time, and the list of the orders.   *)
Refresh(s) ==
    /\ submission[s] = "refresh"
    /\ AccountLoads
    /\ UNCHANGED <<open, submitVars>>

(* Then it closes the dialog, whichever draft is in it; if the list fails  *)
(* to load, it stays open.                                                 *)
RefreshEnds(s) ==
    /\ submission[s] = "refresh"
    /\ submission' = [submission EXCEPT ![s] = "idle"]
    /\ \/ open' = FALSE /\ clearWithdrawTaxTrial
       \/ UNCHANGED <<open, trialVars>>
    /\ UNCHANGED <<amount, accountVars, withdrawing>>

(* The mount of the page and its refresh buttons.                          *)
Reload == AccountLoads /\ UNCHANGED <<open, submitVars>>

Init ==
    /\ open = FALSE /\ amount = 0 /\ minAmount = 0 /\ available = 0 /\ eligibility = "none"
    /\ taxTrial = None /\ taxTrialLoading = FALSE /\ latest = None
    /\ trial = [t \in Trials |-> None]
    /\ withdrawing = FALSE /\ submission = [s \in Submissions |-> "idle"]

Next ==
    \/ Open \/ Close \/ Reload
    \/ \E a \in Amounts : SetAmount(a)
    \/ \E t \in Trials : trialWithdrawTax(t) \/ \E ok \in BOOLEAN : TrialReplies(t, ok)
    \/ \E s \in Submissions :
          \/ handleSubmit(s) \/ SubmitLoads(s) \/ Refresh(s) \/ RefreshEnds(s)
          \/ \E ok \in BOOLEAN : SubmitReplies(s, ok)

Spec == Init /\ [][Next]_vars

(***************************************************************************)
(* Properties                                                              *)
(***************************************************************************)

WithdrawFormTypeOK ==
    /\ open \in BOOLEAN /\ taxTrialLoading \in BOOLEAN /\ withdrawing \in BOOLEAN
    /\ amount \in Amounts /\ minAmount \in Mins \cup {0} /\ available \in Amounts
    /\ eligibility \in {"none", "blocked", "waiting", "ok"}
    /\ taxTrial \in Amounts \cup {None} /\ latest \in Trials \cup {None}
    /\ trial \in [Trials -> Amounts \cup {None}]
    /\ submission \in [Submissions -> {"idle", "post", "account", "refresh"}]

(* An estimate on display is of the amount in the field, whatever was      *)
(* typed, closed, opened or loaded while its answer was on the way.        *)
TrialIsOfThisAmount == taxTrial # None => open /\ taxTrial = amount

(* The button of the estimate comes back: it shows that an estimate is     *)
(* loading only while the answer that will end it is on the way, and that  *)
(* answer is of the amount in the field.                                   *)
LoadingHasAnEnd == taxTrialLoading => latest # None /\ open /\ trial[latest] = amount

(* Two withdrawals are never on the way together: while one is posted or   *)
(* its effect on the account is loaded, the submit button is off, whoever  *)
(* closed and opened the dialog in between.                                *)
OneWithdrawalAtATime ==
    LET busy == {s \in Submissions : submission[s] \in {"post", "account"}}
    IN  /\ withdrawing <=> busy # {}
        /\ \A s, q \in busy : s = q

(* Whatever order the answers come in and whoever closes and opens the     *)
(* dialog: what it shows is of what it asks for, and one withdrawal is on  *)
(* its way at a time.                                                      *)
FormIsCoherent == TrialIsOfThisAmount /\ LoadingHasAnEnd /\ OneWithdrawalAtATime

(* An estimate under way that the ref still names is of the amount in the  *)
(* field of an open dialog.                                                *)
LatestIsOfThisAmount ==
    latest # None /\ trial[latest] # None => open /\ trial[latest] = amount

(* The inductive invariant.                                                *)
WithdrawFormInv ==
    /\ WithdrawFormTypeOK
    /\ TrialIsOfThisAmount
    /\ LoadingHasAnEnd
    /\ LatestIsOfThisAmount
    /\ OneWithdrawalAtATime
===================================================================================
