------------------------------- MODULE Redemption -------------------------------
(***************************************************************************)
(* Redemption codes: the table redemptions (model/redemption.go), the      *)
(* handlers of the console (controller/redemption.go), a user's TopUp by   *)
(* code (controller/user.go), and the console page that decides from the   *)
(* rows it last loaded which operations it offers                          *)
(* (web/default/src/features/redemption-codes).                            *)
(*                                                                         *)
(* A redemption is one transaction that reads the row and writes it later; *)
(* an update by an administrator reads the row and writes five columns of  *)
(* that copy back.  Both are two steps here, so that they interleave.      *)
(***************************************************************************)
EXTENDS Integers, FiniteSets

CONSTANTS
    Codes,          \* rows the table can hold
    Users,          \* users who enter codes
    Consoles,       \* open pages of administrators, one call at a time each
    AdminOps,       \* the operations the administrators use in this instance
    Quotas,         \* amounts an administrator may ask for
    DefaultQuota,   \* the column's default (redemption.go:20)
    RowLocks,       \* does the FOR UPDATE of Redeem take the row lock?
    MaxTime,        \* bound of the clock
    MaxCalls,       \* bound on the calls of the consoles
    MaxTries,       \* bound on the codes entered by users
    NoUser, NoCode  \* model values

VARIABLES
    code,       \* the rows of redemptions
    quota,      \* what each user was credited
    tx,         \* the TopUp request of each user; the try-lock admits one
    shown,      \* the rows each console displays, as of its last load
    loading,    \* consoles whose list is being fetched
    drawer,     \* the code whose edit drawer is open in a console
    call,       \* the request each console waits for
    now, calls, tries,
    asked,      \* history: the amount the last create or edit asked for
    payments,   \* history: how often a code was paid out
    payee,      \* history: whom it was last paid out to
    reopened    \* history: how often an update set a paid code back to Enabled

dbVars == <<code, quota>>
pageVars == <<shown, loading, drawer>>
history == <<asked, payments, payee, reopened>>
vars == <<code, quota, tx, shown, loading, drawer, call, now, calls, tries,
          asked, payments, payee, reopened>>

Times == 0..MaxTime     \* 0 as an expiry: never expires
Status == {"Enabled", "Disabled", "Used"}
Row == [live : {"absent", "live", "deleted"}, status : Status, quota : Nat,
        expired : Times, usedBy : Users \cup {NoUser}]
NoRow == [live |-> "absent", status |-> "Disabled", quota |-> 0, expired |-> 0,
          usedBy |-> NoUser]

Idle == [stage |-> "idle"]

(***************************************************************************)
(* Shared tests                                                            *)
(***************************************************************************)

Expired(row) == row.expired # 0 /\ row.expired < now

validateExpiredTime(e) == e = 0 \/ e >= now

(* The rows a running redemption holds.  The option the code passes is     *)
(* taken at its word when RowLocks is set.                                 *)
Locked(c) ==
    \E u \in Users : RowLocks /\ tx[u].stage = "paying" /\ tx[u].code = c

(***************************************************************************)
(* The user                                                                *)
(***************************************************************************)

(* The handler got the user's try-lock; Redeem sleeps a moment before its  *)
(* transaction.  A second request of the same user is refused at once.     *)
TopUp(u, c) ==
    /\ tx[u].stage = "idle" /\ tries < MaxTries
    /\ tx' = [tx EXCEPT ![u] = [stage |-> "sleeping", code |-> c]]
    /\ tries' = tries + 1
    /\ UNCHANGED <<dbVars, pageVars, history, call, now, calls>>

(* Fault: Redeem does not look at the status.                              *)
RedeemableAnyStatus(row) == row.live = "live" /\ ~Expired(row)

Redeemable(row) == row.live = "live" /\ row.status = "Enabled" /\ ~Expired(row)

(* The first half of the transaction: the row is found, enabled and not    *)
(* expired, and its copy is kept; or the request ends with an error.       *)
RedeemRead(u) ==
    /\ tx[u].stage = "sleeping" /\ ~Locked(tx[u].code)
    /\ LET c == tx[u].code
       IN  tx' = [tx EXCEPT ![u] =
               IF Redeemable(code[c])
               THEN [stage |-> "paying", code |-> c, row |-> code[c]]
               ELSE Idle]
    /\ UNCHANGED <<dbVars, pageVars, history, call, now, calls, tries>>

(* The second half: credit, save of the whole copy as used, commit.        *)
RedeemCommit(u) ==
    /\ tx[u].stage = "paying"
    /\ LET c == tx[u].code
       IN  /\ quota' = [quota EXCEPT ![u] = @ + tx[u].row.quota]
           /\ code' = [code EXCEPT ![c] =
                  [tx[u].row EXCEPT !.status = "Used", !.usedBy = u]]
           /\ payments' = [payments EXCEPT ![c] = @ + 1]
           /\ payee' = [payee EXCEPT ![c] = u]
    /\ tx' = [tx EXCEPT ![u] = Idle]
    /\ UNCHANGED <<pageVars, call, now, calls, tries, asked, reopened>>

(* A statement of the transaction fails and all of it is rolled back.      *)
RedeemFails(u) ==
    /\ tx[u].stage \in {"sleeping", "paying"}
    /\ tx' = [tx EXCEPT ![u] = Idle]
    /\ UNCHANGED <<dbVars, pageVars, history, call, now, calls, tries>>

(***************************************************************************)
(* The console page                                                        *)
(***************************************************************************)

(* The list is (re)loaded: the page is opened, paged or searched.          *)
Load(a) ==
    /\ a \notin loading
    /\ loading' = loading \cup {a}
    /\ UNCHANGED <<dbVars, shown, drawer, history, tx, call, now, calls, tries>>

(* What the page decides on: the status and the expiry of a row.           *)
Displayed(row) == [row EXCEPT !.quota = 0, !.usedBy = NoUser]

(* Until the list arrives the page keeps showing the previous one.         *)
Loaded(a) ==
    /\ a \in loading
    /\ loading' = loading \ {a}
    /\ shown' = [shown EXCEPT ![a] =
           [c \in Codes |-> IF code[c].live = "live" THEN Displayed(code[c])
                            ELSE NoRow]]
    /\ UNCHANGED <<dbVars, drawer, history, tx, call, now, calls, tries>>

isRedemptionExpired(row) == row.status = "Enabled" /\ Expired(row)
canEdit(row) == row.status = "Enabled" /\ ~isRedemptionExpired(row)
canToggle(row) == row.status # "Used" /\ ~isRedemptionExpired(row)

OpenDrawer(a, c) ==
    /\ "edit" \in AdminOps
    /\ shown[a][c].live = "live" /\ canEdit(shown[a][c]) /\ drawer[a] = NoCode
    /\ drawer' = [drawer EXCEPT ![a] = c]
    /\ UNCHANGED <<dbVars, shown, loading, history, tx, call, now, calls, tries>>

CloseDrawer(a) ==
    /\ drawer[a] # NoCode
    /\ drawer' = [drawer EXCEPT ![a] = NoCode]
    /\ UNCHANGED <<dbVars, shown, loading, history, tx, call, now, calls, tries>>

Send(a, op, request) ==
    /\ op \in AdminOps /\ call[a].stage = "idle" /\ calls < MaxCalls
    /\ op # "edit" => drawer[a] = NoCode       \* the drawer covers the page
    /\ calls' = calls + 1
    /\ call' = [call EXCEPT ![a] = request]
    /\ UNCHANGED <<dbVars, pageVars, history, tx, now, tries>>

SendCreate(a, n, q, e) ==
    Send(a, "create", [stage |-> "create", left |-> n, quota |-> q, expired |-> e])

(* The form holds what was fetched for it and what was typed over it, so   *)
(* any amount and expiry may be sent.                                      *)
SendEdit(a, q, e) ==
    /\ drawer[a] # NoCode
    /\ Send(a, "edit", [stage |-> "update", code |-> drawer[a],
                        statusOnly |-> FALSE, status |-> "Enabled",
                        quota |-> q, expired |-> e])

newStatus(row) == IF row.status = "Enabled" THEN "Disabled" ELSE "Enabled"

(* handleToggleStatus: the new status follows from the row displayed.      *)
SendToggle(a, c) ==
    /\ shown[a][c].live = "live" /\ canToggle(shown[a][c])
    /\ Send(a, "toggle", [stage |-> "update", code |-> c, statusOnly |-> TRUE,
               status |-> newStatus(shown[a][c]),
               quota |-> 0, expired |-> 0])

SendDelete(a, c) ==
    /\ shown[a][c].live = "live"
    /\ Send(a, "delete", [stage |-> "delete", code |-> c])

SendDeleteInvalid(a) == Send(a, "clean", [stage |-> "clean"])

(* The call of a console ends.  A page that is told of success closes its  *)
(* drawer and reloads the list; one that is not leaves all as it is.       *)
Told(a, success) ==
    /\ call' = [call EXCEPT ![a] = Idle]
    /\ drawer' = IF success /\ call[a].stage = "write" /\ ~call[a].statusOnly
                 THEN [drawer EXCEPT ![a] = NoCode] ELSE drawer
    /\ loading' = IF success THEN loading \cup {a} ELSE loading
    /\ UNCHANGED shown

(***************************************************************************)
(* The handlers of the console                                             *)
(***************************************************************************)

(* The row AddRedemption inserts: status and, for an amount of zero, quota *)
(* are left to the defaults of their columns.                              *)
Inserted(request) ==
    [NoRow EXCEPT !.live = "live", !.status = "Enabled",
                  !.quota = IF request.quota = 0 THEN DefaultQuota
                            ELSE request.quota,
                  !.expired = request.expired]

(* AddRedemption inserts one row after another, each on its own.           *)
AddRedemption(a, c) ==
    /\ call[a].stage = "create" /\ call[a].left > 0
    /\ validateExpiredTime(call[a].expired)
    /\ code[c].live = "absent"
    /\ code' = [code EXCEPT ![c] = Inserted(call[a])]
    /\ asked' = [asked EXCEPT ![c] = call[a].quota]
    /\ call' = [call EXCEPT ![a].left = @ - 1]
    /\ UNCHANGED <<quota, pageVars, tx, now, calls, tries, payments, payee,
                   reopened>>

(* The end of the loop; also its early ends: a past expiry and a failed    *)
(* insert, which keeps the rows already inserted.                          *)
AddRedemptionEnds(a) ==
    /\ call[a].stage = "create"
    /\ \E success \in BOOLEAN :
          /\ success => call[a].left = 0
          /\ Told(a, success)
    /\ UNCHANGED <<dbVars, history, tx, now, calls, tries>>

(* UpdateRedemption up to its write: the row is read without a lock and    *)
(* the fields of this kind of request replaced in the copy.                *)
CleanRedemption(request, row) ==
    IF request.statusOnly THEN [row EXCEPT !.status = request.status]
    ELSE [row EXCEPT !.quota = request.quota, !.expired = request.expired]

UpdateRead(a) ==
    /\ call[a].stage = "update" /\ code[call[a].code].live = "live"
    /\ call[a].statusOnly \/ validateExpiredTime(call[a].expired)
    /\ call' = [call EXCEPT ![a] =
           [stage |-> "write", code |-> @.code, statusOnly |-> @.statusOnly,
            row |-> CleanRedemption(@, code[@.code])]]
    /\ UNCHANGED <<dbVars, pageVars, history, tx, now, calls, tries>>

(* Update: status, amount and expiry of the copy are written back by id,   *)
(* to a row that is not deleted, after any lock on it is released.         *)
UpdateWrite(a) ==
    /\ call[a].stage = "write" /\ ~Locked(call[a].code)
    /\ LET c == call[a].code
           row == call[a].row
           hit == code[c].live = "live"
       IN  /\ code' = IF hit
                      THEN [code EXCEPT ![c].status = row.status,
                                        ![c].quota = row.quota,
                                        ![c].expired = row.expired]
                      ELSE code
           /\ asked' = IF hit /\ ~call[a].statusOnly
                       THEN [asked EXCEPT ![c] = row.quota] ELSE asked
           /\ reopened' = IF hit /\ row.status = "Enabled"
                             /\ code[c].status # "Enabled" /\ payments[c] > 0
                          THEN [reopened EXCEPT ![c] = @ + 1] ELSE reopened
    /\ \E success \in BOOLEAN : Told(a, success)
    /\ UNCHANGED <<quota, tx, now, calls, tries, payments, payee>>

(* The row is gone, the expiry is past, or the database fails.             *)
UpdateRefused(a) ==
    /\ call[a].stage \in {"update", "write"}
    /\ Told(a, FALSE)
    /\ UNCHANGED <<dbVars, history, tx, now, calls, tries>>

DeleteRedemption(a) ==
    /\ call[a].stage = "delete" /\ ~Locked(call[a].code)
    /\ code' = IF code[call[a].code].live = "live"
               THEN [code EXCEPT ![call[a].code].live = "deleted"] ELSE code
    /\ \E success \in BOOLEAN :
          /\ success => code[call[a].code].live = "live"
          /\ Told(a, success)
    /\ UNCHANGED <<quota, history, tx, now, calls, tries>>

Invalid(row) ==
    \/ row.status \in {"Used", "Disabled"}
    \/ row.status = "Enabled" /\ Expired(row)

DeleteInvalidRedemptions(a) ==
    /\ call[a].stage = "clean" /\ \A c \in Codes : ~Locked(c)
    /\ code' = [c \in Codes |->
           IF code[c].live = "live" /\ Invalid(code[c])
           THEN [code[c] EXCEPT !.live = "deleted"] ELSE code[c]]
    /\ \E success \in BOOLEAN : Told(a, success)
    /\ UNCHANGED <<quota, history, tx, now, calls, tries>>

Tick ==
    /\ now < MaxTime
    /\ now' = now + 1
    /\ UNCHANGED <<dbVars, pageVars, history, tx, call, calls, tries>>

(* The table is empty or holds one code.                                   *)
Init ==
    /\ \E first \in Codes \cup {NoCode}, q \in Quotas \ {0}, e \in Times :
          code = [c \in Codes |->
              IF c = first
              THEN [NoRow EXCEPT !.live = "live", !.status = "Enabled",
                                 !.quota = q, !.expired = e]
              ELSE NoRow]
    /\ quota = [u \in Users |-> 0]
    /\ tx = [u \in Users |-> Idle]
    /\ shown = [a \in Consoles |-> [c \in Codes |-> NoRow]]
    /\ loading = {} /\ drawer = [a \in Consoles |-> NoCode]
    /\ call = [a \in Consoles |-> Idle]
    /\ now = 1 /\ calls = 0 /\ tries = 0
    /\ asked = [c \in Codes |-> code[c].quota]
    /\ payments = [c \in Codes |-> 0] /\ payee = [c \in Codes |-> NoUser]
    /\ reopened = [c \in Codes |-> 0]

UserStep ==
    \E u \in Users :
        \/ \E c \in Codes : TopUp(u, c)
        \/ RedeemRead(u) \/ RedeemCommit(u) \/ RedeemFails(u)

PageStep ==
    \E a \in Consoles :
        \/ Load(a) \/ Loaded(a) \/ CloseDrawer(a) \/ SendDeleteInvalid(a)
        \/ \E c \in Codes : OpenDrawer(a, c) \/ SendToggle(a, c) \/ SendDelete(a, c)
        \/ \E q \in Quotas, e \in Times :
              SendEdit(a, q, e) \/ \E n \in {1, 2} : SendCreate(a, n, q, e)

HandlerStep ==
    \E a \in Consoles :
        \/ \E c \in Codes : AddRedemption(a, c)
        \/ AddRedemptionEnds(a)
        \/ UpdateRead(a) \/ UpdateWrite(a) \/ UpdateRefused(a)
        \/ DeleteRedemption(a) \/ DeleteInvalidRedemptions(a)

Next == UserStep \/ PageStep \/ HandlerStep \/ Tick

Spec == Init /\ [][Next]_vars

(***************************************************************************)
(* Properties                                                              *)
(***************************************************************************)

TxOK(t) ==
    \/ t = Idle
    \/ t \in [stage : {"sleeping"}, code : Codes]
    \/ t \in [stage : {"paying"}, code : Codes, row : Row]

CallOK(r) ==
    \/ r = Idle
    \/ r \in [stage : {"create"}, left : 0..2, quota : Nat, expired : Times]
    \/ r \in [stage : {"update"}, code : Codes, statusOnly : BOOLEAN,
              status : Status, quota : Nat, expired : Times]
    \/ r \in [stage : {"write"}, code : Codes, statusOnly : BOOLEAN, row : Row]
    \/ r \in [stage : {"delete"}, code : Codes]
    \/ r = [stage |-> "clean"]

(* Every variable of the code table, the requests and the pages keeps its  *)
(* type.                                                                   *)
RedemptionTypeOK ==
    /\ code \in [Codes -> Row] /\ quota \in [Users -> Nat]
    /\ \A u \in Users : TxOK(tx[u])
    /\ shown \in [Consoles -> [Codes -> Row]] /\ loading \subseteq Consoles
    /\ drawer \in [Consoles -> Codes \cup {NoCode}]
    /\ \A a \in Consoles : CallOK(call[a])
    /\ now \in Times /\ calls \in 0..MaxCalls /\ tries \in 0..MaxTries
    /\ asked \in [Codes -> Nat] /\ payments \in [Codes -> Nat]
    /\ payee \in [Codes -> Users \cup {NoUser}] /\ reopened \in [Codes -> Nat]

(* A code is paid out at most once, as the error of Redeem for a code that *)
(* is not enabled says.  It does not hold: an administrator's update that  *)
(* was read before the payment sets the code back to Enabled.              *)
RedeemedOnce == \A c \in Codes : payments[c] <= 1

(* Redeem itself never pays a code twice, whatever runs beside it: each    *)
(* payment after the first follows an update that set the paid code back   *)
(* to Enabled.                                                             *)
RedeemedOnceUnlessReopened == \A c \in Codes : payments[c] <= 1 + reopened[c]

(* A row that says Used was paid, and names the user who was paid last; no *)
(* update, stale or not, makes it name another.                            *)
UsedNamesThePayee ==
    \A c \in Codes :
        code[c].status = "Used" => payments[c] > 0 /\ code[c].usedBy = payee[c]

(* A deleted code stays deleted and is never paid out: no running          *)
(* redemption and no update in flight brings it back.                      *)
DeletedStaysDead ==
    \A c \in Codes : code[c].live = "deleted" =>
        code'[c].live = "deleted" /\ payments'[c] = payments[c]

(* A code is worth what the last create or edit asked for: changing its    *)
(* status and paying it out leave its amount alone.                        *)
WorthAsAsked ==
    \A c \in Codes : code[c].live = "live" => code[c].quota = asked[c]
=================================================================================
