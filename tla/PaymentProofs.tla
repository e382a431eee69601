---------------------------- MODULE PaymentProofs ----------------------------
(***************************************************************************)
(* Proofs about TopUpOrders and VipActivation, the two tables of orders    *)
(* that the payment providers report on, about the cooldown of             *)
(* withdrawals, and about redemption codes and check-ins.                  *)
(*                                                                         *)
(* Top-up orders: on any number of nodes only what was paid is credited;   *)
(* on a single node, without notices of payments under way, the row of an  *)
(* order tells what was booked for it.  VIP activations: for any number of *)
(* orders and any time.  Withdrawals: for any cooldown, of a user who      *)
(* sends one request at a time.  Codes: next to one administrator, for     *)
(* amounts above zero.  Check-ins: for any pages and days, with and        *)
(* without transactions.  They share no state.                             *)
(***************************************************************************)
EXTENDS MCPayments, Sequences, TLAPS

Final == {"none", "closed", "refunded"}

(* What a notice says has happened at the provider.                        *)
NoticeTells(o) ==
    /\ "success" \in due[o] => prov[o] \in {"paid", "refunded"}
    /\ due[o] \cap {"failed", "expired"} # {} =>
          prov[o] = "closed" \/ (prov[o] = "refunded" /\ provider[o] = "alipay")
    /\ "interim" \in due[o] => Interim
    /\ prov[o] = "none" => due[o] = {}

(* An order is known to the provider from the link on, and new before it.  *)
LinkTells(o) ==
    /\ link[o] # "given" => prov[o] = "none"
    /\ status[o] = "none" => link[o] = "none" /\ flows[o] = {} /\ commission[o] = "none"

(* Credited by its row; taken back and never settled again.                *)
RowCredited(o) ==
    /\ status[o] \in {"success", "reversed"} => "recharge" \in flows[o]
    /\ "reverse" \in flows[o] => status[o] \in {"reversed", "failed", "expired"}

Sound(o) ==
    /\ "recharge" \in flows[o] => prov[o] \in {"paid", "refunded"}
    /\ "reverse" \in flows[o] => "recharge" \in flows[o] /\ commission[o] # "settled"
    /\ commission[o] \in {"settled", "reversed"} => "recharge" \in flows[o]

BooksOf(o) == NoticeTells(o) /\ LinkTells(o) /\ RowCredited(o) /\ Sound(o)

BooksInv == TopUpTypeOK /\ \A o \in Orders : BooksOf(o)

(* A notice is only ever dropped by its answer.                            *)
LEMMA AcknowledgeDrops ==
    ASSUME NEW o \in Orders, NEW k, NEW a, TopUpTypeOK, Acknowledge(o, k, a)
    PROVE  /\ due' \in [Orders -> SUBSET Notices]
           /\ \A p \in Orders : due'[p] \subseteq due[p]
  BY DEF TopUpTypeOK, Acknowledge

(* A step that leaves the provider alone and drops notices leaves what the *)
(* notices tell.                                                           *)
LEMMA NoticesDropped ==
    ASSUME TopUpTypeOK, UNCHANGED provVars, \A p \in Orders : due'[p] \subseteq due[p],
           NEW p \in Orders, NoticeTells(p)
    PROVE  NoticeTells(p)'
  BY DEF TopUpTypeOK, provVars, NoticeTells

(* What the transactions on a locked row do.                               *)
LEMMA SettleRow ==
    ASSUME TopUpTypeOK, NEW o \in Orders, settleTopUpCommissions(o)
    PROVE  /\ commission' \in [Orders -> {"none", "settled", "failed", "reversed"}]
           /\ \A p \in Orders : p # o => commission'[p] = commission[p]
           /\ commission'[o] = commission[o] \/ commission[o] = "none"
           /\ commission'[o] = "reversed" => commission[o] = "reversed"
<1>1. PICK c \in IF commission[o] # "none" THEN {commission[o]}
                 ELSE IF Faults THEN {"settled", "failed", "none"} ELSE {"settled"} :
          commission' = [commission EXCEPT ![o] = c]
  BY DEF settleTopUpCommissions
<1>2. /\ c \in {"none", "settled", "failed", "reversed"} /\ (c = commission[o] \/ commission[o] = "none")
      /\ c = "reversed" => commission[o] = "reversed"
  BY <1>1 DEF TopUpTypeOK
<1>3. QED BY <1>1, <1>2 DEF TopUpTypeOK

LEMMA CompleteRow ==
    ASSUME TopUpTypeOK, NEW o \in Orders, CompleteTopUpOrder(o)
    PROVE  /\ status' \in [Orders -> Statuses]
           /\ flows' \in [Orders -> SUBSET {"recharge", "reverse"}]
           /\ commission' \in [Orders -> {"none", "settled", "failed", "reversed"}]
           /\ \A p \in Orders : p # o => /\ status'[p] = status[p] /\ flows'[p] = flows[p]
                                         /\ commission'[p] = commission[p]
           /\ \/ /\ status'[o] = "success"
                 /\ \/ status[o] = "pending" /\ flows'[o] = flows[o] \cup {"recharge"}
                    \/ status[o] = "success" /\ flows'[o] = flows[o]
                 /\ commission'[o] = commission[o] \/ commission[o] = "none"
                 /\ commission'[o] = "reversed" => commission[o] = "reversed"
              \/ /\ status[o] \notin {"pending", "success"}
                 /\ status'[o] = status[o] /\ flows'[o] = flows[o] /\ commission'[o] = commission[o]
<1>1. CASE status[o] = "success" /\ settleTopUpCommissions(o) /\ UNCHANGED <<status, flows>>
  BY <1>1, SettleRow DEF TopUpTypeOK
<1>2. CASE /\ status[o] = "pending" /\ status' = [status EXCEPT ![o] = "success"]
           /\ flows' = [flows EXCEPT ![o] = @ \cup {"recharge"}] /\ settleTopUpCommissions(o)
  BY <1>2, SettleRow DEF TopUpTypeOK, Statuses
<1>3. CASE status[o] \notin {"pending", "success"} /\ UNCHANGED rowVars
  BY <1>3 DEF TopUpTypeOK, rowVars
<1>4. QED BY <1>1, <1>2, <1>3 DEF CompleteTopUpOrder

LEMMA ReverseRow ==
    ASSUME TopUpTypeOK, NEW o \in Orders, ReverseTopUpOrder(o)
    PROVE  /\ status' \in [Orders -> Statuses]
           /\ flows' \in [Orders -> SUBSET {"recharge", "reverse"}]
           /\ commission' \in [Orders -> {"none", "settled", "failed", "reversed"}]
           /\ \A p \in Orders : p # o => /\ status'[p] = status[p] /\ flows'[p] = flows[p]
                                         /\ commission'[p] = commission[p]
           /\ \/ /\ status[o] = "success" /\ status'[o] = "reversed"
                 /\ flows'[o] = flows[o] \cup {"reverse"}
                 /\ commission'[o] = IF commission[o] = "settled" THEN "reversed" ELSE commission[o]
              \/ status'[o] = status[o] /\ flows'[o] = flows[o] /\ commission'[o] = commission[o]
  BY DEF TopUpTypeOK, ReverseTopUpOrder, rowVars, Statuses

(* Completing an order that has been paid leaves the books sound.          *)
LEMMA CompleteKeepsBooks ==
    ASSUME BooksInv, NEW o \in Orders, CompleteTopUpOrder(o), prov[o] \in {"paid", "refunded"},
           UNCHANGED <<provVars, failing>>, due' \in [Orders -> SUBSET Notices],
           \A p \in Orders : due'[p] \subseteq due[p]
    PROVE  BooksInv'
<1>1. TopUpTypeOK'
  BY CompleteRow DEF BooksInv, TopUpTypeOK, provVars
<1>2. ASSUME NEW p \in Orders PROVE BooksOf(p)'
  <2>1. NoticeTells(p)'
    BY NoticesDropped DEF BooksInv, BooksOf
  <2>2. CASE p # o
    BY <2>1, <2>2, CompleteRow DEF BooksInv, BooksOf, LinkTells, RowCredited, Sound, provVars
  <2>3. CASE p = o
    <3>1. LinkTells(o) /\ RowCredited(o) /\ Sound(o) /\ prov'[o] = prov[o] /\ link'[o] = link[o]
      BY DEF BooksInv, BooksOf, provVars
    <3>2. flows[o] \in SUBSET {"recharge", "reverse"}
      BY DEF BooksInv, TopUpTypeOK
    <3>3. /\ status'[o] = "success" => "recharge" \in flows'[o] /\ "reverse" \notin flows'[o]
          /\ status'[o] # "success" => /\ status'[o] = status[o] /\ flows'[o] = flows[o]
                                       /\ commission'[o] = commission[o]
      BY <3>1, <3>2, CompleteRow DEF RowCredited, BooksInv
    <3>4. LinkTells(o)' /\ RowCredited(o)' /\ Sound(o)'
      BY <3>1, <3>3 DEF LinkTells, RowCredited, Sound
    <3>5. QED BY <2>1, <2>3, <3>4 DEF BooksOf
  <2>4. QED BY <2>2, <2>3
<1>3. QED BY <1>1, <1>2 DEF BooksInv

LEMMA ReverseKeepsBooks ==
    ASSUME BooksInv, NEW o \in Orders, ReverseTopUpOrder(o),
           UNCHANGED <<provVars, failing>>, due' \in [Orders -> SUBSET Notices],
           \A p \in Orders : due'[p] \subseteq due[p]
    PROVE  BooksInv'
<1>1. TopUpTypeOK'
  BY ReverseRow DEF BooksInv, TopUpTypeOK, provVars
<1>2. ASSUME NEW p \in Orders PROVE BooksOf(p)'
  <2>1. NoticeTells(p)'
    BY NoticesDropped DEF BooksInv, BooksOf
  <2>2. CASE p # o
    BY <2>1, <2>2, ReverseRow DEF BooksInv, BooksOf, LinkTells, RowCredited, Sound, provVars
  <2>3. CASE p = o
    BY <2>1, <2>3, ReverseRow DEF BooksInv, BooksOf, LinkTells, RowCredited, Sound, provVars, TopUpTypeOK
  <2>4. QED BY <2>2, <2>3
<1>3. QED BY <1>1, <1>2 DEF BooksInv

(* A notice that changes no row.                                           *)
LEMMA OnlyNotices ==
    ASSUME BooksInv, UNCHANGED <<rowVars, provVars>>, due' \in [Orders -> SUBSET Notices],
           \A p \in Orders : due'[p] \subseteq due[p],
           \/ UNCHANGED failing
           \/ failing' \in [Nodes -> [order : Orders \cup {None}, to : {"failed", "expired"},
                                     locked : BOOLEAN, notice : Notices \cup {"none"}]]
    PROVE  BooksInv'
<1>1. TopUpTypeOK'
  BY DEF BooksInv, TopUpTypeOK, rowVars, provVars
<1>2. ASSUME NEW p \in Orders PROVE BooksOf(p)'
  <2>1. NoticeTells(p)'
    BY NoticesDropped DEF BooksInv, BooksOf
  <2>2. QED BY <2>1 DEF BooksInv, BooksOf, LinkTells, RowCredited, Sound, rowVars, provVars
<1>3. QED BY <1>1, <1>2 DEF BooksInv

LEMMA BooksInit == Init => BooksInv
  BY DEF Init, BooksInv, TopUpTypeOK, BooksOf, NoticeTells, LinkTells, RowCredited, Sound, Idle, Statuses

(* Every step keeps the books; the ones that complete an order know that   *)
(* it was paid from the notice, or from the administrator who checked.     *)
LEMMA BooksNext ==
    ASSUME AdminChecks, BooksInv, [Next]_vars
    PROVE  BooksInv'
<1> USE DEF BooksInv
<1>1. ASSUME NEW o \in Orders, NEW p \in Providers, RequestPay(o, p) PROVE BooksInv'
  <2>1. TopUpTypeOK'
    BY <1>1 DEF RequestPay, TopUpTypeOK, Statuses
  <2>2. ASSUME NEW q \in Orders PROVE BooksOf(q)'
    BY <1>1 DEF RequestPay, TopUpTypeOK, BooksOf, NoticeTells, LinkTells, RowCredited, Sound
  <2>3. QED BY <2>1, <2>2
<1>2. ASSUME NEW o \in Orders, LinkGiven(o) PROVE BooksInv'
  <2>1. TopUpTypeOK'
    BY <1>2 DEF LinkGiven, TopUpTypeOK, rowVars
  <2>2. ASSUME NEW q \in Orders PROVE BooksOf(q)'
    BY <1>2 DEF LinkGiven, TopUpTypeOK, BooksOf, NoticeTells, LinkTells, RowCredited, Sound, rowVars
  <2>3. QED BY <2>1, <2>2
<1>3. ASSUME NEW o \in Orders, NEW n \in Nodes, LinkRefused(n, o) PROVE BooksInv'
  <2>1. TopUpTypeOK'
    BY <1>3 DEF LinkRefused, TopUpTypeOK, Statuses
  <2>2. ASSUME NEW q \in Orders PROVE BooksOf(q)'
    BY <1>3 DEF LinkRefused, TopUpTypeOK, BooksOf, NoticeTells, LinkTells, RowCredited, Sound
  <2>3. QED BY <2>1, <2>2
<1>4. ASSUME NEW o \in Orders, Pay(o) PROVE BooksInv'
  <2>1. TopUpTypeOK'
    BY <1>4 DEF Pay, TopUpTypeOK, rowVars, Notices
  <2>2. ASSUME NEW q \in Orders PROVE BooksOf(q)'
    BY <1>4 DEF Pay, TopUpTypeOK, BooksOf, NoticeTells, LinkTells, RowCredited, Sound, rowVars
  <2>3. QED BY <2>1, <2>2
<1>5. ASSUME NEW o \in Orders, Close(o) PROVE BooksInv'
  <2>1. TopUpTypeOK'
    BY <1>5 DEF Close, TopUpTypeOK, rowVars, Notices
  <2>2. ASSUME NEW q \in Orders PROVE BooksOf(q)'
    BY <1>5 DEF Close, TopUpTypeOK, BooksOf, NoticeTells, LinkTells, RowCredited, Sound, rowVars
  <2>3. QED BY <2>1, <2>2
<1>6. ASSUME NEW o \in Orders, UnderWay(o) PROVE BooksInv'
  <2>1. TopUpTypeOK'
    BY <1>6 DEF UnderWay, TopUpTypeOK, rowVars, provVars, Notices
  <2>2. ASSUME NEW q \in Orders PROVE BooksOf(q)'
    BY <1>6 DEF UnderWay, TopUpTypeOK, BooksOf, NoticeTells, LinkTells, RowCredited, Sound, rowVars, provVars
  <2>3. QED BY <2>1, <2>2
<1>7. ASSUME NEW o \in Orders, Refund(o) PROVE BooksInv'
  <2>1. TopUpTypeOK'
    BY <1>7 DEF Refund, TopUpTypeOK, rowVars, Notices
  <2>2. ASSUME NEW q \in Orders PROVE BooksOf(q)'
    BY <1>7 DEF Refund, TopUpTypeOK, BooksOf, NoticeTells, LinkTells, RowCredited, Sound, rowVars
  <2>3. QED BY <2>1, <2>2
<1>8. ASSUME NEW o \in Orders, NEW k, NotifyFails(o, k) PROVE BooksInv'
  <2>1. due' \in [Orders -> SUBSET Notices] /\ \A p \in Orders : due'[p] \subseteq due[p]
    BY <1>8, AcknowledgeDrops DEF NotifyFails
  <2>2. QED BY <1>8, <2>1, OnlyNotices DEF NotifyFails
<1>9. ASSUME NEW o \in Orders, NEW n \in Nodes, CompletedUnpaid(n, o) PROVE BooksInv'
  <2>1. due' \in [Orders -> SUBSET Notices] /\ \A p \in Orders : due'[p] \subseteq due[p]
    BY <1>9, AcknowledgeDrops DEF CompletedUnpaid
  <2>2. QED BY <1>9, <2>1, OnlyNotices DEF CompletedUnpaid
<1>10. ASSUME NEW o \in Orders, NEW n \in Nodes, SuccessNotify(n, o) PROVE BooksInv'
  <2>1. due' \in [Orders -> SUBSET Notices] /\ \A p \in Orders : due'[p] \subseteq due[p]
    BY <1>10, AcknowledgeDrops DEF SuccessNotify
  <2>2. CASE UNCHANGED rowVars
    BY <1>10, <2>1, <2>2, OnlyNotices DEF SuccessNotify
  <2>3. CASE CompleteTopUpOrder(o)
    <3>1. prov[o] \in {"paid", "refunded"}
      BY <1>10 DEF SuccessNotify, BooksOf, NoticeTells
    <3>2. QED BY <1>10, <2>1, <2>3, <3>1, CompleteKeepsBooks DEF SuccessNotify
  <2>4. QED BY <1>10, <2>2, <2>3 DEF SuccessNotify
<1>11. ASSUME NEW o \in Orders, NEW n \in Nodes, RefundNotify(n, o) PROVE BooksInv'
  <2>1. due' \in [Orders -> SUBSET Notices] /\ \A p \in Orders : due'[p] \subseteq due[p]
    BY <1>11, AcknowledgeDrops DEF RefundNotify
  <2>2. QED BY <1>11, <2>1, ReverseKeepsBooks DEF RefundNotify
<1>12. ASSUME NEW o \in Orders, NEW n \in Nodes, NEW k \in due[o], FailNotify(n, o, k) PROVE BooksInv'
  <2>1. due' \in [Orders -> SUBSET Notices] /\ \A p \in Orders : due'[p] \subseteq due[p]
    BY <1>12, AcknowledgeDrops DEF FailNotify, TopUpTypeOK
  <2>2. failing' \in [Nodes -> [order : Orders \cup {None}, to : {"failed", "expired"},
                                locked : BOOLEAN, notice : Notices \cup {"none"}]]
    <3> DEFINE H == [order : Orders \cup {None}, to : {"failed", "expired"},
                     locked : BOOLEAN, notice : Notices \cup {"none"}]
               l == provider[o] \in LocksWhenFailing
               r == [order |-> o, to |-> IF k = "expired" THEN k ELSE "failed", locked |-> l, notice |-> k]
    <3>1. failing \in [Nodes -> H] /\ k \in Notices
      BY <1>12 DEF TopUpTypeOK
    <3>2. l \in BOOLEAN
      OBVIOUS
    <3>3. r \in H
      <4> HIDE DEF l
      <4> QED BY <3>1, <3>2
    <3>4. failing' = failing \/ failing' = [failing EXCEPT ![n] = r]
      BY <1>12 DEF FailNotify
    <3> HIDE DEF r, H
    <3>5. failing' \in [Nodes -> H]
      BY <3>1, <3>3, <3>4
    <3>6. QED BY <3>5 DEF H
  <2>3. QED BY <1>12, <2>1, <2>2, OnlyNotices DEF FailNotify
<1>13. ASSUME NEW n \in Nodes, SaveFailed(n) PROVE BooksInv'
  <2>1. due' \in [Orders -> SUBSET Notices] /\ \A p \in Orders : due'[p] \subseteq due[p]
    BY <1>13 DEF SaveFailed, Acknowledge, TopUpTypeOK
  <2>2. TopUpTypeOK'
    <3>1. status' \in [Orders -> Statuses]
      BY <1>13 DEF SaveFailed, TopUpTypeOK, Statuses
    <3>2. failing' \in [Nodes -> [order : Orders \cup {None}, to : {"failed", "expired"},
                                  locked : BOOLEAN, notice : Notices \cup {"none"}]]
      BY <1>13 DEF SaveFailed, TopUpTypeOK, Idle
    <3>3. QED BY <1>13, <2>1, <3>1, <3>2 DEF SaveFailed, TopUpTypeOK, provVars
  <2>3. ASSUME NEW q \in Orders PROVE BooksOf(q)'
    <3>1. NoticeTells(q)'
      BY <1>13, <2>1, NoticesDropped DEF SaveFailed, BooksOf
    <3>2. status'[q] = status[q] \/ status'[q] \in {"failed", "expired"}
      BY <1>13 DEF SaveFailed, TopUpTypeOK
    <3>3. QED BY <1>13, <3>1, <3>2 DEF SaveFailed, BooksOf, LinkTells, RowCredited, Sound, provVars
  <2>4. QED BY <2>2, <2>3
<1>14. ASSUME NEW o \in Orders, NEW n \in Nodes, AdminCompleteTopUp(n, o) PROVE BooksInv'
  <2>1. due' \in [Orders -> SUBSET Notices] /\ \A p \in Orders : due'[p] \subseteq due[p]
    BY <1>14 DEF AdminCompleteTopUp, TopUpTypeOK
  <2>2. QED BY <1>14, <2>1, CompleteKeepsBooks DEF AdminCompleteTopUp
<1>15. ASSUME NEW o \in Orders, AdminReverseTopUpOrder(o) PROVE BooksInv'
  <2>1. due' \in [Orders -> SUBSET Notices] /\ \A p \in Orders : due'[p] \subseteq due[p]
    BY <1>15 DEF AdminReverseTopUpOrder, TopUpTypeOK
  <2>2. QED BY <1>15, <2>1, ReverseKeepsBooks DEF AdminReverseTopUpOrder
<1>16. CASE UNCHANGED vars
  <2>1. TopUpTypeOK'
    BY <1>16 DEF vars, rowVars, provVars, TopUpTypeOK
  <2>2. ASSUME NEW q \in Orders PROVE BooksOf(q)'
    BY <1>16 DEF vars, rowVars, provVars, BooksOf, NoticeTells, LinkTells, RowCredited, Sound
  <2>3. QED BY <2>1, <2>2
<1>17. QED
  BY <1>1, <1>2, <1>3, <1>4, <1>5, <1>6, <1>7, <1>8, <1>9, <1>10, <1>11, <1>12, <1>13,
     <1>14, <1>15, <1>16 DEF Next

(* On any number of nodes, whatever the providers report and whatever is   *)
(* overwritten: only what was paid is credited, and only what was credited *)
(* is taken back or earns a commission (service/topup_completion.go,       *)
(* service/payment_reverse.go).                                            *)
THEOREM BooksStaySound ==
    ASSUME AdminChecks
    PROVE  Spec => [](TopUpTypeOK /\ BooksAreSound)
<1>1. BooksInv => TopUpTypeOK /\ BooksAreSound
  BY DEF BooksInv, BooksOf, Sound, BooksAreSound
<1>2. QED BY <1>1, BooksInit, BooksNext, PTL DEF Spec

(***************************************************************************)
(* One node                                                                *)
(***************************************************************************)

OneNode == \A m, n \in Nodes : m = n

(* Between its read and its save a handler finds the order as it was: no   *)
(* notice of success can be pending, or it waits for the lock.             *)
HandlerWaits(o) ==
    \A n \in Nodes : failing[n].order = o =>
        /\ status[o] = "pending" /\ link[o] # "asked" /\ prov[o] \in Final
        /\ failing[n].locked \/ prov[o] # "refunded"

Unpaid(o) == status[o] \in {"failed", "expired"} => prov[o] \in Final /\ link[o] # "asked"

Tells(o) ==
    /\ "recharge" \in flows[o] <=> status[o] \in {"success", "reversed"}
    /\ "reverse" \in flows[o] <=> status[o] = "reversed"

Follows(o) == commission[o] = "settled" => status[o] = "success"

RowOf(o) == HandlerWaits(o) /\ Unpaid(o) /\ Tells(o) /\ Follows(o)

RowsInv == BooksInv /\ \A o \in Orders : RowOf(o)

(* A step that changes neither the rows nor the handlers, and the provider *)
(* and the link only of orders that are still being asked for, open or     *)
(* paid, keeps the rows.                                                   *)
LEMMA ProviderKeepsRows ==
    ASSUME RowsInv, UNCHANGED <<rowVars, failing>>,
           \A o \in Orders :
              \/ prov'[o] = prov[o] /\ link'[o] = link[o]
              \/ link[o] = "asked" \/ prov[o] \in {"open", "paid"},
           NEW q \in Orders
    PROVE  RowOf(q)'
  BY DEF RowsInv, RowOf, HandlerWaits, Unpaid, Tells, Follows, Final, rowVars

(* No handler is failing an order that is being completed.                 *)
LEMMA CompleteKeepsRows ==
    ASSUME RowsInv, NEW o \in Orders, CompleteTopUpOrder(o), UNCHANGED <<provVars, failing>>,
           \A n \in Nodes : failing[n].order # o,
           NEW q \in Orders
    PROVE  RowOf(q)'
<1>1. TopUpTypeOK /\ RowOf(q) /\ BooksOf(q)
  BY DEF RowsInv, BooksInv
<1>2. CASE q # o
  BY <1>1, <1>2, CompleteRow DEF RowOf, HandlerWaits, Unpaid, Tells, Follows, provVars
<1>3. CASE q = o
  <2>1. \/ /\ status[o] \in {"pending", "success"} /\ status'[o] = "success"
           /\ "recharge" \in flows'[o] /\ "reverse" \notin flows'[o]
        \/ status'[o] = status[o] /\ flows'[o] = flows[o] /\ commission'[o] = commission[o]
    BY <1>1, <1>3, CompleteRow DEF RowOf, Tells
  <2>2. QED BY <1>1, <1>3, <2>1 DEF RowOf, HandlerWaits, Unpaid, Tells, Follows, provVars
<1>4. QED BY <1>2, <1>3

LEMMA ReverseKeepsRows ==
    ASSUME RowsInv, NEW o \in Orders, ReverseTopUpOrder(o), UNCHANGED <<provVars, failing>>,
           NEW q \in Orders
    PROVE  RowOf(q)'
<1>1. TopUpTypeOK /\ RowOf(q)
  BY DEF RowsInv, BooksInv
<1>2. CASE q # o
  BY <1>1, <1>2, ReverseRow DEF RowOf, HandlerWaits, Unpaid, Tells, Follows, provVars
<1>3. CASE q = o
  BY <1>1, <1>3, ReverseRow DEF RowOf, HandlerWaits, Unpaid, Tells, Follows, provVars
<1>4. QED BY <1>2, <1>3

LEMMA RowsInit == Init => RowsInv
<1>1. ASSUME Init, NEW o \in Orders PROVE RowOf(o)
  BY <1>1, TopUpAssumption DEF Init, RowOf, HandlerWaits, Unpaid, Tells, Follows, Idle
<1>2. QED BY <1>1, BooksInit DEF RowsInv

LEMMA RowsNext ==
    ASSUME AdminChecks, OneNode, ~Interim, RowsInv, [Next]_vars
    PROVE  RowsInv'
<1>0. BooksInv /\ BooksInv' /\ TopUpTypeOK
  BY BooksNext DEF RowsInv, BooksInv
<1> SUFFICES ASSUME NEW q \in Orders PROVE RowOf(q)'
  BY <1>0 DEF RowsInv
<1>q. RowOf(q) /\ BooksOf(q)
  BY <1>0 DEF RowsInv, BooksInv
<1>1. ASSUME NEW o \in Orders, NEW p \in Providers, RequestPay(o, p) PROVE RowOf(q)'
  BY <1>0, <1>1, <1>q DEF RequestPay, TopUpTypeOK, RowOf, HandlerWaits, Unpaid, Tells, Follows,
     BooksOf, LinkTells
<1>2. ASSUME NEW o \in Orders, LinkGiven(o) PROVE RowOf(q)'
  BY <1>0, <1>2, ProviderKeepsRows DEF LinkGiven, TopUpTypeOK, rowVars
<1>3. ASSUME NEW o \in Orders, NEW n \in Nodes, LinkRefused(n, o) PROVE RowOf(q)'
  <2>1. \A m \in Nodes : failing[m] = Idle /\ failing[m].order \notin Orders
    BY <1>3, TopUpAssumption DEF LinkRefused, OneNode, Idle
  <2>2. link[o] = "asked" /\ prov[o] = "none" /\ status[o] # "none"
    BY <1>0, <1>3 DEF LinkRefused, BooksInv, BooksOf, LinkTells
  <2>3. /\ "recharge" \notin flows[o] /\ "reverse" \notin flows[o] /\ commission[o] # "settled"
        /\ status[o] \notin {"success", "reversed", "failed", "expired"}
    BY <1>0, <2>2 DEF RowsInv, RowOf, Unpaid, Tells, Follows, BooksInv, BooksOf, Sound, TopUpTypeOK
  <2>4. CASE q # o
    <3>1. \A m \in Nodes : failing'[m].order # q
      BY <1>0, <1>3, <2>1, <2>4 DEF LinkRefused, TopUpTypeOK
    <3>2. /\ status'[q] = status[q] /\ link'[q] = link[q] /\ UNCHANGED <<prov, flows, commission>>
      BY <1>0, <1>3, <2>4 DEF LinkRefused, TopUpTypeOK
    <3>3. QED BY <1>q, <3>1, <3>2 DEF RowOf, HandlerWaits, Unpaid, Tells, Follows
  <2>5. CASE q = o
    <3>1. /\ link'[o] = "refused" /\ UNCHANGED <<prov, flows, commission>>
          /\ (status'[o] = "failed" /\ provider[o] \in {"waffo", "pancake"}) \/ status'[o] = status[o]
      BY <1>0, <1>3 DEF LinkRefused, TopUpTypeOK
    <3>2. status[o] = "pending"
      BY <1>0, <2>2, <2>3 DEF TopUpTypeOK, Statuses
    <3>3. \A m \in Nodes : failing'[m].order = o => status'[o] = "pending"
      BY <1>0, <1>3, <2>1, <3>1, <3>2 DEF LinkRefused, TopUpTypeOK
    <3>4. QED BY <2>2, <2>3, <2>5, <3>1, <3>2, <3>3
                 DEF RowOf, HandlerWaits, Unpaid, Tells, Follows, Final
  <2>6. QED BY <2>4, <2>5
<1>4. ASSUME NEW o \in Orders, Pay(o) PROVE RowOf(q)'
  BY <1>0, <1>4, ProviderKeepsRows DEF Pay, TopUpTypeOK, rowVars
<1>5. ASSUME NEW o \in Orders, Close(o) PROVE RowOf(q)'
  BY <1>0, <1>5, ProviderKeepsRows DEF Close, TopUpTypeOK, rowVars
<1>6. ASSUME NEW o \in Orders, UnderWay(o) PROVE RowOf(q)'
  BY <1>0, <1>6, ProviderKeepsRows DEF UnderWay, TopUpTypeOK, rowVars, provVars
<1>7. ASSUME NEW o \in Orders, Refund(o) PROVE RowOf(q)'
  BY <1>0, <1>7, ProviderKeepsRows DEF Refund, TopUpTypeOK, rowVars
<1>8. ASSUME NEW o \in Orders, NEW k, NotifyFails(o, k) PROVE RowOf(q)'
  BY <1>8, ProviderKeepsRows DEF NotifyFails, provVars
<1>9. ASSUME NEW o \in Orders, NEW n \in Nodes, CompletedUnpaid(n, o) PROVE RowOf(q)'
  BY <1>9, ProviderKeepsRows DEF CompletedUnpaid, provVars
<1>10. ASSUME NEW o \in Orders, NEW n \in Nodes, SuccessNotify(n, o) PROVE RowOf(q)'
  <2>1. CASE UNCHANGED rowVars
    BY <1>10, <2>1, ProviderKeepsRows DEF SuccessNotify, provVars
  <2>2. CASE CompleteTopUpOrder(o)
    <3>1. prov[o] \in {"paid", "refunded"}
      BY <1>0, <1>10 DEF SuccessNotify, BooksInv, BooksOf, NoticeTells
    <3>2. \A m \in Nodes : failing[m].order # o
      BY <1>10, <3>1 DEF SuccessNotify, LockOrder, OneNode, RowsInv, RowOf, HandlerWaits, Final
    <3>3. QED BY <1>10, <2>2, <3>2, CompleteKeepsRows DEF SuccessNotify
  <2>3. QED BY <1>10, <2>1, <2>2 DEF SuccessNotify
<1>11. ASSUME NEW o \in Orders, NEW n \in Nodes, RefundNotify(n, o) PROVE RowOf(q)'
  BY <1>11, ReverseKeepsRows DEF RefundNotify
<1>12. ASSUME NEW o \in Orders, NEW n \in Nodes, NEW k \in due[o], FailNotify(n, o, k) PROVE RowOf(q)'
  <2>1. CASE UNCHANGED failing
    BY <1>12, <2>1, ProviderKeepsRows DEF FailNotify, provVars
  <2>2. CASE failing' # failing
    <3> DEFINE r == failing'[n]
    <3>1. /\ r.order = o /\ status[o] = "pending"
          /\ r.locked = (provider[o] \in LocksWhenFailing)
      BY <1>0, <1>12, <2>2 DEF FailNotify, TopUpTypeOK
    <3>2. k \in {"failed", "expired"}
      BY <1>0, <1>12 DEF FailNotify, BooksInv, BooksOf, NoticeTells
    <3>3. prov[o] = "closed" \/ (prov[o] = "refunded" /\ provider[o] = "alipay")
      BY <1>0, <1>12, <3>2 DEF BooksInv, BooksOf, NoticeTells
    <3>4. link[o] = "given"
      BY <1>0, <3>3 DEF BooksInv, BooksOf, LinkTells
    <3>5. HandlerWaits(q)'
      <4>1. \A m \in Nodes : m = n
        BY <1>12 DEF OneNode
      <4>2. UNCHANGED <<status, link, prov>>
        BY <1>12 DEF FailNotify, rowVars, provVars
      <4>3. prov[o] = "refunded" => r.locked
        BY <3>1, <3>3 DEF LocksWhenFailing
      <4>4. QED BY <3>1, <3>3, <3>4, <4>1, <4>2, <4>3 DEF HandlerWaits, Final
    <3>6. QED BY <1>12, <1>q, <3>5 DEF FailNotify, RowOf, Unpaid, Tells, Follows, rowVars, provVars
  <2>3. QED BY <2>1, <2>2
<1>13. ASSUME NEW n \in Nodes, SaveFailed(n) PROVE RowOf(q)'
  <2>1. \A m \in Nodes : failing'[m].order \notin Orders
    BY <1>0, <1>13, TopUpAssumption DEF SaveFailed, OneNode, Idle, TopUpTypeOK
  <2>2. CASE failing[n].order # q
    BY <1>0, <1>13, <1>q, <2>1, <2>2
       DEF SaveFailed, TopUpTypeOK, RowOf, HandlerWaits, Unpaid, Tells, Follows, provVars
  <2>3. CASE failing[n].order = q
    <3>1. status[q] = "pending" /\ link[q] # "asked" /\ prov[q] \in Final
      BY <1>13, <1>q, <2>3 DEF RowOf, HandlerWaits
    <3>2. status'[q] \in {"failed", "expired"}
      BY <1>0, <1>13, <2>3 DEF SaveFailed, TopUpTypeOK
    <3>3. QED BY <1>13, <1>q, <2>1, <3>1, <3>2
                 DEF SaveFailed, RowOf, HandlerWaits, Unpaid, Tells, Follows, provVars
  <2>4. QED BY <2>2, <2>3
<1>14. ASSUME NEW o \in Orders, NEW n \in Nodes, AdminCompleteTopUp(n, o) PROVE RowOf(q)'
  <2>1. \A m \in Nodes : failing[m].order # o
    BY <1>14 DEF AdminCompleteTopUp, LockOrder, OneNode, RowsInv, RowOf, HandlerWaits, Final
  <2>2. QED BY <1>14, <2>1, CompleteKeepsRows DEF AdminCompleteTopUp
<1>15. ASSUME NEW o \in Orders, AdminReverseTopUpOrder(o) PROVE RowOf(q)'
  BY <1>15, ReverseKeepsRows DEF AdminReverseTopUpOrder
<1>16. CASE UNCHANGED vars
  BY <1>16, ProviderKeepsRows DEF vars, provVars
<1>17. QED
  BY <1>1, <1>2, <1>3, <1>4, <1>5, <1>6, <1>7, <1>8, <1>9, <1>10, <1>11, <1>12, <1>13,
     <1>14, <1>15, <1>16 DEF Next

(* On one node, when no notice of a payment under way fails its order: the *)
(* row tells what was booked for the order (CompleteTopUpOrder,            *)
(* ReverseTopUpOrder and LockOrder), the inviter keeps a commission only   *)
(* of an order that stands (settleTopUpCommissionsTx), and no order is     *)
(* failed that was paid and not refunded (UpdatePendingTopUpStatus).       *)
THEOREM RowsTellBooks ==
    ASSUME AdminChecks, OneNode, ~Interim
    PROVE  Spec => []OrdersTellBooks
<1>2. RowsInv => OrderTellsBooks
  BY DEF RowsInv, RowOf, Tells, OrderTellsBooks
<1>3. RowsInv => CommissionFollowsOrder
  BY DEF RowsInv, RowOf, Follows, CommissionFollowsOrder
<1>4. RowsInv => FailedWasUnpaid
  BY DEF RowsInv, RowOf, Unpaid, Final, FailedWasUnpaid
<1>5. RowsInv => OrdersTellBooks
  BY <1>2, <1>3, <1>4 DEF OrdersTellBooks
<1>6. QED BY <1>5, RowsInit, RowsNext, PTL DEF Spec

------------------------------------------------------------------------------
(* VIP activation.                                                         *)

(* What was there when the user was disabled is over for good.             *)
RevokedIsOver == \A o \in revoked : vipStatus[o] \in {"failed", "disabled"}

VipInv == VipTypeOK /\ RevokedIsOver /\ ActiveHasOrder /\ ReversedEarnsNothing

(* Applying the effects of success to an order that is pending or stands.  *)
LEMMA EffectsKeep ==
    ASSUME VipInv, NEW o \in Activations, vipStatus[o] \in {"pending", "success"},
           applyVipActivationSuccessEffects(o),
           UNCHANGED <<byHand, created, disabledAt, clock, revoked>>
    PROVE  VipInv'
<1>1. PICK c \in {"none", "settled", "reversed"} : vipCommission' = [vipCommission EXCEPT ![o] = c]
  BY DEF VipInv, VipTypeOK, applyVipActivationSuccessEffects
<1>2. VipTypeOK'
  BY <1>1 DEF VipInv, VipTypeOK, applyVipActivationSuccessEffects
<1>3. RevokedIsOver'
  BY DEF VipInv, VipTypeOK, RevokedIsOver, applyVipActivationSuccessEffects
<1>4. ActiveHasOrder'
  BY DEF VipInv, VipTypeOK, ActiveHasOrder, IsUserActiveVvip, applyVipActivationSuccessEffects
<1>5. ReversedEarnsNothing'
  BY <1>1 DEF VipInv, VipTypeOK, ReversedEarnsNothing, applyVipActivationSuccessEffects
<1>6. QED BY <1>2, <1>3, <1>4, <1>5 DEF VipInv

(* A step that moves one order that does not stand, and never to success.  *)
LEMMA RowMoves ==
    ASSUME VipInv, NEW o \in Activations, NEW s \in {"asked", "manual", "pending", "failed"},
           vipStatus[o] \in {"none", "asked", "pending"}, s = "failed" \/ o \notin revoked,
           vipStatus' = [vipStatus EXCEPT ![o] = s], created' \in [Activations -> Nat],
           UNCHANGED <<byHand, disabledAt, books, profile, clock, revoked>>
    PROVE  VipInv'
<1>1. VipTypeOK'
  BY DEF VipInv, VipTypeOK, books
<1>2. RevokedIsOver'
  BY DEF VipInv, VipTypeOK, RevokedIsOver
<1>3. ActiveHasOrder'
  BY DEF VipInv, VipTypeOK, ActiveHasOrder, IsUserActiveVvip
<1>4. ReversedEarnsNothing'
  BY DEF VipInv, VipTypeOK, ReversedEarnsNothing, books
<1>5. QED BY <1>1, <1>2, <1>3, <1>4 DEF VipInv

LEMMA VipStarts == ASSUME VipInit PROVE VipInv
  BY DEF VipInit, VipInv, VipTypeOK, RevokedIsOver, ActiveHasOrder, ReversedEarnsNothing

LEMMA VipKept ==
    ASSUME VipInv, [VipNext]_vipVars
    PROVE  VipInv'
<1>0. VipTypeOK /\ RevokedIsOver
  BY DEF VipInv
<1>1. ASSUME NEW o \in Activations, CheckInactive(o) PROVE VipInv'
  BY <1>0, <1>1, RowMoves DEF CheckInactive, VipTypeOK, RevokedIsOver
<1>2. ASSUME NEW o \in Activations, CreateVipActivationOrder(o) PROVE VipInv'
  BY <1>0, <1>2, RowMoves DEF CreateVipActivationOrder, VipTypeOK, RevokedIsOver
<1>3. ASSUME NEW o \in Activations, CheckNeverVvip(o) PROVE VipInv'
  BY <1>0, <1>3, RowMoves DEF CheckNeverVvip, VipTypeOK, RevokedIsOver
<1>4. ASSUME NEW o \in Activations, AdminManualActivateVvip(o) PROVE VipInv'
  <2>1. VipTypeOK'
    BY <1>0, <1>4 DEF AdminManualActivateVvip, VipTypeOK, books
  <2>2. RevokedIsOver'
    BY <1>0, <1>4 DEF AdminManualActivateVvip, VipTypeOK, RevokedIsOver
  <2>3. ActiveHasOrder'
    BY <1>0, <1>4 DEF AdminManualActivateVvip, VipTypeOK, ActiveHasOrder, IsUserActiveVvip
  <2>4. ReversedEarnsNothing'
    BY <1>0, <1>4 DEF AdminManualActivateVvip, VipInv, VipTypeOK, ReversedEarnsNothing, books
  <2>5. QED BY <2>1, <2>2, <2>3, <2>4 DEF VipInv
<1>5. ASSUME NEW o \in Activations, CompleteVipActivationOrder(o) PROVE VipInv'
  <2>1. CASE vipStatus[o] \in {"pending", "success"} /\ applyVipActivationSuccessEffects(o)
    BY <1>5, <2>1, EffectsKeep DEF CompleteVipActivationOrder
  <2>2. CASE vipStatus[o] = "pending" /\ vipStatus' = [vipStatus EXCEPT ![o] = "failed"] /\ UNCHANGED <<books, profile>>
    BY <1>0, <1>5, <2>2, RowMoves DEF CompleteVipActivationOrder, VipTypeOK
  <2>3. QED BY <1>5, <2>1, <2>2 DEF CompleteVipActivationOrder
<1>6. ASSUME NEW o \in Activations, FailVipActivationOrder(o) PROVE VipInv'
  BY <1>0, <1>6, RowMoves DEF FailVipActivationOrder, VipTypeOK
<1>7. ASSUME NEW o \in Activations, RepairVipActivationSettlement(o) PROVE VipInv'
  BY <1>7, EffectsKeep DEF RepairVipActivationSettlement
<1>8. ASSUME NEW o \in Activations, ReverseVipActivationOrder(o) PROVE VipInv'
  <2>1. /\ vipStatus' \in [Activations -> {"none", "asked", "manual", "pending", "success", "failed", "disabled"}]
        /\ vipStatus'[o] = "disabled" /\ \A p \in Activations : p # o => vipStatus'[p] = vipStatus[p]
        /\ disabledAt' \in [Activations -> Nat]
        /\ profile' = "disabled" \/ (profile' = profile /\ vipStatus' = vipStatus)
    BY <1>0, <1>8 DEF ReverseVipActivationOrder, VipTypeOK
  <2>2. VipTypeOK'
    BY <1>0, <1>8, <2>1 DEF ReverseVipActivationOrder, VipTypeOK
  <2>3. RevokedIsOver'
    BY <1>0, <1>8, <2>1 DEF ReverseVipActivationOrder, VipTypeOK, RevokedIsOver
  <2>4. ActiveHasOrder'
    BY <2>1 DEF VipInv, ActiveHasOrder, IsUserActiveVvip
  <2>5. ReversedEarnsNothing'
    BY <1>0, <1>8, <2>1 DEF ReverseVipActivationOrder, VipInv, VipTypeOK, ReversedEarnsNothing
  <2>6. QED BY <2>2, <2>3, <2>4, <2>5 DEF VipInv
<1>9. CASE DisableVipActivation
  <2>1. \A o \in Activations :
           /\ vipStatus[o] = "success" => vipStatus'[o] = "disabled"
           /\ vipStatus[o] = "pending" => vipStatus'[o] = "failed"
           /\ vipStatus[o] \notin {"success", "pending"} => vipStatus'[o] = vipStatus[o]
    BY <1>9 DEF DisableVipActivation
  <2>2. VipTypeOK'
    <3>1. vipStatus' \in [Activations -> {"none", "asked", "manual", "pending", "success", "failed", "disabled"}]
      BY <1>0, <1>9 DEF DisableVipActivation, VipTypeOK
    <3>2. disabledAt' \in [Activations -> Nat]
      BY <1>0, <1>9 DEF DisableVipActivation, VipTypeOK
    <3>3. QED BY <1>0, <1>9, <3>1, <3>2 DEF DisableVipActivation, VipTypeOK, books, Rows
  <2>3. RevokedIsOver'
    BY <1>0, <1>9, <2>1 DEF DisableVipActivation, VipTypeOK, RevokedIsOver, Rows
  <2>4. ActiveHasOrder'
    BY <1>9 DEF DisableVipActivation, ActiveHasOrder
  <2>5. ReversedEarnsNothing'
    BY <1>9, <2>1 DEF DisableVipActivation, VipInv, ReversedEarnsNothing, books
  <2>6. QED BY <2>2, <2>3, <2>4, <2>5 DEF VipInv
<1>10. CASE Tick
  BY <1>10 DEF Tick, VipInv, VipTypeOK, RevokedIsOver, ActiveHasOrder, IsUserActiveVvip,
     ReversedEarnsNothing, books
<1>11. CASE UNCHANGED vipVars
  BY <1>11 DEF vipVars, VipInv, VipTypeOK, RevokedIsOver, ActiveHasOrder, IsUserActiveVvip, ReversedEarnsNothing
<1>12. QED
  BY <1>1, <1>2, <1>3, <1>4, <1>5, <1>6, <1>7, <1>8, <1>9, <1>10, <1>11 DEF VipNext

(* No order from before a disabling activates the user again               *)
(* (DisableVipActivation against late and repeated notices and repairs),   *)
(* the profile is active only while an order stands (upsertVvipProfileTx), *)
(* and a reversed order is disabled and earns no commission                *)
(* (ReverseVipActivationOrder).                                            *)
THEOREM PartnerIsSound == VipSpec => []VipIsSound
<1>1. VipInv => VipIsSound
  BY DEF VipInv, RevokedIsOver, NoRevival, VipIsSound
<1>2. QED BY <1>1, VipStarts, VipKept, PTL DEF VipSpec

(***************************************************************************)
(* The cooldown of withdrawals                                             *)
(***************************************************************************)

(* A request that has passed the lookup still passes it: nobody else makes *)
(* an order of this user meanwhile.                                        *)
CooldownInv ==
    /\ time \in Nat /\ orders \in Seq(Nat) /\ pc \in [{"r1"} -> {"idle", "valid"}]
    /\ pc["r1"] = "valid" => Withdraw!CooledDown
    /\ Withdraw!OrdersSpaced

LEMMA CooldownKept ==
    ASSUME CooldownInv, Withdraw!Next \/ UNCHANGED withdrawVars PROVE CooldownInv'
<1>0. Cooldown \in Nat /\ \A i \in 1..Len(orders) : orders[i] \in Nat
  BY CooldownAssumption DEF CooldownInv
<1>1. CASE UNCHANGED withdrawVars
  BY <1>1 DEF withdrawVars, CooldownInv, Withdraw!CooledDown, Withdraw!OrdersSpaced
<1>2. CASE Withdraw!Tick
  BY <1>0, <1>2 DEF CooldownInv, Withdraw!Tick, Withdraw!CooledDown, Withdraw!OrdersSpaced
<1>3. CASE Withdraw!Validate("r1") \/ Withdraw!Fail("r1")
  BY <1>0, <1>3 DEF CooldownInv, Withdraw!Validate, Withdraw!Fail, Withdraw!CooledDown,
     Withdraw!OrdersSpaced
<1>4. CASE Withdraw!CreateOrder("r1")
  <2>1. /\ orders' = Append(orders, time) /\ time' = time /\ pc' = [pc EXCEPT !["r1"] = "idle"]
        /\ \A i \in 1..Len(orders) : orders[i] <= time - Cooldown
    BY <1>4 DEF Withdraw!CreateOrder, CooldownInv, Withdraw!CooledDown
  <2>2. /\ orders' \in Seq(Nat) /\ Len(orders') = Len(orders) + 1
        /\ orders'[Len(orders) + 1] = time
        /\ \A i \in 1..Len(orders) : orders'[i] = orders[i]
    BY <2>1 DEF CooldownInv
  <2>3. Withdraw!OrdersSpaced'
    <3>1. SUFFICES ASSUME NEW i \in 1..Len(orders'), NEW j \in 1..Len(orders'), i < j
                   PROVE  orders'[j] - orders'[i] >= Cooldown
      BY DEF Withdraw!OrdersSpaced
    <3>2. Len(orders) \in Nat /\ i \in 1..Len(orders) /\ orders'[i] = orders[i]
      BY <2>2, <3>1 DEF CooldownInv
    <3>3. CASE j = Len(orders) + 1
      <4>1. orders'[j] = time /\ orders[i] <= time - Cooldown /\ time \in Nat /\ orders[i] \in Nat
        BY <1>0, <2>1, <2>2, <3>2, <3>3 DEF CooldownInv
      <4> QED BY <1>0, <3>2, <4>1
    <3>4. CASE j # Len(orders) + 1
      <4>1. j \in 1..Len(orders) /\ orders'[j] = orders[j]
        BY <2>2, <3>1, <3>2, <3>4
      <4> QED BY <3>1, <3>2, <4>1 DEF CooldownInv, Withdraw!OrdersSpaced
    <3> QED BY <3>3, <3>4
  <2>4. pc'["r1"] = "idle" /\ pc' \in [{"r1"} -> {"idle", "valid"}]
    BY <2>1 DEF CooldownInv
  <2> QED BY <2>1, <2>2, <2>3, <2>4 DEF CooldownInv
<1> QED BY <1>1, <1>2, <1>3, <1>4 DEF Withdraw!Next

(* Whatever the cooldown and the clock: two orders of a user who sends one *)
(* request at a time are the cooldown apart, also when a request is        *)
(* repeated (checkPiggyWithdrawEligibility).                               *)
THEOREM OrdersKeepApart == PaymentsSpec => []OrdersSpaced
<1>1. PaymentsInit => CooldownInv
  <2>1. SUFFICES ASSUME time = 0, pc = [r \in {"r1"} |-> "idle"], orders = << >> PROVE CooldownInv
    BY DEF PaymentsInit, Withdraw!Init
  <2>2. orders \in Seq(Nat) /\ Len(orders) = 0
    BY <2>1
  <2> QED BY <2>1, <2>2 DEF CooldownInv, Withdraw!OrdersSpaced
<1>2. ASSUME CooldownInv,
             [PaymentsNext]_<<part, vars, vipVars, balanceVars,
                              redeemVars, checkinVars, withdrawVars>>
      PROVE  CooldownInv'
  <2>1. Withdraw!Next \/ UNCHANGED withdrawVars
    BY <1>2 DEF PaymentsNext
  <2> QED BY <1>2, <2>1, CooldownKept
<1>3. CooldownInv => OrdersSpaced
  BY DEF CooldownInv, OrdersSpaced
<1> QED BY <1>1, <1>2, <1>3, PTL DEF PaymentsSpec

(***************************************************************************)
(* Check-ins                                                               *)
(***************************************************************************)

Requests ==
    {[stage |-> "idle"], [stage |-> "sent"], [stage |-> "checked"]}
      \cup [stage : {"create", "award"}, date : CheckIn!Days]

Awarding(k, d) == request[k].stage = "award" /\ request[k].date = d

(* The award of a recorded day was paid, is about to be, or was lost.      *)
DayIsTrue(d) ==
    /\ awards[d] = 0 \/ (awards[d] = 1 /\ d \in records)
    /\ d \in told => awards[d] = 1
    /\ \A k \in Cards : Awarding(k, d) => d \in records /\ awards[d] = 0
    /\ d \in records /\ awards[d] = 0 => d \in broken \/ \E k \in Cards : Awarding(k, d)

(* No two requests are between the record and the award of a day.          *)
OneAwards ==
    \A k, l \in Cards :
        request[k].stage = "award" /\ request[l].stage = "award"
          /\ request[k].date = request[l].date => k = l

CheckinTypes ==
    /\ day \in CheckIn!Days /\ awards \in [CheckIn!Days -> Nat]
    /\ request \in [Cards -> Requests]

CheckinInv == CheckinTypes /\ OneAwards /\ \A d \in CheckIn!Days : DayIsTrue(d)

(* A request that is not at the award, before or after.                    *)
LEMMA RequestMoves ==
    ASSUME CheckinInv, NEW k \in Cards, NEW r \in Requests,
           r.stage # "award", request[k].stage # "award",
           request' = [request EXCEPT ![k] = r],
           UNCHANGED <<day, records, awards, told, broken>>
    PROVE  CheckinInv'
<1>1. CheckinTypes'
  BY DEF CheckinInv, CheckinTypes
<1>2. \A l \in Cards : /\ request'[l].stage = "award" => request'[l] = request[l]
                       /\ request[l].stage = "award" => request'[l] = request[l]
  BY DEF CheckinInv, CheckinTypes
<1>3. OneAwards'
  BY <1>2 DEF CheckinInv, OneAwards
<1>4. ASSUME NEW d \in CheckIn!Days PROVE DayIsTrue(d)'
  BY <1>2 DEF CheckinInv, DayIsTrue, Awarding
<1>5. QED BY <1>1, <1>3, <1>4 DEF CheckinInv

LEMMA CheckinStarts ==
    ASSUME CheckIn!Init PROVE CheckinInv
  BY GiftAssumption DEF CheckIn!Init, CheckIn!Idle, CheckIn!Days, CheckinInv, CheckinTypes,
     Requests, OneAwards, DayIsTrue, Awarding

(* What a request is at each of its stages.                                *)
LEMMA RequestIs ==
    ASSUME CheckinInv, NEW k \in Cards
    PROVE  /\ request[k] \in Requests
           /\ request[k].stage \in {"create", "award"} =>
                 /\ request[k].date \in CheckIn!Days
                 /\ request[k] = [stage |-> request[k].stage, date |-> request[k].date]
<1>1. request[k] \in Requests
  BY DEF CheckinInv, CheckinTypes
<1>2. QED BY <1>1 DEF Requests

(* The record is made, and the award comes next.                           *)
LEMMA CreateRecordKeeps ==
    ASSUME CheckinInv, NEW k \in Cards, CheckIn!CreateRecord(k) PROVE CheckinInv'
<1> DEFINE e == request[k].date
<1>1. /\ e \in CheckIn!Days /\ e \notin records /\ records' = records \cup {e}
      /\ request[k].stage = "create" /\ request[k] = [stage |-> "create", date |-> e]
      /\ UNCHANGED <<day, awards, told, broken>>
  BY RequestIs DEF CheckIn!CreateRecord, CheckIn!Create
<1>2. request' = [request EXCEPT ![k] = [stage |-> "award", date |-> e]]
  <2>1. request' = [request EXCEPT ![k] = [request[k] EXCEPT !.stage = "award"]]
    BY DEF CheckIn!CreateRecord
  <2>2. [request[k] EXCEPT !.stage = "award"] = [stage |-> "award", date |-> e]
    BY <1>1
  <2>3. QED BY <2>1, <2>2
<1> HIDE DEF e
<1>3. CheckinTypes'
  BY <1>1, <1>2 DEF CheckinInv, CheckinTypes, Requests
<1>4. /\ request'[k].stage = "award" /\ request'[k].date = e
      /\ \A l \in Cards : l # k => request'[l] = request[l]
  BY <1>2 DEF CheckinInv, CheckinTypes
<1>5. \A l \in Cards : request[l].stage = "award" => request[l].date # e
  BY <1>1 DEF CheckinInv, DayIsTrue, Awarding
<1>6. OneAwards'
  BY <1>4, <1>5 DEF CheckinInv, OneAwards
<1>7. ASSUME NEW d \in CheckIn!Days PROVE DayIsTrue(d)'
  <2>1. DayIsTrue(d)
    BY DEF CheckinInv
  <2>2. CASE d = e
    BY <1>1, <1>4, <1>5, <2>1, <2>2 DEF DayIsTrue, Awarding
  <2>3. CASE d # e
    BY <1>1, <1>4, <2>1, <2>3 DEF DayIsTrue, Awarding
  <2>4. QED BY <2>2, <2>3
<1>8. QED BY <1>3, <1>6, <1>7 DEF CheckinInv

(* The award of a recorded day reaches the user, by the request at it.     *)
LEMMA AwardKeeps ==
    ASSUME CheckinInv, NEW k \in Cards, CheckIn!Award(k) PROVE CheckinInv'
<1> DEFINE e == request[k].date
<1>1. /\ e \in CheckIn!Days /\ request[k].stage = "award"
      /\ awards' = [awards EXCEPT ![e] = @ + 1] /\ told' = told \cup {e}
      /\ request' = [request EXCEPT ![k] = [stage |-> "idle"]]
      /\ UNCHANGED <<day, records, broken>>
  BY RequestIs DEF CheckIn!Award, CheckIn!Succeed, CheckIn!Idle
<1>2. e \in records /\ awards[e] = 0 /\ awards'[e] = 1
  BY <1>1 DEF CheckinInv, CheckinTypes, DayIsTrue, Awarding
<1>3. \A d \in CheckIn!Days : d # e => awards'[d] = awards[d]
  BY <1>1 DEF CheckinInv, CheckinTypes
<1> HIDE DEF e
<1>4. CheckinTypes'
  BY <1>1 DEF CheckinInv, CheckinTypes, Requests
<1>5. request'[k].stage = "idle" /\ \A l \in Cards : l # k => request'[l] = request[l]
  BY <1>1 DEF CheckinInv, CheckinTypes
<1>6. \A l \in Cards : l # k /\ request[l].stage = "award" => request[l].date # e
  BY <1>1 DEF CheckinInv, OneAwards, e
<1>7. OneAwards'
  BY <1>5 DEF CheckinInv, OneAwards
<1>8. ASSUME NEW d \in CheckIn!Days PROVE DayIsTrue(d)'
  <2>1. DayIsTrue(d)
    BY DEF CheckinInv
  <2>2. CASE d = e
    BY <1>1, <1>2, <1>5, <1>6, <2>2 DEF DayIsTrue, Awarding
  <2>3. CASE d # e
    BY <1>1, <1>3, <1>5, <2>1, <2>3 DEF DayIsTrue, Awarding, e
  <2>4. QED BY <2>2, <2>3
<1>9. QED BY <1>4, <1>7, <1>8 DEF CheckinInv

(* The record is deleted, or its day is broken.                            *)
LEMMA AwardFailsKeeps ==
    ASSUME CheckinInv, NEW k \in Cards, CheckIn!AwardFails(k) PROVE CheckinInv'
<1> DEFINE e == request[k].date
<1>1. PICK deleted \in BOOLEAN :
         /\ records' = IF deleted THEN records \ {request[k].date} ELSE records
         /\ broken' = IF deleted THEN broken ELSE broken \cup {request[k].date}
  BY DEF CheckIn!AwardFails
<1>2. /\ e \in CheckIn!Days /\ request[k].stage = "award"
      /\ request' = [request EXCEPT ![k] = [stage |-> "idle"]]
      /\ UNCHANGED <<day, awards, told>>
  BY RequestIs DEF CheckIn!AwardFails, CheckIn!Idle
<1>3. e \in records /\ awards[e] = 0
  BY <1>2 DEF CheckinInv, CheckinTypes, DayIsTrue, Awarding
<1>4. CheckinTypes'
  BY <1>2 DEF CheckinInv, CheckinTypes, Requests
<1>5. request'[k].stage = "idle" /\ \A l \in Cards : l # k => request'[l] = request[l]
  BY <1>2 DEF CheckinInv, CheckinTypes
<1>6. \A l \in Cards : l # k /\ request[l].stage = "award" => request[l].date # e
  BY <1>2 DEF CheckinInv, OneAwards
<1>7. OneAwards'
  BY <1>5 DEF CheckinInv, OneAwards
<1>8. ASSUME NEW d \in CheckIn!Days PROVE DayIsTrue(d)'
  <2>1. DayIsTrue(d)
    BY DEF CheckinInv
  <2>2. CASE d = e
    BY <1>1, <1>2, <1>3, <1>5, <1>6, <2>1, <2>2 DEF DayIsTrue, Awarding
  <2>3. CASE d # e
    BY <1>1, <1>2, <1>5, <2>1, <2>3 DEF DayIsTrue, Awarding
  <2>4. QED BY <2>2, <2>3
<1>9. QED BY <1>4, <1>7, <1>8 DEF CheckinInv

LEMMA CrashKeeps ==
    ASSUME CheckinInv, CheckIn!Crash PROVE CheckinInv'
<1>1. /\ request' = [k \in Cards |-> [stage |-> "idle"]]
      /\ UNCHANGED <<day, records, awards, told>>
      /\ \A d \in CheckIn!Days : d \in broken \/ (\E k \in Cards : Awarding(k, d)) => d \in broken'
  BY DEF CheckIn!Crash, CheckIn!Idle, Awarding
<1>2. CheckinTypes' /\ \A k \in Cards : request'[k].stage = "idle"
  BY <1>1 DEF CheckinInv, CheckinTypes, Requests
<1>3. OneAwards'
  BY <1>2 DEF OneAwards
<1>4. ASSUME NEW d \in CheckIn!Days PROVE DayIsTrue(d)'
  BY <1>1, <1>2 DEF CheckinInv, DayIsTrue, Awarding
<1>5. QED BY <1>2, <1>3, <1>4 DEF CheckinInv

(* Record and award in one transaction.                                    *)
LEMMA TransactionKeeps ==
    ASSUME CheckinInv, NEW k \in Cards, Transaction!userCheckinWithTransaction(k) PROVE CheckinInv'
<1> DEFINE e == request[k].date
<1>1. /\ e \in CheckIn!Days /\ e \notin records /\ records' = records \cup {e}
      /\ request[k].stage = "create" /\ request' = [request EXCEPT ![k] = [stage |-> "idle"]]
      /\ awards' = [awards EXCEPT ![e] = @ + 1] /\ told' = told \cup {e}
      /\ UNCHANGED <<day, broken>>
  BY RequestIs DEF Transaction!userCheckinWithTransaction, Transaction!Create, Transaction!Succeed,
     Transaction!Idle
<1>2. awards[e] = 0 /\ awards'[e] = 1 /\ \A d \in CheckIn!Days : d # e => awards'[d] = awards[d]
  BY <1>1 DEF CheckinInv, CheckinTypes, DayIsTrue
<1>3. CheckinTypes'
  BY <1>1 DEF CheckinInv, CheckinTypes, Requests
<1>4. \A l \in Cards : request'[l].stage = "award" => l # k /\ request'[l] = request[l]
  BY <1>1 DEF CheckinInv, CheckinTypes
<1>5. \A l \in Cards : request[l].stage = "award" => request'[l] = request[l] /\ request[l].date # e
  BY <1>1 DEF CheckinInv, CheckinTypes, DayIsTrue, Awarding
<1>6. OneAwards'
  BY <1>4 DEF CheckinInv, OneAwards
<1> HIDE DEF e
<1>7. ASSUME NEW d \in CheckIn!Days PROVE DayIsTrue(d)'
  <2>1. DayIsTrue(d)
    BY DEF CheckinInv
  <2>2. CASE d = e
    BY <1>1, <1>2, <1>4, <1>5, <2>2 DEF DayIsTrue, Awarding
  <2>3. CASE d # e
    BY <1>1, <1>2, <1>4, <1>5, <2>1, <2>3 DEF DayIsTrue, Awarding
  <2>4. QED BY <2>2, <2>3
<1>8. QED BY <1>3, <1>6, <1>7 DEF CheckinInv

(* The steps that the two kinds of databases have in common.               *)
CommonStep ==
    \/ CheckIn!Crash \/ CheckIn!Midnight
    \/ \E k \in Cards :
          \/ CheckIn!Click(k) \/ CheckIn!Status(k) \/ CheckIn!UserCheckin(k)
          \/ CheckIn!TakeDate(k) \/ CheckIn!Refused(k) \/ CheckIn!StatementFails(k)
          \/ CheckIn!Award(k) \/ CheckIn!AwardFails(k)

LEMMA StepsOnSQLite ==
    ASSUME CheckIn!Next PROVE CommonStep \/ \E k \in Cards : CheckIn!CreateRecord(k)
  BY DEF CheckIn!Next, CommonStep, CheckIn!userCheckinWithTransaction

LEMMA StepsInTransactions ==
    ASSUME Transaction!Next
    PROVE  CommonStep \/ \E k \in Cards : Transaction!userCheckinWithTransaction(k)
<1>1. CASE Transaction!Crash
  BY <1>1 DEF Transaction!Crash, CheckIn!Crash, Transaction!Days, CheckIn!Days, Transaction!Idle,
     CheckIn!Idle, CommonStep
<1>2. CASE Transaction!Midnight
  BY <1>2 DEF Transaction!Midnight, CheckIn!Midnight, CommonStep
<1>3. ASSUME NEW k \in Cards, Transaction!Click(k) \/ Transaction!Status(k) \/ Transaction!UserCheckin(k)
      PROVE  CommonStep
  BY <1>3 DEF Transaction!Click, Transaction!Status, Transaction!UserCheckin, CheckIn!Click,
     CheckIn!Status, CheckIn!UserCheckin, Transaction!Idle, CheckIn!Idle, CommonStep
<1>4. ASSUME NEW k \in Cards, Transaction!TakeDate(k) \/ Transaction!Refused(k) \/ Transaction!StatementFails(k)
      PROVE  CommonStep
  BY <1>4 DEF Transaction!TakeDate, Transaction!Refused, Transaction!StatementFails,
     CheckIn!TakeDate, CheckIn!Refused, CheckIn!StatementFails, Transaction!Create, CheckIn!Create,
     Transaction!Idle, CheckIn!Idle, CommonStep
<1>5. ASSUME NEW k \in Cards, Transaction!Award(k) \/ Transaction!AwardFails(k) PROVE CommonStep
  BY <1>5 DEF Transaction!Award, Transaction!AwardFails, CheckIn!Award, CheckIn!AwardFails,
     Transaction!Succeed, CheckIn!Succeed, Transaction!Idle, CheckIn!Idle, CommonStep
<1>6. ASSUME NEW k \in Cards PROVE ~Transaction!CreateRecord(k)
  BY DEF Transaction!CreateRecord
<1>7. QED BY <1>1, <1>2, <1>3, <1>4, <1>5, <1>6 DEF Transaction!Next

LEMMA CommonKeeps ==
    ASSUME CheckinInv, CommonStep PROVE CheckinInv'
<1>1. CASE CheckIn!Midnight
  <2>1. day' \in CheckIn!Days /\ UNCHANGED <<records, request, awards, told, broken>>
    BY <1>1, GiftAssumption DEF CheckIn!Midnight, CheckinInv, CheckinTypes, CheckIn!Days
  <2>2. QED BY <2>1 DEF CheckinInv, CheckinTypes, OneAwards, DayIsTrue, Awarding
<1>2. ASSUME NEW k \in Cards, CheckIn!Status(k) PROVE CheckinInv'
  BY <1>2 DEF CheckIn!Status, CheckinInv, CheckinTypes, OneAwards, DayIsTrue, Awarding
<1>3. ASSUME NEW k \in Cards, CheckIn!Click(k) PROVE CheckinInv'
  <2>1. [stage |-> "sent"] \in Requests
    BY DEF Requests
  <2>2. /\ request[k].stage # "award" /\ request' = [request EXCEPT ![k] = [stage |-> "sent"]]
        /\ UNCHANGED <<day, records, awards, told, broken>>
    BY <1>3 DEF CheckIn!Click, CheckIn!Idle
  <2>3. QED BY <2>1, <2>2, RequestMoves
<1>4. ASSUME NEW k \in Cards, CheckIn!UserCheckin(k) PROVE CheckinInv'
  <2>1. [stage |-> "idle"] \in Requests /\ [stage |-> "checked"] \in Requests
    BY DEF Requests
  <2>2. PICK r \in {[stage |-> "idle"], [stage |-> "checked"]} : request' = [request EXCEPT ![k] = r]
    BY <1>4 DEF CheckIn!UserCheckin, CheckIn!Idle
  <2>3. QED BY <1>4, <2>1, <2>2, RequestMoves DEF CheckIn!UserCheckin
<1>5. ASSUME NEW k \in Cards, CheckIn!TakeDate(k) PROVE CheckinInv'
  <2>1. [stage |-> "create", date |-> day] \in Requests
    BY DEF Requests, CheckinInv, CheckinTypes
  <2>2. QED BY <1>5, <2>1, RequestMoves DEF CheckIn!TakeDate
<1>6. ASSUME NEW k \in Cards, CheckIn!Refused(k) \/ CheckIn!StatementFails(k) PROVE CheckinInv'
  <2>1. [stage |-> "idle"] \in Requests
    BY DEF Requests
  <2>2. QED BY <1>6, <2>1, RequestMoves DEF CheckIn!Refused, CheckIn!StatementFails, CheckIn!Idle
<1>7. QED BY <1>1, <1>2, <1>3, <1>4, <1>5, <1>6, CrashKeeps, AwardKeeps, AwardFailsKeeps DEF CommonStep

(* With transactions no request is ever between record and award, and no   *)
(* day is broken.                                                          *)
NeverBetween == broken = {} /\ \A k \in Cards : request[k].stage # "award"

LEMMA NeverBetweenKept ==
    ASSUME CheckinInv, NeverBetween, Transaction!Next PROVE NeverBetween'
<1> USE DEF NeverBetween, CheckinInv, CheckinTypes
<1>1. ASSUME NEW k \in Cards, Transaction!userCheckinWithTransaction(k) PROVE NeverBetween'
  BY <1>1 DEF Transaction!userCheckinWithTransaction, Transaction!Succeed, Transaction!Idle
<1>2. CASE CheckIn!Crash
  BY <1>2 DEF CheckIn!Crash, CheckIn!Idle
<1>3. CASE CheckIn!Midnight
  BY <1>3 DEF CheckIn!Midnight
<1>4. ASSUME NEW k \in Cards, CheckIn!Click(k) \/ CheckIn!Status(k) \/ CheckIn!UserCheckin(k)
                              \/ CheckIn!TakeDate(k) PROVE NeverBetween'
  BY <1>4 DEF CheckIn!Click, CheckIn!Status, CheckIn!UserCheckin, CheckIn!TakeDate, CheckIn!Idle
<1>5. ASSUME NEW k \in Cards, CheckIn!Refused(k) \/ CheckIn!StatementFails(k) PROVE NeverBetween'
  BY <1>5 DEF CheckIn!Refused, CheckIn!StatementFails, CheckIn!Idle
<1>6. ASSUME NEW k \in Cards PROVE ~CheckIn!Award(k) /\ ~CheckIn!AwardFails(k)
  BY DEF CheckIn!Award, CheckIn!AwardFails
<1>7. QED BY <1>1, <1>2, <1>3, <1>4, <1>5, <1>6, StepsInTransactions DEF CommonStep

(* What the invariant says of a day, in the words of the properties.       *)
LEMMA DaysAreTold ==
    ASSUME CheckinInv
    PROVE  /\ CheckIn!AwardedOncePerDay /\ CheckIn!RecordMeansAward
           /\ NeverBetween => Transaction!AwardedOncePerDay /\ Transaction!RecordMeansAward
<1>1. CheckIn!AwardedOncePerDay
  BY DEF CheckinInv, CheckinTypes, DayIsTrue, CheckIn!AwardedOncePerDay
<1>2. ASSUME NEW d \in CheckIn!Days, NEW k \in Cards, Awarding(k, d)
      PROVE  CheckIn!AwardPending(d)
  BY <1>2, RequestIs DEF Awarding, CheckIn!AwardPending
<1>3. CheckIn!RecordMeansAward
  BY <1>2 DEF CheckinInv, CheckinTypes, DayIsTrue, CheckIn!RecordMeansAward
<1>4. ASSUME NeverBetween PROVE Transaction!AwardedOncePerDay /\ Transaction!RecordMeansAward
  BY <1>1, <1>4 DEF CheckinInv, CheckinTypes, DayIsTrue, Awarding, NeverBetween, Transaction!Days,
     CheckIn!Days, CheckIn!AwardedOncePerDay, Transaction!AwardedOncePerDay, Transaction!RecordMeansAward
<1>5. QED BY <1>1, <1>3, <1>4

(***************************************************************************)
(* Redemption codes                                                        *)
(***************************************************************************)

(* A row tells what was paid for its code, and the code is worth what was  *)
(* asked for.                                                              *)
CodeIsTrue(c) ==
    /\ code[c].live = "absent" => payments[c] = 0
    /\ payments[c] <= 1 + reopened[c]
    /\ code[c].status = "Enabled" => payments[c] <= reopened[c]
    /\ code[c].status = "Used" => payments[c] > 0
    /\ payments[c] > 0 => code[c].usedBy = payee[c]
    /\ code[c].live = "live" => code[c].quota = asked[c]

(* The copy of a running redemption is the row, which it holds alone.      *)
RowsAreHeld ==
    \A u \in Payees : redeeming[u].stage = "paying" =>
        LET c == redeeming[u].code
        IN  /\ redeeming[u].row = code[c]
            /\ code[c].live = "live" /\ code[c].status = "Enabled"
            /\ \A v \in Payees : redeeming[v].stage = "paying" /\ redeeming[v].code = c => v = u

(* What the console has under way: an update never asks for Used, and      *)
(* writes back a Used that it read and, with a status, the amount.         *)
CallIsTrue ==
    LET r == call["a1"]
    IN  /\ r.stage = "create" => r.quota # 0
        /\ r.stage = "update" => r.status # "Used"
        /\ r.stage = "write" =>
              /\ r.row.status = "Used" => payments[r.code] > 0
              /\ r.statusOnly => r.row.quota = asked[r.code]

RedemptionTypes ==
    /\ Redeem!RedemptionTypeOK
    /\ redeeming = [u \in Payees |-> redeeming[u]] /\ call = [a \in {"a1"} |-> call[a]]

RedemptionInv ==
    /\ RedemptionTypes /\ RowsAreHeld /\ CallIsTrue
    /\ \A c \in Codes : CodeIsTrue(c)

(* The types of what the properties are about.                             *)
RowTypes ==
    /\ code \in [Codes -> Redeem!Row] /\ credited \in [Payees -> Nat]
    /\ asked \in [Codes -> Nat] /\ payments \in [Codes -> Nat]
    /\ payee \in [Codes -> Payees \cup {NoUser}] /\ reopened \in [Codes -> Nat]

TxTypes ==
    redeeming = [u \in Payees |-> redeeming[u]] /\ \A u \in Payees : Redeem!TxOK(redeeming[u])

CallTypes ==
    call = [a \in {"a1"} |-> call[a]] /\ Redeem!CallOK(call["a1"])

PageTypes ==
    /\ shown \in [{"a1"} -> [Codes -> Redeem!Row]] /\ loading \subseteq {"a1"}
    /\ drawer \in [{"a1"} -> Codes \cup {NoCode}]
    /\ now \in Redeem!Times /\ calls \in 0..MaxCalls /\ tries \in 0..MaxTries

LEMMA TypesSplit ==
    RedemptionTypes <=> RowTypes /\ TxTypes /\ CallTypes /\ PageTypes
  BY DEF RedemptionTypes, Redeem!RedemptionTypeOK, RowTypes, TxTypes, CallTypes, PageTypes
LEMMA TypesSplitPrimed ==
    RedemptionTypes' <=> RowTypes' /\ TxTypes' /\ CallTypes' /\ PageTypes'
  BY DEF RedemptionTypes, Redeem!RedemptionTypeOK, RowTypes, TxTypes, CallTypes, PageTypes

(* What a redemption and a call are at their stages.                       *)
LEMMA TxIs ==
    ASSUME TxTypes, NEW u \in Payees
    PROVE  /\ redeeming[u].stage \in {"idle", "sleeping", "paying"}
           /\ redeeming[u].stage \in {"sleeping", "paying"} => redeeming[u].code \in Codes
           /\ redeeming[u].stage = "paying" => redeeming[u].row \in Redeem!Row
  BY DEF TxTypes, Redeem!TxOK, Redeem!Idle

LEMMA CallIs ==
    ASSUME CallTypes
    PROVE  LET r == call["a1"]
           IN  /\ r.stage \in {"idle", "create", "update", "write", "delete", "clean"}
               /\ r.stage = "create" => r.left \in 0..2 /\ r.quota \in Nat /\ r.expired \in Redeem!Times
               /\ r.stage = "update" =>
                     /\ r.code \in Codes /\ r.statusOnly \in BOOLEAN /\ r.status \in Redeem!Status
                     /\ r.quota \in Nat /\ r.expired \in Redeem!Times
               /\ r.stage = "write" => r.code \in Codes /\ r.statusOnly \in BOOLEAN /\ r.row \in Redeem!Row
               /\ r.stage = "delete" => r.code \in Codes
  BY DEF CallTypes, Redeem!CallOK, Redeem!Idle

(* The moves of a redemption and of a call.                                *)
LEMMA TxMoves ==
    ASSUME TxTypes, NEW u \in Payees, NEW t, Redeem!TxOK(t), redeeming' = [redeeming EXCEPT ![u] = t]
    PROVE  /\ TxTypes' /\ redeeming'[u] = t
           /\ \A v \in Payees : v # u => redeeming'[v] = redeeming[v]
  BY DEF TxTypes

LEMMA CallMoves ==
    ASSUME CallTypes, NEW r, Redeem!CallOK(r), call' = [call EXCEPT !["a1"] = r]
    PROVE  CallTypes' /\ call'["a1"] = r
  BY DEF CallTypes

dbHistory == <<code, credited, asked, payments, payee, reopened>>

(* A step of the page alone.                                               *)
LEMMA PageKeeps ==
    ASSUME RedemptionInv, PageTypes', UNCHANGED <<dbHistory, redeeming, call>>
    PROVE  RedemptionInv'
<1>1. RedemptionTypes'
  BY TypesSplit, TypesSplitPrimed DEF RedemptionInv, dbHistory, RowTypes, TxTypes, CallTypes
<1>2. RowsAreHeld' /\ CallIsTrue' /\ \A c \in Codes : CodeIsTrue(c)'
  BY DEF RedemptionInv, dbHistory, RowsAreHeld, CallIsTrue, CodeIsTrue
<1>3. QED BY <1>1, <1>2 DEF RedemptionInv

(* A step of a user that leaves the tables alone: he holds no row after    *)
(* it, or an enabled one that nobody held.                                 *)
LEMMA UserKeeps ==
    ASSUME RedemptionInv, NEW u \in Payees, NEW t, Redeem!TxOK(t),
           redeeming' = [redeeming EXCEPT ![u] = t], UNCHANGED <<dbHistory, call>>, PageTypes',
           t.stage = "paying" =>
              /\ t.row = code[t.code] /\ code[t.code].live = "live" /\ code[t.code].status = "Enabled"
              /\ \A v \in Payees : ~(redeeming[v].stage = "paying" /\ redeeming[v].code = t.code)
    PROVE  RedemptionInv'
<1>1. /\ TxTypes' /\ redeeming'[u] = t
      /\ \A v \in Payees : v # u => redeeming'[v] = redeeming[v]
  BY TypesSplit, TxMoves DEF RedemptionInv
<1>2. RedemptionTypes'
  BY <1>1, TypesSplit, TypesSplitPrimed DEF RedemptionInv, dbHistory, RowTypes, CallTypes
<1>3. CallIsTrue' /\ \A c \in Codes : CodeIsTrue(c)'
  BY DEF RedemptionInv, dbHistory, CallIsTrue, CodeIsTrue
<1>4. RowsAreHeld'
  <2>1. SUFFICES ASSUME NEW v \in Payees, redeeming'[v].stage = "paying"
                 PROVE  /\ redeeming'[v].row = code[redeeming'[v].code]
                        /\ code[redeeming'[v].code].live = "live"
                        /\ code[redeeming'[v].code].status = "Enabled"
                        /\ \A w \in Payees : redeeming'[w].stage = "paying"
                              /\ redeeming'[w].code = redeeming'[v].code => w = v
    BY DEF RowsAreHeld, dbHistory
  <2>2. CASE v = u
    BY <1>1, <2>1, <2>2
  <2>3. CASE v # u
    BY <1>1, <2>1, <2>3 DEF RedemptionInv, RowsAreHeld
  <2>4. QED BY <2>2, <2>3
<1>5. QED BY <1>2, <1>3, <1>4 DEF RedemptionInv

(* A step of the console that leaves the tables alone.                     *)
LEMMA CallKeeps ==
    ASSUME RedemptionInv, NEW r, Redeem!CallOK(r), call' = [call EXCEPT !["a1"] = r],
           UNCHANGED <<dbHistory, redeeming>>, PageTypes',
           r.stage = "create" => r.quota # 0,
           r.stage = "update" => r.status # "Used",
           r.stage = "write" => /\ r.row.status = "Used" => payments[r.code] > 0
                                /\ r.statusOnly => r.row.quota = asked[r.code]
    PROVE  RedemptionInv'
<1>1. CallTypes' /\ call'["a1"] = r
  BY TypesSplit, CallMoves DEF RedemptionInv
<1>2. RedemptionTypes'
  BY <1>1, TypesSplit, TypesSplitPrimed DEF RedemptionInv, dbHistory, RowTypes, TxTypes
<1>3. RowsAreHeld' /\ \A c \in Codes : CodeIsTrue(c)'
  BY DEF RedemptionInv, dbHistory, RowsAreHeld, CodeIsTrue
<1>4. CallIsTrue'
  BY <1>1 DEF CallIsTrue, dbHistory
<1>5. QED BY <1>2, <1>3, <1>4 DEF RedemptionInv

(* The end of a call.                                                      *)
LEMMA ToldTypes ==
    ASSUME RedemptionTypes, NEW s \in BOOLEAN, Redeem!Told("a1", s), UNCHANGED <<now, calls, tries>>
    PROVE  /\ PageTypes' /\ CallTypes' /\ call' = [call EXCEPT !["a1"] = [stage |-> "idle"]]
           /\ call'["a1"] = [stage |-> "idle"] /\ Redeem!CallOK([stage |-> "idle"])
<1>1. call' = [call EXCEPT !["a1"] = [stage |-> "idle"]] /\ Redeem!CallOK([stage |-> "idle"])
  BY DEF Redeem!Told, Redeem!Idle, Redeem!CallOK
<1>2. CallTypes' /\ call'["a1"] = [stage |-> "idle"]
  BY <1>1, TypesSplit, CallMoves
<1>3. PageTypes'
  BY TypesSplit DEF PageTypes, Redeem!Told
<1>4. QED BY <1>1, <1>2, <1>3

LEMMA UserStepKeeps ==
    ASSUME RedemptionInv, Redeem!UserStep, ~\E u \in Payees : Redeem!RedeemCommit(u)
    PROVE  RedemptionInv'
<1>0. TxTypes /\ PageTypes
  BY TypesSplit DEF RedemptionInv
<1>1. ASSUME NEW u \in Payees, NEW c \in Codes, Redeem!TopUp(u, c) PROVE RedemptionInv'
  <2>1. /\ Redeem!TxOK([stage |-> "sleeping", code |-> c])
        /\ redeeming' = [redeeming EXCEPT ![u] = [stage |-> "sleeping", code |-> c]]
        /\ UNCHANGED <<dbHistory, call>>
    BY <1>1 DEF Redeem!TopUp, Redeem!TxOK, Redeem!dbVars, Redeem!history, dbHistory
  <2>2. PageTypes'
    BY <1>0, <1>1, GiftAssumption DEF PageTypes, Redeem!TopUp, Redeem!pageVars
  <2>3. QED BY <2>1, <2>2, UserKeeps
<1>2. ASSUME NEW u \in Payees, Redeem!RedeemRead(u) PROVE RedemptionInv'
  <2> DEFINE c == redeeming[u].code
             t == IF Redeem!Redeemable(code[c])
                  THEN [stage |-> "paying", code |-> c, row |-> code[c]] ELSE [stage |-> "idle"]
  <2>1. /\ redeeming' = [redeeming EXCEPT ![u] = t] /\ UNCHANGED <<dbHistory, call>>
        /\ \A v \in Payees : ~(redeeming[v].stage = "paying" /\ redeeming[v].code = c)
    BY <1>2 DEF Redeem!RedeemRead, Redeem!Locked, Redeem!dbVars, Redeem!history, dbHistory, Redeem!Idle
  <2>2. PageTypes'
    BY <1>0, <1>2 DEF PageTypes, Redeem!RedeemRead, Redeem!pageVars
  <2>3. c \in Codes /\ code[c] \in Redeem!Row
    BY <1>0, <1>2, TxIs, TypesSplit DEF Redeem!RedeemRead, RedemptionInv, RowTypes
  <2>4. Redeem!TxOK(t)
    BY <2>3 DEF Redeem!TxOK, Redeem!Idle
  <2>5. t.stage = "paying" => /\ t.row = code[t.code] /\ t.code = c
                              /\ code[c].live = "live" /\ code[c].status = "Enabled"
    BY DEF Redeem!Redeemable
  <2> HIDE DEF t
  <2>6. QED BY <2>1, <2>2, <2>4, <2>5, UserKeeps
<1>3. ASSUME NEW u \in Payees, Redeem!RedeemFails(u) PROVE RedemptionInv'
  <2>1. /\ Redeem!TxOK([stage |-> "idle"])
        /\ redeeming' = [redeeming EXCEPT ![u] = [stage |-> "idle"]]
        /\ UNCHANGED <<dbHistory, call>>
    BY <1>3 DEF Redeem!RedeemFails, Redeem!TxOK, Redeem!Idle, Redeem!dbVars, Redeem!history, dbHistory
  <2>2. PageTypes'
    BY <1>0, <1>3 DEF PageTypes, Redeem!RedeemFails, Redeem!pageVars
  <2>3. QED BY <2>1, <2>2, UserKeeps
<1>4. QED BY <1>1, <1>2, <1>3 DEF Redeem!UserStep

(* Credit and save: the copy is the row, so only status and user change.   *)
LEMMA CommitKeeps ==
    ASSUME RedemptionInv, NEW u \in Payees, Redeem!RedeemCommit(u) PROVE RedemptionInv'
<1> DEFINE c == redeeming[u].code
           row == [code[c] EXCEPT !.status = "Used", !.usedBy = u]
<1>0. RowTypes /\ TxTypes /\ CallTypes /\ PageTypes
  BY TypesSplit DEF RedemptionInv
<1>1. /\ c \in Codes /\ redeeming[u].stage = "paying" /\ redeeming[u].row = code[c]
      /\ code[c].live = "live" /\ code[c].status = "Enabled"
      /\ \A v \in Payees : redeeming[v].stage = "paying" /\ redeeming[v].code = c => v = u
  BY <1>0, TxIs DEF Redeem!RedeemCommit, RedemptionInv, RowsAreHeld
<1>2. /\ code' = [code EXCEPT ![c] = row]
      /\ credited' = [credited EXCEPT ![u] = @ + code[c].quota]
      /\ payments' = [payments EXCEPT ![c] = @ + 1] /\ payee' = [payee EXCEPT ![c] = u]
      /\ redeeming' = [redeeming EXCEPT ![u] = [stage |-> "idle"]]
      /\ UNCHANGED <<shown, loading, drawer, call, now, calls, tries, asked, reopened>>
  BY <1>1 DEF Redeem!RedeemCommit, Redeem!pageVars, Redeem!Idle
<1>3. code[c] \in Redeem!Row
  BY <1>0, <1>1 DEF RowTypes
<1>4. /\ row \in Redeem!Row /\ row.live = "live" /\ row.status = "Used" /\ row.usedBy = u
      /\ row.quota = code[c].quota
  BY <1>1, <1>3 DEF Redeem!Row, Redeem!Status
<1> HIDE DEF row, c
<1>5. RowTypes'
  <2>1. code[c].quota \in Nat
    BY <1>3 DEF Redeem!Row
  <2>2. QED BY <1>0, <1>1, <1>2, <1>4, <2>1 DEF RowTypes
<1>6. /\ TxTypes' /\ redeeming'[u].stage = "idle"
      /\ \A v \in Payees : v # u => redeeming'[v] = redeeming[v]
  <2>1. Redeem!TxOK([stage |-> "idle"])
    BY DEF Redeem!TxOK, Redeem!Idle
  <2>2. /\ TxTypes' /\ redeeming'[u] = [stage |-> "idle"]
        /\ \A v \in Payees : v # u => redeeming'[v] = redeeming[v]
    BY <1>0, <1>2, <2>1, TxMoves
  <2>3. QED BY <2>2
<1>7. RedemptionTypes'
  BY <1>0, <1>2, <1>5, <1>6, TypesSplitPrimed DEF CallTypes, PageTypes
<1>8. /\ code'[c] = row /\ payments'[c] = payments[c] + 1 /\ payee'[c] = u
      /\ \A d \in Codes : d # c => /\ code'[d] = code[d] /\ payments'[d] = payments[d]
                                   /\ payee'[d] = payee[d]
  BY <1>0, <1>1, <1>2 DEF RowTypes
<1>9. RowsAreHeld'
  <2>1. \A v \in Payees : redeeming'[v].stage = "paying" =>
           /\ v # u /\ redeeming'[v] = redeeming[v] /\ redeeming[v].code \in Codes
           /\ redeeming[v].code # c
    BY <1>0, <1>1, <1>6, TxIs
  <2>2. \A v \in Payees : redeeming'[v].stage = "paying" => code'[redeeming[v].code] = code[redeeming[v].code]
    BY <1>8, <2>1
  <2>3. QED BY <2>1, <2>2 DEF RedemptionInv, RowsAreHeld
<1>10. CallIsTrue'
  <2>1. \A d \in Codes : payments[d] \in Nat /\ (payments[d] > 0 => payments'[d] > 0)
    BY <1>0, <1>8 DEF RowTypes
  <2>2. QED BY <1>0, <1>2, <2>1, CallIs DEF RedemptionInv, CallIsTrue
<1>11. ASSUME NEW d \in Codes PROVE CodeIsTrue(d)'
  <2>1. payments[d] \in Nat /\ reopened[d] \in Nat
    BY <1>0 DEF RowTypes
  <2>2. CASE d = c
    BY <1>1, <1>2, <1>4, <1>8, <2>1, <2>2 DEF RedemptionInv, CodeIsTrue
  <2>3. CASE d # c
    BY <1>2, <1>8, <2>3 DEF RedemptionInv, CodeIsTrue
  <2>4. QED BY <2>2, <2>3
<1>12. QED BY <1>7, <1>9, <1>10, <1>11 DEF RedemptionInv

(* The steps of the page.                                                  *)
LEMMA SendKeeps ==
    ASSUME RedemptionInv, NEW op, NEW r, Redeem!CallOK(r), Redeem!Send("a1", op, r),
           r.stage = "create" => r.quota # 0,
           r.stage = "update" => r.status # "Used", r.stage # "write"
    PROVE  RedemptionInv'
<1>1. /\ call' = [call EXCEPT !["a1"] = r] /\ UNCHANGED <<dbHistory, redeeming>>
      /\ UNCHANGED <<shown, loading, drawer, now, tries>> /\ calls' = calls + 1 /\ calls < MaxCalls
  BY DEF Redeem!Send, Redeem!dbVars, Redeem!history, Redeem!pageVars, dbHistory
<1>2. PageTypes'
  BY <1>1, TypesSplit, GiftAssumption DEF RedemptionInv, PageTypes
<1>3. QED BY <1>1, <1>2, CallKeeps

LEMMA PageStepKeeps ==
    ASSUME RedemptionInv, 0 \notin Quotas, Redeem!PageStep PROVE RedemptionInv'
<1>0. RowTypes /\ PageTypes /\ Quotas \subseteq Nat
  BY TypesSplit, GiftAssumption DEF RedemptionInv
<1>1. CASE Redeem!Load("a1") \/ Redeem!CloseDrawer("a1")
  <2>1. UNCHANGED <<dbHistory, redeeming, call>>
    BY <1>1 DEF Redeem!Load, Redeem!CloseDrawer, Redeem!dbVars, Redeem!history, dbHistory
  <2>2. PageTypes'
    BY <1>0, <1>1 DEF PageTypes, Redeem!Load, Redeem!CloseDrawer
  <2>3. QED BY <2>1, <2>2, PageKeeps
<1>2. CASE Redeem!Loaded("a1")
  <2>1. UNCHANGED <<dbHistory, redeeming, call>>
    BY <1>2 DEF Redeem!Loaded, Redeem!dbVars, Redeem!history, dbHistory
  <2>2. \A c \in Codes : Redeem!Displayed(code[c]) \in Redeem!Row
    BY <1>0 DEF RowTypes, Redeem!Displayed, Redeem!Row
  <2>3. Redeem!NoRow \in Redeem!Row
    BY GiftAssumption DEF Redeem!NoRow, Redeem!Row, Redeem!Status, Redeem!Times
  <2>4. PageTypes'
    BY <1>0, <1>2, <2>2, <2>3 DEF PageTypes, Redeem!Loaded
  <2>5. QED BY <2>1, <2>4, PageKeeps
<1>3. ASSUME NEW c \in Codes, Redeem!OpenDrawer("a1", c) PROVE RedemptionInv'
  <2>1. UNCHANGED <<dbHistory, redeeming, call>>
    BY <1>3 DEF Redeem!OpenDrawer, Redeem!dbVars, Redeem!history, dbHistory
  <2>2. PageTypes'
    BY <1>0, <1>3 DEF PageTypes, Redeem!OpenDrawer
  <2>3. QED BY <2>1, <2>2, PageKeeps
<1>4. CASE Redeem!SendDeleteInvalid("a1")
  <2> DEFINE r == [stage |-> "clean"]
  <2>1. Redeem!CallOK(r) /\ Redeem!Send("a1", "clean", r) /\ r.stage = "clean"
    BY <1>4 DEF Redeem!CallOK, Redeem!SendDeleteInvalid
  <2> HIDE DEF r
  <2>2. QED BY <2>1, SendKeeps
<1>5. ASSUME NEW c \in Codes, Redeem!SendToggle("a1", c) PROVE RedemptionInv'
  <2> DEFINE s == Redeem!newStatus(shown["a1"][c])
             r == [stage |-> "update", code |-> c, statusOnly |-> TRUE, status |-> s,
                   quota |-> 0, expired |-> 0]
  <2>1. Redeem!Send("a1", "toggle", r) /\ s \in {"Enabled", "Disabled"}
    BY <1>5 DEF Redeem!SendToggle, Redeem!newStatus
  <2> HIDE DEF s
  <2>2. Redeem!CallOK(r)
    BY <2>1, GiftAssumption DEF Redeem!CallOK, Redeem!Status, Redeem!Times
  <2>3. r.stage = "update" /\ r.status # "Used"
    BY <2>1
  <2> HIDE DEF r
  <2>4. QED BY <2>1, <2>2, <2>3, SendKeeps
<1>6. ASSUME NEW c \in Codes, Redeem!SendDelete("a1", c) PROVE RedemptionInv'
  <2> DEFINE r == [stage |-> "delete", code |-> c]
  <2>1. Redeem!CallOK(r) /\ Redeem!Send("a1", "delete", r) /\ r.stage = "delete"
    BY <1>6 DEF Redeem!CallOK, Redeem!SendDelete
  <2> HIDE DEF r
  <2>2. QED BY <2>1, SendKeeps
<1>7. ASSUME NEW q \in Quotas, NEW e \in Redeem!Times, Redeem!SendEdit("a1", q, e) PROVE RedemptionInv'
  <2> DEFINE r == [stage |-> "update", code |-> drawer["a1"], statusOnly |-> FALSE,
                   status |-> "Enabled", quota |-> q, expired |-> e]
  <2>1. Redeem!Send("a1", "edit", r) /\ drawer["a1"] \in Codes
    BY <1>0, <1>7 DEF Redeem!SendEdit, PageTypes
  <2>2. Redeem!CallOK(r)
    BY <1>0, <2>1 DEF Redeem!CallOK, Redeem!Status
  <2>3. r.stage = "update" /\ r.status # "Used"
    OBVIOUS
  <2> HIDE DEF r
  <2>4. QED BY <2>1, <2>2, <2>3, SendKeeps
<1>8. ASSUME NEW q \in Quotas, NEW e \in Redeem!Times, NEW n \in {1, 2}, Redeem!SendCreate("a1", n, q, e)
      PROVE  RedemptionInv'
  <2> DEFINE r == [stage |-> "create", left |-> n, quota |-> q, expired |-> e]
  <2>1. Redeem!Send("a1", "create", r)
    BY <1>8 DEF Redeem!SendCreate
  <2>2. Redeem!CallOK(r)
    BY <1>0 DEF Redeem!CallOK
  <2>3. r.stage = "create" /\ r.quota # 0
    OBVIOUS
  <2> HIDE DEF r
  <2>4. QED BY <2>1, <2>2, <2>3, SendKeeps
<1>9. QED BY <1>1, <1>2, <1>3, <1>4, <1>5, <1>6, <1>7, <1>8 DEF Redeem!PageStep

(* A step of a handler that leaves the redemptions alone and no row that   *)
(* one of them holds.                                                      *)
LEMMA HeldStay ==
    ASSUME RedemptionInv, UNCHANGED redeeming,
           \A c \in Codes : Redeem!Locked(c) => code'[c] = code[c]
    PROVE  RowsAreHeld'
<1>1. \A u \in Payees : redeeming[u].stage = "paying" => code'[redeeming[u].code] = code[redeeming[u].code]
  BY TypesSplit, TxIs DEF RedemptionInv, Redeem!Locked
<1>2. QED BY <1>1 DEF RedemptionInv, RowsAreHeld

LEMMA AddKeeps ==
    ASSUME RedemptionInv, NEW c \in Codes, Redeem!AddRedemption("a1", c) PROVE RedemptionInv'
<1> DEFINE q == call["a1"].quota
           row == Redeem!Inserted(call["a1"])
           r == [call["a1"] EXCEPT !.left = @ - 1]
<1>0. RowTypes /\ TxTypes /\ CallTypes /\ PageTypes /\ DefaultQuota \in Nat /\ MaxTime \in Nat
  BY TypesSplit, GiftAssumption DEF RedemptionInv
<1>1. /\ call["a1"].stage = "create" /\ call["a1"].left > 0 /\ code[c].live = "absent"
      /\ code' = [code EXCEPT ![c] = row] /\ asked' = [asked EXCEPT ![c] = q]
      /\ call' = [call EXCEPT !["a1"] = r]
      /\ UNCHANGED <<credited, shown, loading, drawer, redeeming, now, calls, tries, payments, payee, reopened>>
  BY DEF Redeem!AddRedemption, Redeem!pageVars
<1>2. call["a1"] \in [stage : {"create"}, left : 0..2, quota : Nat, expired : Redeem!Times]
  BY <1>0, <1>1 DEF CallTypes, Redeem!CallOK, Redeem!Idle
<1>3. q \in Nat /\ q # 0
  BY <1>1, <1>2 DEF RedemptionInv, CallIsTrue
<1>4. row \in Redeem!Row /\ row.live = "live" /\ row.status = "Enabled" /\ row.quota = q
  BY <1>0, <1>2, <1>3 DEF Redeem!Inserted, Redeem!NoRow, Redeem!Row, Redeem!Status
<1>5. Redeem!CallOK(r) /\ r.stage = "create" /\ r.quota = q
  <2>1. r \in [stage : {"create"}, left : 0..2, quota : Nat, expired : Redeem!Times]
    BY <1>1, <1>2
  <2>2. QED BY <1>1, <1>2, <2>1 DEF Redeem!CallOK
<1> HIDE DEF row, r, q
<1>6. CallTypes' /\ call'["a1"] = r
  BY <1>0, <1>1, <1>5, CallMoves
<1>7. RowTypes'
  BY <1>0, <1>1, <1>3, <1>4 DEF RowTypes
<1>8. RedemptionTypes'
  BY <1>0, <1>1, <1>6, <1>7, TypesSplitPrimed DEF TxTypes, PageTypes
<1>9. RowsAreHeld'
  <2>1. ~Redeem!Locked(c)
    BY <1>1 DEF RedemptionInv, RowsAreHeld, Redeem!Locked
  <2>2. \A d \in Codes : d # c => code'[d] = code[d]
    BY <1>0, <1>1 DEF RowTypes
  <2>3. QED BY <1>1, <2>1, <2>2, HeldStay
<1>10. CallIsTrue'
  BY <1>3, <1>5, <1>6 DEF CallIsTrue
<1>11. ASSUME NEW d \in Codes PROVE CodeIsTrue(d)'
  <2>1. /\ payments[d] \in Nat /\ reopened[d] \in Nat /\ code'[c] = row /\ asked'[c] = q
        /\ d # c => code'[d] = code[d] /\ asked'[d] = asked[d]
    BY <1>0, <1>1 DEF RowTypes
  <2>2. CASE d = c
    BY <1>1, <1>4, <2>1, <2>2 DEF RedemptionInv, CodeIsTrue
  <2>3. CASE d # c
    BY <1>1, <2>1, <2>3 DEF RedemptionInv, CodeIsTrue
  <2>4. QED BY <2>2, <2>3
<1>12. QED BY <1>8, <1>9, <1>10, <1>11 DEF RedemptionInv

LEMMA UpdateReadKeeps ==
    ASSUME RedemptionInv, Redeem!UpdateRead("a1") PROVE RedemptionInv'
<1> DEFINE u == call["a1"]
           row == Redeem!CleanRedemption(u, code[u.code])
           r == [stage |-> "write", code |-> u.code, statusOnly |-> u.statusOnly, row |-> row]
<1>0. RowTypes /\ TxTypes /\ CallTypes /\ PageTypes
  BY TypesSplit DEF RedemptionInv
<1>1. /\ u.stage = "update" /\ code[u.code].live = "live" /\ call' = [call EXCEPT !["a1"] = r]
      /\ UNCHANGED <<dbHistory, redeeming, shown, loading, drawer, now, calls, tries>>
  BY DEF Redeem!UpdateRead, Redeem!dbVars, Redeem!pageVars, Redeem!history, dbHistory
<1>2. /\ u.code \in Codes /\ u.statusOnly \in BOOLEAN /\ u.status \in Redeem!Status /\ u.status # "Used"
      /\ u.quota \in Nat /\ u.expired \in Redeem!Times
  BY <1>0, <1>1, CallIs DEF RedemptionInv, CallIsTrue
<1>3. code[u.code] \in Redeem!Row /\ CodeIsTrue(u.code)
  BY <1>0, <1>2 DEF RowTypes, RedemptionInv
<1>4. /\ row \in Redeem!Row
      /\ row.status = "Used" => code[u.code].status = "Used"
      /\ u.statusOnly => row.quota = code[u.code].quota
  BY <1>2, <1>3 DEF Redeem!CleanRedemption, Redeem!Row
<1>5. /\ row.status = "Used" => payments[u.code] > 0
      /\ u.statusOnly => row.quota = asked[u.code]
  BY <1>1, <1>3, <1>4 DEF CodeIsTrue
<1> HIDE DEF row
<1>6. Redeem!CallOK(r)
  BY <1>2, <1>4 DEF Redeem!CallOK
<1>7. r.stage = "write" /\ r.code = u.code /\ r.statusOnly = u.statusOnly /\ r.row = row
  OBVIOUS
<1> HIDE DEF r
<1>8. PageTypes'
  BY <1>0, <1>1 DEF PageTypes
<1>9. QED BY <1>1, <1>5, <1>6, <1>7, <1>8, CallKeeps

(* The copy is written back: a row that was read as used was paid, one     *)
(* that becomes enabled again is counted as reopened, and the amount is    *)
(* the one that was read or is now asked for.                              *)
LEMMA UpdateWriteKeeps ==
    ASSUME RedemptionInv, Redeem!UpdateWrite("a1") PROVE RedemptionInv'
<1> DEFINE u == call["a1"]
           c == u.code
           new == [code[c] EXCEPT !.status = u.row.status, !.quota = u.row.quota,
                                  !.expired = u.row.expired]
<1>0. RowTypes /\ TxTypes /\ CallTypes /\ PageTypes
  BY TypesSplit DEF RedemptionInv
<1>1. /\ u.stage = "write" /\ ~Redeem!Locked(c)
      /\ UNCHANGED <<credited, redeeming, now, calls, tries, payments, payee>>
      /\ \E s \in BOOLEAN : Redeem!Told("a1", s)
  BY DEF Redeem!UpdateWrite
<1>2. /\ c \in Codes /\ u.statusOnly \in BOOLEAN /\ u.row \in Redeem!Row
      /\ u.row.status = "Used" => payments[c] > 0
      /\ u.statusOnly => u.row.quota = asked[c]
  BY <1>0, <1>1, CallIs DEF RedemptionInv, CallIsTrue
<1>3. /\ PageTypes' /\ CallTypes' /\ call'["a1"] = [stage |-> "idle"]
  BY <1>1, ToldTypes DEF RedemptionInv
<1>4. CallIsTrue'
  BY <1>3 DEF CallIsTrue
<1>5. CASE code[c].live # "live"
  <2>1. UNCHANGED <<code, asked, reopened>>
    BY <1>5 DEF Redeem!UpdateWrite
  <2>2. RedemptionTypes'
    BY <1>0, <1>1, <1>3, <2>1, TypesSplitPrimed DEF RowTypes, TxTypes
  <2>3. RowsAreHeld' /\ \A d \in Codes : CodeIsTrue(d)'
    BY <1>1, <2>1 DEF RedemptionInv, RowsAreHeld, CodeIsTrue
  <2>4. QED BY <1>4, <2>2, <2>3 DEF RedemptionInv
<1>6. CASE code[c].live = "live"
  <2>1. code' = [code EXCEPT ![c] = new]
    BY <1>0, <1>2, <1>6 DEF Redeem!UpdateWrite, RowTypes
  <2>2. asked' = IF ~u.statusOnly THEN [asked EXCEPT ![c] = u.row.quota] ELSE asked
    BY <1>6 DEF Redeem!UpdateWrite
  <2>3. reopened' = IF u.row.status = "Enabled" /\ code[c].status # "Enabled" /\ payments[c] > 0
                    THEN [reopened EXCEPT ![c] = @ + 1] ELSE reopened
    BY <1>6 DEF Redeem!UpdateWrite
  <2>4. /\ code[c] \in Redeem!Row /\ payments[c] \in Nat /\ reopened[c] \in Nat /\ asked[c] \in Nat
        /\ CodeIsTrue(c)
    BY <1>0, <1>2 DEF RowTypes, RedemptionInv
  <2>5. /\ new \in Redeem!Row /\ new.live = "live" /\ new.status = u.row.status
        /\ new.quota = u.row.quota /\ new.usedBy = code[c].usedBy
    BY <1>2, <1>6, <2>4 DEF Redeem!Row
  <2> HIDE DEF new
  <2>6. /\ code' \in [Codes -> Redeem!Row] /\ code'[c] = new
        /\ \A d \in Codes : d # c => code'[d] = code[d]
    BY <1>0, <1>2, <2>1, <2>5 DEF RowTypes
  <2>7. u.row.quota \in Nat
    BY <1>2 DEF Redeem!Row
  <2>8. /\ asked' \in [Codes -> Nat] /\ asked'[c] = u.row.quota
        /\ \A d \in Codes : d # c => asked'[d] = asked[d]
    BY <1>0, <1>2, <2>2, <2>7 DEF RowTypes
  <2>9. /\ reopened' \in [Codes -> Nat] /\ \A d \in Codes : d # c => reopened'[d] = reopened[d]
        /\ reopened'[c] >= reopened[c]
        /\ u.row.status = "Enabled" /\ code[c].status # "Enabled" /\ payments[c] > 0
              => reopened'[c] = reopened[c] + 1
    BY <1>0, <1>2, <2>3 DEF RowTypes
  <2>10. RedemptionTypes'
    BY <1>0, <1>1, <1>3, <2>6, <2>8, <2>9, TypesSplitPrimed DEF RowTypes, TxTypes
  <2>11. RowsAreHeld'
    BY <1>1, <2>6, HeldStay
  <2>12. ASSUME NEW d \in Codes PROVE CodeIsTrue(d)'
    <3>1. CASE d # c
      BY <1>1, <2>6, <2>8, <2>9, <3>1 DEF RedemptionInv, CodeIsTrue
    <3>2. CASE d = c
      <4>1. /\ payments'[d] = payments[d] /\ payee'[d] = payee[d] /\ reopened'[d] \in Nat
            /\ payments[d] \in Nat /\ reopened[d] \in Nat /\ reopened'[d] >= reopened[d] /\ CodeIsTrue(d)
        BY <1>1, <2>4, <2>9, <3>2
      <4>2. payments[d] <= 1 + reopened'[d]
        BY <4>1 DEF CodeIsTrue
      <4>3. u.row.status = "Enabled" => payments[d] <= reopened'[d]
        BY <2>9, <3>2, <4>1 DEF CodeIsTrue
      <4>4. /\ code'[d].live = "live" /\ code'[d].status = u.row.status
            /\ code'[d].quota = asked'[d] /\ code'[d].usedBy = code[d].usedBy
            /\ u.row.status = "Used" => payments[d] > 0
        BY <1>2, <2>5, <2>6, <2>8, <3>2
      <4> HIDE DEF u, c
      <4>5. QED BY <4>1, <4>2, <4>3, <4>4 DEF CodeIsTrue
    <3>3. QED BY <3>1, <3>2
  <2>13. QED BY <1>4, <2>10, <2>11, <2>12 DEF RedemptionInv
<1>7. QED BY <1>5, <1>6

(* Deleting rows that nobody holds.                                        *)
LEMMA DeletingKeeps ==
    ASSUME RedemptionInv, NEW s \in BOOLEAN, Redeem!Told("a1", s),
           UNCHANGED <<credited, asked, payments, payee, reopened, redeeming, now, calls, tries>>,
           code' \in [Codes -> Redeem!Row],
           \A c \in Codes : /\ Redeem!Locked(c) => code'[c] = code[c]
                            /\ \/ code'[c] = code[c]
                               \/ code[c].live = "live" /\ code'[c] = [code[c] EXCEPT !.live = "deleted"]
    PROVE  RedemptionInv'
<1>0. RowTypes /\ TxTypes /\ CallTypes /\ PageTypes
  BY TypesSplit DEF RedemptionInv
<1>1. /\ PageTypes' /\ CallTypes' /\ call'["a1"] = [stage |-> "idle"]
  BY ToldTypes DEF RedemptionInv
<1>2. CallIsTrue'
  BY <1>1 DEF CallIsTrue
<1>3. RedemptionTypes'
  BY <1>0, <1>1, TypesSplitPrimed DEF RowTypes, TxTypes
<1>4. RowsAreHeld'
  BY HeldStay
<1>5. ASSUME NEW c \in Codes PROVE CodeIsTrue(c)'
  <2>1. code[c] \in Redeem!Row /\ CodeIsTrue(c)
    BY <1>0 DEF RowTypes, RedemptionInv
  <2>2. CASE code'[c] = code[c]
    BY <2>1, <2>2 DEF CodeIsTrue
  <2>3. CASE code'[c] = [code[c] EXCEPT !.live = "deleted"]
    <3>1. /\ code'[c].live = "deleted" /\ code'[c].status = code[c].status
          /\ code'[c].usedBy = code[c].usedBy
      BY <2>1, <2>3 DEF Redeem!Row
    <3>2. QED BY <2>1, <3>1 DEF CodeIsTrue
  <2>4. QED BY <2>2, <2>3
<1>6. QED BY <1>2, <1>3, <1>4, <1>5 DEF RedemptionInv

LEMMA HandlerStepKeeps ==
    ASSUME RedemptionInv, Redeem!HandlerStep PROVE RedemptionInv'
<1>0. RowTypes /\ TxTypes /\ CallTypes /\ PageTypes
  BY TypesSplit DEF RedemptionInv
<1>1. CASE Redeem!AddRedemptionEnds("a1") \/ Redeem!UpdateRefused("a1")
  <2>1. PICK s \in BOOLEAN : Redeem!Told("a1", s)
    BY <1>1 DEF Redeem!AddRedemptionEnds, Redeem!UpdateRefused
  <2>2. UNCHANGED <<dbHistory, redeeming, now, calls, tries>>
    BY <1>1 DEF Redeem!AddRedemptionEnds, Redeem!UpdateRefused, Redeem!dbVars, Redeem!history, dbHistory
  <2> DEFINE r == [stage |-> "idle"]
  <2>3. PageTypes' /\ call' = [call EXCEPT !["a1"] = r] /\ Redeem!CallOK(r)
    BY <2>1, <2>2, ToldTypes DEF RedemptionInv
  <2>4. r.stage = "idle"
    OBVIOUS
  <2> HIDE DEF r
  <2>5. QED BY <2>2, <2>3, <2>4, CallKeeps
<1>2. CASE Redeem!DeleteRedemption("a1")
  <2> DEFINE c == call["a1"].code
  <2>1. PICK s \in BOOLEAN : Redeem!Told("a1", s)
    BY <1>2 DEF Redeem!DeleteRedemption
  <2>2. /\ UNCHANGED <<credited, asked, payments, payee, reopened, redeeming, now, calls, tries>>
        /\ ~Redeem!Locked(c) /\ c \in Codes
    BY <1>0, <1>2, CallIs DEF Redeem!DeleteRedemption, Redeem!history
  <2>3. code' = IF code[c].live = "live" THEN [code EXCEPT ![c] = [code[c] EXCEPT !.live = "deleted"]]
                ELSE code
    BY <1>2 DEF Redeem!DeleteRedemption
  <2>4. code[c] \in Redeem!Row /\ [code[c] EXCEPT !.live = "deleted"] \in Redeem!Row
    BY <1>0, <2>2 DEF RowTypes, Redeem!Row
  <2>5. code' \in [Codes -> Redeem!Row]
    BY <1>0, <2>3, <2>4 DEF RowTypes
  <2>6. \A d \in Codes : \/ code'[d] = code[d]
                         \/ d = c /\ code[d].live = "live" /\ code'[d] = [code[d] EXCEPT !.live = "deleted"]
    BY <1>0, <2>2, <2>3 DEF RowTypes
  <2>7. QED BY <2>1, <2>2, <2>5, <2>6, DeletingKeeps
<1>3. CASE Redeem!DeleteInvalidRedemptions("a1")
  <2>1. PICK s \in BOOLEAN : Redeem!Told("a1", s)
    BY <1>3 DEF Redeem!DeleteInvalidRedemptions
  <2>2. /\ UNCHANGED <<credited, asked, payments, payee, reopened, redeeming, now, calls, tries>>
        /\ \A c \in Codes : ~Redeem!Locked(c)
    BY <1>3 DEF Redeem!DeleteInvalidRedemptions, Redeem!history
  <2>3. code' = [c \in Codes |-> IF code[c].live = "live" /\ Redeem!Invalid(code[c])
                                 THEN [code[c] EXCEPT !.live = "deleted"] ELSE code[c]]
    BY <1>3 DEF Redeem!DeleteInvalidRedemptions
  <2>4. \A c \in Codes : code[c] \in Redeem!Row /\ [code[c] EXCEPT !.live = "deleted"] \in Redeem!Row
    BY <1>0 DEF RowTypes, Redeem!Row
  <2>5. code' \in [Codes -> Redeem!Row]
    BY <2>3, <2>4
  <2>6. \A c \in Codes : \/ code'[c] = code[c]
                         \/ code[c].live = "live" /\ code'[c] = [code[c] EXCEPT !.live = "deleted"]
    BY <2>3
  <2>7. QED BY <2>1, <2>2, <2>5, <2>6, DeletingKeeps
<1>4. QED BY <1>1, <1>2, <1>3, AddKeeps, UpdateReadKeeps, UpdateWriteKeeps DEF Redeem!HandlerStep

LEMMA RedemptionStarts ==
    ASSUME Redeem!Init PROVE RedemptionInv
<1>1. PICK first \in Codes \cup {NoCode}, q \in Quotas \ {0}, e \in Redeem!Times :
         code = [c \in Codes |-> IF c = first
                                 THEN [Redeem!NoRow EXCEPT !.live = "live", !.status = "Enabled",
                                                           !.quota = q, !.expired = e]
                                 ELSE Redeem!NoRow]
  BY DEF Redeem!Init
<1>2. \A c \in Codes : /\ code[c] \in Redeem!Row /\ code[c].status # "Used"
                       /\ code[c].quota \in Nat
  <2> DEFINE new == [Redeem!NoRow EXCEPT !.live = "live", !.status = "Enabled", !.quota = q, !.expired = e]
  <2>1. MaxTime \in Nat /\ q \in Nat /\ 0 \in Redeem!Times
    BY GiftAssumption DEF Redeem!Times
  <2>2. Redeem!NoRow \in Redeem!Row /\ Redeem!NoRow.status = "Disabled"
    BY <2>1 DEF Redeem!Row, Redeem!NoRow, Redeem!Status
  <2>3. new \in Redeem!Row /\ new.status = "Enabled"
    BY <2>1, <2>2 DEF Redeem!Row, Redeem!Status
  <2> HIDE DEF new
  <2>4. ASSUME NEW c \in Codes PROVE code[c] \in Redeem!Row /\ code[c].status # "Used"
    BY <1>1, <2>2, <2>3 DEF new
  <2>5. QED BY <2>4 DEF Redeem!Row
<1>3. code \in [Codes -> Redeem!Row]
  BY <1>1, <1>2
<1>4. RowTypes
  BY <1>2, <1>3 DEF Redeem!Init, RowTypes
<1>5. TxTypes /\ CallTypes
  BY DEF Redeem!Init, TxTypes, CallTypes, Redeem!TxOK, Redeem!CallOK, Redeem!Idle
<1>6. PageTypes
  <2>1. Redeem!NoRow \in Redeem!Row
    BY GiftAssumption DEF Redeem!NoRow, Redeem!Row, Redeem!Status, Redeem!Times
  <2>2. QED BY <2>1, GiftAssumption DEF Redeem!Init, PageTypes, Redeem!Times
<1>7. RowsAreHeld /\ CallIsTrue
  BY DEF Redeem!Init, RowsAreHeld, CallIsTrue, Redeem!Idle
<1>8. ASSUME NEW c \in Codes PROVE CodeIsTrue(c)
  BY <1>2 DEF Redeem!Init, CodeIsTrue
<1>9. QED BY <1>4, <1>5, <1>6, <1>7, <1>8, TypesSplit DEF RedemptionInv

LEMMA RedemptionKept ==
    ASSUME RedemptionInv, 0 \notin Quotas, Redeem!Next PROVE RedemptionInv'
<1>1. CASE Redeem!Tick
  <2>1. UNCHANGED <<dbHistory, redeeming, call>>
    BY <1>1 DEF Redeem!Tick, Redeem!dbVars, Redeem!history, dbHistory
  <2>2. PageTypes'
    BY <1>1, TypesSplit, GiftAssumption DEF RedemptionInv, PageTypes, Redeem!Tick, Redeem!pageVars, Redeem!Times
  <2>3. QED BY <2>1, <2>2, PageKeeps
<1>2. QED BY <1>1, UserStepKeeps, CommitKeeps, PageStepKeeps, HandlerStepKeeps DEF Redeem!Next

(* No step brings a deleted code back or pays it: only a row that is held  *)
(* is paid, and it is not deleted; only an absent one is inserted.         *)
LEMMA DeletedIsDead ==
    ASSUME RedemptionInv, Redeem!Next PROVE Redeem!DeletedStaysDead
<1>0. RowTypes /\ TxTypes /\ CallTypes
  BY TypesSplit DEF RedemptionInv
<1>1. SUFFICES ASSUME NEW c \in Codes, code[c].live = "deleted"
               PROVE  code'[c].live = "deleted" /\ payments'[c] = payments[c]
  BY DEF Redeem!DeletedStaysDead
<1>2. ASSUME NEW u \in Payees, Redeem!RedeemCommit(u) PROVE code'[c] = code[c] /\ payments'[c] = payments[c]
  <2>1. redeeming[u].code \in Codes /\ redeeming[u].code # c
    BY <1>0, <1>1, <1>2, TxIs DEF Redeem!RedeemCommit, RedemptionInv, RowsAreHeld
  <2>2. QED BY <1>0, <1>2, <2>1 DEF Redeem!RedeemCommit, RowTypes
<1>3. ASSUME NEW d \in Codes, Redeem!AddRedemption("a1", d) PROVE code'[c] = code[c] /\ payments'[c] = payments[c]
  BY <1>0, <1>1, <1>3 DEF Redeem!AddRedemption, RowTypes
<1>4. CASE Redeem!UpdateWrite("a1")
  <2>1. payments' = payments /\ call["a1"].code \in Codes
    BY <1>0, <1>4, CallIs DEF Redeem!UpdateWrite
  <2>2. code'[c] = code[c] \/ (code[call["a1"].code].live = "live" /\ call["a1"].code # c)
    BY <1>1, <1>4 DEF Redeem!UpdateWrite
  <2>3. code[call["a1"].code].live = "live" /\ call["a1"].code # c => code'[c] = code[c]
    BY <1>0, <1>4, <2>1 DEF Redeem!UpdateWrite, RowTypes
  <2>4. QED BY <1>1, <2>1, <2>2, <2>3
<1>5. CASE Redeem!DeleteRedemption("a1")
  <2>1. payments' = payments /\ call["a1"].code \in Codes
    BY <1>0, <1>5, CallIs DEF Redeem!DeleteRedemption, Redeem!history
  <2>2. code'[c] = code[c]
    BY <1>0, <1>1, <1>5, <2>1 DEF Redeem!DeleteRedemption, RowTypes
  <2>3. QED BY <1>1, <2>1, <2>2
<1>6. CASE Redeem!DeleteInvalidRedemptions("a1")
  BY <1>1, <1>6 DEF Redeem!DeleteInvalidRedemptions, Redeem!history
<1>7. CASE UNCHANGED <<code, payments>>
  BY <1>1, <1>7
<1>8. CASE Redeem!PageStep \/ Redeem!Tick
  BY <1>7, <1>8 DEF Redeem!PageStep, Redeem!Tick, Redeem!Load, Redeem!Loaded, Redeem!CloseDrawer,
     Redeem!SendDeleteInvalid, Redeem!OpenDrawer, Redeem!SendToggle, Redeem!SendDelete,
     Redeem!SendEdit, Redeem!SendCreate, Redeem!Send, Redeem!dbVars, Redeem!history
<1>9. ASSUME NEW u \in Payees, (\E d \in Codes : Redeem!TopUp(u, d)) \/ Redeem!RedeemRead(u) \/ Redeem!RedeemFails(u)
      PROVE  UNCHANGED <<code, payments>>
  BY <1>9 DEF Redeem!TopUp, Redeem!RedeemRead, Redeem!RedeemFails, Redeem!dbVars, Redeem!history
<1>10. CASE Redeem!AddRedemptionEnds("a1") \/ Redeem!UpdateRead("a1") \/ Redeem!UpdateRefused("a1")
  BY <1>7, <1>10 DEF Redeem!AddRedemptionEnds, Redeem!UpdateRead, Redeem!UpdateRefused, Redeem!dbVars,
     Redeem!history
<1>11. CASE Redeem!UserStep
  BY <1>1, <1>2, <1>7, <1>9, <1>11 DEF Redeem!UserStep
<1>12. CASE Redeem!HandlerStep
  BY <1>1, <1>3, <1>4, <1>5, <1>6, <1>10, <1>12 DEF Redeem!HandlerStep
<1>13. QED BY <1>8, <1>11, <1>12 DEF Redeem!Next

(***************************************************************************)
(* Gifts: codes and check-ins together                                     *)
(***************************************************************************)

GiftsInv ==
    /\ CheckinInv /\ RedemptionInv
    /\ part = "transaction" => NeverBetween

LEMMA GiftsPaidOnce == ASSUME GiftsInv PROVE PaidOnce
<1>1. /\ Redeem!RedemptionTypeOK /\ Redeem!RedeemedOnceUnlessReopened
      /\ Redeem!UsedNamesThePayee /\ Redeem!WorthAsAsked
  BY DEF GiftsInv, RedemptionInv, RedemptionTypes, CodeIsTrue, Redeem!RedeemedOnceUnlessReopened,
     Redeem!UsedNamesThePayee, Redeem!WorthAsAsked
<1>2. /\ CheckIn!AwardedOncePerDay /\ CheckIn!RecordMeansAward
      /\ part = "transaction" => Transaction!AwardedOncePerDay /\ Transaction!RecordMeansAward
  BY DaysAreTold DEF GiftsInv
<1>3. QED BY <1>1, <1>2 DEF PaidOnce

LEMMA GiftsKept ==
    ASSUME GiftsInv, 0 \notin Quotas, PaymentsNext \/ UNCHANGED <<part, redeemVars, checkinVars>>
    PROVE  GiftsInv' /\ (part = "redemption" /\ ~UNCHANGED <<redeemVars, checkinVars>> => Redeem!DeletedStaysDead)
<1>1. /\ part' = part
      /\ \/ part = "redemption" /\ Redeem!Next /\ UNCHANGED checkinVars
         \/ part = "checkin" /\ CheckIn!Next /\ UNCHANGED redeemVars
         \/ part = "transaction" /\ Transaction!Next /\ UNCHANGED redeemVars
         \/ UNCHANGED <<redeemVars, checkinVars>>
  BY DEF PaymentsNext
<1>2. ASSUME UNCHANGED redeemVars PROVE RedemptionInv'
  <2>1. PageTypes'
    BY <1>2, TypesSplit DEF GiftsInv, RedemptionInv, PageTypes, redeemVars
  <2>2. QED BY <1>2, <2>1, PageKeeps DEF GiftsInv, redeemVars, dbHistory
<1>3. ASSUME UNCHANGED checkinVars PROVE CheckinInv' /\ (NeverBetween => NeverBetween')
  BY <1>3 DEF GiftsInv, checkinVars, CheckinInv, CheckinTypes, OneAwards, DayIsTrue, Awarding, NeverBetween
<1>4. CASE part = "redemption" /\ Redeem!Next /\ UNCHANGED checkinVars
  BY <1>1, <1>3, <1>4, RedemptionKept, DeletedIsDead DEF GiftsInv
<1>5. CASE part = "checkin" /\ CheckIn!Next /\ UNCHANGED redeemVars
  BY <1>1, <1>2, <1>5, StepsOnSQLite, CommonKeeps, CreateRecordKeeps DEF GiftsInv
<1>6. CASE part = "transaction" /\ Transaction!Next /\ UNCHANGED redeemVars
  BY <1>1, <1>2, <1>6, StepsInTransactions, CommonKeeps, TransactionKeeps, NeverBetweenKept DEF GiftsInv
<1>7. CASE UNCHANGED <<redeemVars, checkinVars>>
  BY <1>1, <1>2, <1>3, <1>7 DEF GiftsInv
<1>8. QED BY <1>1, <1>4, <1>5, <1>6, <1>7

(* For any codes, users, amounts above zero, pages and days, next to one   *)
(* administrator's console and with the row lock Redeem asks for: Redeem   *)
(* pays a code once unless an update reopened it, UpdateRedemption and the *)
(* deletions neither change its worth nor revive it, and UserCheckin       *)
(* awards a day once, with and without transactions.  A code asked for     *)
(* with amount zero gets the column's default, hence the hypothesis.       *)
THEOREM GiftsStaySound == 0 \notin Quotas => (PaymentsSpec => GiftsAreSound)
<1> SUFFICES ASSUME 0 \notin Quotas PROVE PaymentsSpec => GiftsAreSound
  OBVIOUS
<1>1. PaymentsInit => GiftsInv
  <2>1. ASSUME PaymentsInit PROVE CheckIn!Init /\ (part = "transaction" => NeverBetween)
    BY <2>1 DEF PaymentsInit, CheckIn!Init, Transaction!Init, CheckIn!Idle, Transaction!Idle,
       CheckIn!Days, Transaction!Days, NeverBetween
  <2>2. QED BY <2>1, CheckinStarts, RedemptionStarts DEF PaymentsInit, GiftsInv
<1>2. ASSUME GiftsInv,
             [PaymentsNext]_<<part, vars, vipVars, balanceVars, redeemVars, checkinVars, withdrawVars>>
      PROVE  /\ GiftsInv'
             /\ [PaidOnce' /\ (part = "redemption" => Redeem!DeletedStaysDead)]_<<redeemVars, checkinVars>>
  <2>1. PaymentsNext \/ UNCHANGED <<part, redeemVars, checkinVars>>
    BY <1>2
  <2>2. /\ GiftsInv'
        /\ part = "redemption" /\ ~UNCHANGED <<redeemVars, checkinVars>> => Redeem!DeletedStaysDead
    BY <1>2, <2>1, GiftsKept
  <2>3. GiftsInv' => PaidOnce'
    BY GiftsPaidOnce, PTL
  <2>4. QED BY <2>2, <2>3
<1>3. QED BY <1>1, <1>2, PTL DEF PaymentsSpec, GiftsAreSound
================================================================================
