--------------------------- MODULE CommissionEscrow -------------------------
(***************************************************************************)
(* What a withdrawal promises, whatever channel carries it out: the amount *)
(* of an order leaves the user's available commission once, when the order *)
(* is made; it is then held, and ends either paid or returned, once.       *)
(* There is no provider, no worker, no retry and no frozen counter here;   *)
(* PiggyWithdraw implements this specification.                            *)
(***************************************************************************)
EXTENDS Integers

CONSTANTS Users, Orders, Owner, Amount,
          Records, Beneficiary, RecordAmount, TransferAmounts,
          Epsilon   \* tolerance of the comparisons

VARIABLES avail,  \* commission a user can withdraw or transfer
          phase,  \* none, held, paid or released
          record  \* commission records: none, settled, reversed

escrowVars == <<avail, phase, record>>

EscrowInit ==
    /\ avail = [u \in Users |-> 0]
    /\ phase = [o \in Orders |-> "none"]
    /\ record = [r \in Records |-> "none"]

Move(o, from, to) ==
    /\ phase[o] = from
    /\ phase' = [phase EXCEPT ![o] = to]
    /\ UNCHANGED record

Hold(o) ==
    /\ avail[Owner[o]] + Epsilon >= Amount[o]
    /\ avail' = [avail EXCEPT ![Owner[o]] = @ - Amount[o]]
    /\ Move(o, "none", "held")

Pay(o) == Move(o, "held", "paid") /\ UNCHANGED avail

Return(o) ==
    /\ avail' = [avail EXCEPT ![Owner[o]] = @ + Amount[o]]
    /\ Move(o, "held", "released")

Earn(r) ==
    /\ record[r] = "none"
    /\ record' = [record EXCEPT ![r] = "settled"]
    /\ avail' = [avail EXCEPT ![Beneficiary[r]] = @ + RecordAmount[r]]
    /\ UNCHANGED phase

(* The one step that may take more than is available.                      *)
ClawBack(r) ==
    /\ record[r] = "settled"
    /\ record' = [record EXCEPT ![r] = "reversed"]
    /\ avail' = [avail EXCEPT ![Beneficiary[r]] = @ - RecordAmount[r]]
    /\ UNCHANGED phase

Transfer(u, a) ==
    /\ avail[u] + Epsilon >= a
    /\ avail' = [avail EXCEPT ![u] = @ - a]
    /\ UNCHANGED <<phase, record>>

EscrowNext ==
    \/ \E o \in Orders : Hold(o) \/ Pay(o) \/ Return(o)
    \/ \E r \in Records : Earn(r) \/ ClawBack(r)
    \/ \E u \in Users, a \in TransferAmounts : Transfer(u, a)

EscrowSpec == EscrowInit /\ [][EscrowNext]_escrowVars
=============================================================================
