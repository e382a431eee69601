------------------------------ MODULE MCWithdraw ----------------------------
(***************************************************************************)
(* Instances of PiggyWithdraw for TLC.  The functions on orders and records*)
(* are tables here, because a .cfg file cannot write them.                 *)
(***************************************************************************)
EXTENDS PiggyWithdraw, TLC

CONSTANTS u1, m1, p1, p2, r1, r2, w1, w2

MCOwner == [o \in Orders |-> u1]
MCAmount == [o \in Orders |-> IF o = m1 THEN 1 ELSE 2]
MCProvider == [o \in Orders |-> IF o = m1 THEN "manual" ELSE "piggy"]
MCBeneficiary == [r \in Records |-> u1]
MCRecordAmount == [r \in Records |-> IF r = r1 THEN 2 ELSE 1]
MCInitQuota == [u \in Users |-> 4]
MCNoQuota == [u \in Users |-> 0]

WorkerSymmetry == Permutations(Workers)
=============================================================================
