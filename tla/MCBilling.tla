------------------------------ MODULE MCBilling -----------------------------
(***************************************************************************)
(* Instances of BillingSession for TLC: requests of one user with one      *)
(* token and two subscriptions.                                            *)
(***************************************************************************)
EXTENDS BillingSession, TLC

Kind(p, playground, forced) == [pref |-> p, playground |-> playground, forced |-> forced]

MCKinds ==
    {Kind(p, FALSE, FALSE) : p \in Preferences} \cup
    {Kind("subscription_first", TRUE, FALSE), Kind("wallet_only", FALSE, TRUE)}

MCOwner == [r \in Requests |-> CHOOSE u \in Users : TRUE]
MCTokenOf == [r \in Requests |-> CHOOSE t \in Tokens : TRUE]
MCInitQuota == [u \in Users |-> 3]
MCInitToken == [t \in Tokens |-> 4]
MCSubOwner == [s \in Subs |-> CHOOSE u \in Users : TRUE]
MCAmountTotal == [s \in Subs |-> s + 1]

MCSymmetry == Permutations(Requests)
=============================================================================
