----------------------------- MODULE VipActivation -----------------------------
(***************************************************************************)
(* Activation of the partner status (VVIP) of one user by a paid order or  *)
(* by an administrator, its disabling, reversal and repair                 *)
(* (service/vip_activation.go, ReverseVipActivationOrder of                *)
(* service/payment_reverse.go, model/vip_activation_record.go).            *)
(*                                                                         *)
(* The operations on an existing order lock its row and are one step.  A   *)
(* new order, and a manual activation, look at the user without a lock and *)
(* insert later.  Time is in seconds, so steps may share one.  Amounts,    *)
(* payloads, the default discount and logs are left out.                   *)
(***************************************************************************)
EXTENDS Naturals

CONSTANTS Activations, MaxTime, Manual

ASSUME VipAssumption == MaxTime \in Nat /\ Manual \in BOOLEAN

VARIABLES
    vipStatus,      \* "none", "asked" or "manual" before the insertion, then the row's
    byHand,         \* orders of a manual activation
    created, disabledAt,
    vipFlows,       \* wallet flows of the order: "paid" and "reverse"
    vipCommission,  \* of the inviter: "none", "settled" or "reversed"
    profile,        \* the user's snapshot: "none", "active" or "disabled"
    clock,
    revoked         \* history: orders that existed when an administrator disabled

vipVars == <<vipStatus, byHand, created, disabledAt, vipFlows, vipCommission, profile, clock, revoked>>
books == <<vipFlows, vipCommission>>

Rows == {o \in Activations : vipStatus[o] \notin {"none", "asked", "manual"}}
IsUserActiveVvip == \E o \in Activations : vipStatus[o] = "success"

(* CreateVipActivationOrder: the check, and the row.                       *)
CheckInactive(o) ==
    /\ vipStatus[o] = "none" /\ ~IsUserActiveVvip
    /\ vipStatus' = [vipStatus EXCEPT ![o] = "asked"]
    /\ UNCHANGED <<byHand, created, disabledAt, books, profile, clock, revoked>>

CreateVipActivationOrder(o) ==
    /\ vipStatus[o] = "asked"
    /\ vipStatus' = [vipStatus EXCEPT ![o] = "pending"]
    /\ created' = [created EXCEPT ![o] = clock]
    /\ UNCHANGED <<byHand, disabledAt, books, profile, clock, revoked>>

(* AdminManualActivateVvip: never a partner before; then the row and the   *)
(* profile, without flow or commission.                                    *)
CheckNeverVvip(o) ==
    /\ Manual /\ vipStatus[o] = "none"
    /\ profile = "none" /\ ~IsUserActiveVvip
    /\ vipStatus' = [vipStatus EXCEPT ![o] = "manual"]
    /\ UNCHANGED <<byHand, created, disabledAt, books, profile, clock, revoked>>

AdminManualActivateVvip(o) ==
    /\ vipStatus[o] = "manual"
    /\ vipStatus' = [vipStatus EXCEPT ![o] = "success"]
    /\ byHand' = byHand \cup {o}
    /\ created' = [created EXCEPT ![o] = clock]
    /\ profile' = "active"
    /\ UNCHANGED <<disabledAt, books, clock, revoked>>

(* The flow is written once, by its key; so is the commission, when the    *)
(* inviter earns one (nobody may have invited the user yet).               *)
applyVipActivationSuccessEffects(o) ==
    /\ vipStatus' = [vipStatus EXCEPT ![o] = "success"]
    /\ profile' = "active"
    /\ vipFlows' = [vipFlows EXCEPT ![o] = @ \cup {"paid"}]
    /\ \E c \in IF vipCommission[o] = "none" THEN {"none", "settled"} ELSE {vipCommission[o]} :
          vipCommission' = [vipCommission EXCEPT ![o] = c]

hasVipActivationDisabledAfterOrder(o) ==
    \E p \in Activations : vipStatus[p] = "disabled" /\ disabledAt[p] > created[o]

(* No other notice changes anything.                                       *)
CompleteVipActivationOrder(o) ==
    /\ o \notin byHand
    /\ \/ /\ \/ vipStatus[o] = "success"
             \/ vipStatus[o] = "pending" /\ ~hasVipActivationDisabledAfterOrder(o)
          /\ applyVipActivationSuccessEffects(o)
       \/ /\ vipStatus[o] = "pending" /\ hasVipActivationDisabledAfterOrder(o)
          /\ vipStatus' = [vipStatus EXCEPT ![o] = "failed"]
          /\ UNCHANGED <<books, profile>>
    /\ UNCHANGED <<byHand, created, disabledAt, clock, revoked>>

FailVipActivationOrder(o) ==
    /\ vipStatus[o] = "pending"
    /\ vipStatus' = [vipStatus EXCEPT ![o] = "failed"]
    /\ UNCHANGED <<byHand, created, disabledAt, books, profile, clock, revoked>>

(* The provider may be left out, so a manual order can be named too.       *)
RepairVipActivationSettlement(o) ==
    /\ vipStatus[o] = "success"
    /\ applyVipActivationSuccessEffects(o)
    /\ UNCHANGED <<byHand, created, disabledAt, clock, revoked>>

(* Fault: pending orders stay.                                             *)
DisableSuccessOnly ==
    /\ IsUserActiveVvip
    /\ vipStatus' = [o \in Activations |-> IF vipStatus[o] = "success" THEN "disabled" ELSE vipStatus[o]]
    /\ disabledAt' = [o \in Activations |-> IF vipStatus[o] = "success" THEN clock ELSE disabledAt[o]]
    /\ profile' = "disabled"
    /\ revoked' = revoked \cup Rows
    /\ UNCHANGED <<byHand, created, books, clock>>

(* Every standing order is disabled, every pending one fails.              *)
DisableVipActivation ==
    /\ IsUserActiveVvip
    /\ vipStatus' = [o \in Activations |->
          CASE vipStatus[o] = "success" -> "disabled" [] vipStatus[o] = "pending" -> "failed"
            [] OTHER -> vipStatus[o]]
    /\ disabledAt' = [o \in Activations |-> IF vipStatus[o] = "success" THEN clock ELSE disabledAt[o]]
    /\ profile' = "disabled"
    /\ revoked' = revoked \cup Rows
    /\ UNCHANGED <<byHand, created, books, clock>>

(* A disabled order only gets its flow and loses its commission.           *)
ReverseVipActivationOrder(o) ==
    /\ vipStatus[o] \in {"success", "disabled"}
    /\ \/ /\ vipStatus[o] = "success"
          /\ vipStatus' = [vipStatus EXCEPT ![o] = "disabled"]
          /\ disabledAt' = [disabledAt EXCEPT ![o] = clock]
          /\ profile' = "disabled"
       \/ vipStatus[o] = "disabled" /\ UNCHANGED <<vipStatus, disabledAt, profile>>
    /\ vipFlows' = [vipFlows EXCEPT ![o] = @ \cup {"reverse"}]
    /\ vipCommission' = [vipCommission EXCEPT ![o] = IF @ = "settled" THEN "reversed" ELSE @]
    /\ UNCHANGED <<byHand, created, clock, revoked>>

Tick ==
    /\ clock < MaxTime /\ clock' = clock + 1
    /\ UNCHANGED <<vipStatus, byHand, created, disabledAt, books, profile, revoked>>

VipInit ==
    /\ vipStatus = [o \in Activations |-> "none"] /\ byHand = {}
    /\ created = [o \in Activations |-> 0] /\ disabledAt = [o \in Activations |-> 0]
    /\ vipFlows = [o \in Activations |-> {}] /\ vipCommission = [o \in Activations |-> "none"]
    /\ profile = "none" /\ clock = 0 /\ revoked = {}

VipNext ==
    \/ \E o \in Activations :
          \/ CheckInactive(o) \/ CreateVipActivationOrder(o)
          \/ CheckNeverVvip(o) \/ AdminManualActivateVvip(o)
          \/ CompleteVipActivationOrder(o) \/ FailVipActivationOrder(o)
          \/ RepairVipActivationSettlement(o) \/ ReverseVipActivationOrder(o)
    \/ DisableVipActivation
    \/ Tick

VipSpec == VipInit /\ [][VipNext]_vipVars

(***************************************************************************)
(* Properties                                                              *)
(***************************************************************************)

VipTypeOK ==
    /\ vipStatus \in [Activations -> {"none", "asked", "manual", "pending", "success", "failed", "disabled"}]
    /\ byHand \subseteq Activations /\ revoked \subseteq Activations
    /\ created \in [Activations -> Nat] /\ disabledAt \in [Activations -> Nat] /\ clock \in Nat
    /\ vipFlows \in [Activations -> SUBSET {"paid", "reverse"}]
    /\ vipCommission \in [Activations -> {"none", "settled", "reversed"}]
    /\ profile \in {"none", "active", "disabled"}

(* No order that was there when an administrator disabled the user makes   *)
(* him a partner again, whatever notices and repairs follow.               *)
NoRevival == \A o \in revoked : vipStatus[o] # "success"

(* The profile shows a partner only while one of his orders stands.        *)
ActiveHasOrder == profile = "active" => IsUserActiveVvip

(* A reversed order leaves its inviter no commission.                      *)
ReversedEarnsNothing ==
    \A o \in Activations : "reverse" \in vipFlows[o] => vipStatus[o] = "disabled" /\ vipCommission[o] # "settled"

(* What a disabling and a reversal are for: orders, profile and commission *)
(* never come back from either.                                            *)
VipIsSound == NoRevival /\ ActiveHasOrder /\ ReversedEarnsNothing

(* The profile shows a partner whenever one of his orders stands.  It does *)
(* not hold: the reversal of one of two orders disables the profile.       *)
OrderIsActive == IsUserActiveVvip => profile = "active"

(* A manual activation has neither flow nor commission.  It does not hold: *)
(* RepairVipActivationSettlement may name its order.                       *)
ManualIsFree == \A o \in byHand : vipFlows[o] = {} /\ vipCommission[o] = "none"
================================================================================
