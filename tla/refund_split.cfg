\* Refunds that are committed by half, on a subscription.
SPECIFICATION Spec
CONSTANTS
    Users = {u1}
    InitQuota <- MCInitQuota
    TransferAmounts = {}
    UnitsPerQuota = 2
    Epsilon = 1
    Requests = {r1, r2}
    Subs = {1}
    SubOwner <- MCSubOwner
    AmountTotal <- MCAmountTotal
    MaxPeriods = 1
    Owner <- MCOwner
    Tokens = {t1}
    TokenOf <- MCTokenOf
    Unlimited = {}
    InitToken <- MCInitToken
    TrustQuota = 2
    Kinds <- MCKinds
    Estimates = {0, 2}
    Prices = {0, 1, 3}
    MaxFaults = 1
    SplitRefund = TRUE
INVARIANTS RefundIdempotent
CHECK_DEADLOCK FALSE
