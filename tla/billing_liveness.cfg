\* Refunds happen: two concurrent requests of one user.
SPECIFICATION LiveSpec
CONSTANTS
    Users = {u1}
    InitQuota <- MCInitQuota
    TransferAmounts = {}
    UnitsPerQuota = 2
    Epsilon = 1
    Requests = {r1, r2}
    Subs = {1}
    SubOwner <- MCSubOwner
    AmountTotal <- MCAmountTotal
    MaxPeriods = 1
    Owner <- MCOwner
    Tokens = {t1}
    TokenOf <- MCTokenOf
    Unlimited = {}
    InitToken <- MCInitToken
    TrustQuota = 2
    Kinds <- MCKinds
    Estimates = {2}
    Prices = {0, 3}
    MaxFaults = 1
    SplitRefund = TRUE
PROPERTIES FailureCostsNothing
CHECK_DEADLOCK FALSE
