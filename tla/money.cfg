\* The money: a manual and a piggy order of one user compete for his commission.
SPECIFICATION Spec
CONSTANTS
    u1 = u1  m1 = m1  p1 = p1  p2 = p2  r1 = r1  r2 = r2  w1 = w1  w2 = w2
    Users = {u1}
    Orders = {m1, p1}
    Records = {r1, r2}
    Workers = {w1}
    NoOrder = NoOrder
    Owner <- MCOwner
    Amount <- MCAmount
    Provider <- MCProvider
    Beneficiary <- MCBeneficiary
    RecordAmount <- MCRecordAmount
    TransferAmounts = {2}
    InitQuota <- MCInitQuota
    UnitsPerQuota = 2
    Epsilon = 1
    QiniuLifecycle = TRUE
    Noise = {"other", "untyped", "empty", "invalid", "err"}
    Pretax = {"ok", "bad"}
    Timely = FALSE
    MaxFaults = 1
INVARIANTS FrozenBacked WithdrawnIsPaid CommissionConserved FlowsMatchOrders
PROPERTIES TerminalIsFinal ImplementsEscrow
CHECK_DEADLOCK FALSE
