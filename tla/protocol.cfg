\* The piggy protocol: one order, two concurrent workers, one fault.
SPECIFICATION Spec
CONSTANTS
    u1 = u1  m1 = m1  p1 = p1  p2 = p2  r1 = r1  r2 = r2  w1 = w1  w2 = w2
    Users = {u1}
    Orders = {p1}
    Records = {r1}
    Workers = {w1, w2}
    NoOrder = NoOrder
    Owner <- MCOwner
    Amount <- MCAmount
    Provider <- MCProvider
    Beneficiary <- MCBeneficiary
    RecordAmount <- MCRecordAmount
    TransferAmounts = {}
    InitQuota <- MCNoQuota
    UnitsPerQuota = 2
    Epsilon = 1
    QiniuLifecycle = TRUE
    Noise = {"other", "err"}
    Pretax = {"ok"}
    Timely = FALSE
    MaxFaults = 1
SYMMETRY WorkerSymmetry
INVARIANTS TypeOK NoPayoutAfterRelease PaidMeansPaid NoPaymentBeforeClaim NoOrderOutsideScan
CHECK_DEADLOCK FALSE
