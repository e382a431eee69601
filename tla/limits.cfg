\* Every limiter, each in its configurations.
SPECIFICATION LimitsSpec
CONSTANTS
    maxRequestNum = 3
    duration = 4
    expirationDuration = 4
    MaxTime = 12
    MaxAdmitted = 9
    Requests = {r1, r2, r3, r4}
    Handlers = {h1, h2, h3}
    Handler = h1
    Limit = 2
    TotalLimit = 2
    Window = 3
    KeyLife = 3
    MaxInFlight = 3
    MaxFaults = 1
    BusyTime = 6
    BusyAdmitted = 5
SYMMETRY Symmetry
INVARIANTS LimitIsExact LimitsHold
 
CHECK_DEADLOCK FALSE
