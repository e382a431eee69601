\* A Suno task that failed, with one step that fails or a crash.
SPECIFICATION MeteringSpec
CONSTANTS
    Online = online
    Repairers = {r1, r2}
    Pre = 3
    Actual = 2
    IsTask = FALSE
    LogConsumeEnabled = TRUE
    Overlap = TRUE
    SettleFaults = {"funding", "token"}
    MaxFaults = 2
    video = video
    qiniu = qiniu
    Videos = {video, qiniu}
    Qinius = {qiniu}
    Legacies = {}
    PerCalls = {}
    Estimates <- PollEstimates
    Prices <- PollPrices
    Finals = {1, 3}
    TaskFaults = 2
    Loops = {l1, l2}
    Payers = {p1, p2, p3}
    RowTotal = 3
    RowAmounts = {1, 2}
    RowPeriods = 1
SYMMETRY Symmetry
INVARIANT SunoRefundsOnce
CHECK_DEADLOCK FALSE
