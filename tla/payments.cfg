\* Two top-up orders of any provider on one node, and of two providers on two
\* nodes; three VIP orders in two seconds; one wallet; one code; three check-in
\* pages; one withdrawal form.
SPECIFICATION PaymentsSpec
CONSTANTS
    Orders = {o1, o2}
    Nodes = {n1}
    Providers = {"stripe", "epay", "alipay", "wechat", "waffo", "pancake", "creem"}
    AdminChecks = TRUE
    Interim = FALSE
    Faults = TRUE
    None = None
    Activations = {v1, v2, v3}
    MaxTime = 2
    Manual = TRUE
    Users = {u1}
    InitQuota <- LegacyQuota
    TransferAmounts = {2, 3, 6}
    UnitsPerQuota = 2
    Epsilon = 1
    QuotaAmounts = {1, 2, 3}
    MaxQuota = 8
    MaxDust = 2
    Codes = {c1}
    Payees = {p1, p2}
    Quotas = {1, 2}
    DefaultQuota = 3
    MaxCalls = 3
    MaxTries = 2
    Cards = {k1, k2, k3}
    MaxDay = 2
    MaxFaults = 2
    NoUser = NoUser
    NoCode = NoCode
    Cooldown = 3
    Commission = 4
    MaxClock = 9
SYMMETRY Symmetry
INVARIANTS BooksAreSound OrdersTellBooks VipIsSound BalanceTracksQuota 
 
CHECK_DEADLOCK FALSE
