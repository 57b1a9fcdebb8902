CONSTANTS
    v1 = v1
    v2 = v2
    p1 = p1
    p2 = p2
    p3 = p3
    e1 = e1
    e2 = e2
    c1 = c1
    c2 = c2
    w1 = w1
    w2 = w2
    dp1 = dp1
    dp2 = dp2
    NoVendor = NoVendor
    Vendors = {v1, v2}
    Terms <- MCTerms
    Instants <- MCInstants
    Epoch = 0
    MaxDeals = 2
    MaxSessions = 1
    Months = {31, 32}
    Amounts = {95}
    Departments = {dp1, dp2}
    Percents = {25, 75}
    Periods = {"monthly", "quarterly", "yearly", "weekly"}
    Clerks = {c1, c2}
    MaxRolled = 15
    Period = 60
    HistoryLimit = 1
    MaxExports = 1
    Products = {p1, p2, p3}
    Sellers = {e1, e2}
    SellerOf <- MCSellerOf
    SeedFiles <- MCSeedFiles
    ListPrices = {518, 1000}
    Thresholds = {6}
    Watchers = {w1, w2}
    Variations <- MCVariations
    LastDay = 1
    MaxSnapshots = 2
SYMMETRY MCSymmetry
SPECIFICATION MCSpec
\* Every call may have been made.
CHECK_DEADLOCK FALSE
INVARIANT
    WinsAreCounted
