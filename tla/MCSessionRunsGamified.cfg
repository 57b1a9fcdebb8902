CONSTANTS
    s1 = s1
    s2 = s2
    w1 = w1
    w2 = w2
    v1 = v1
    NoSession = NoSession
    NoTerms = NoTerms
    Sessions <- MCSessions
    Workers <- MCWorkers
    Vendors <- MCVendors
    VendorOf <- MCVendorOf
    Drafts <- MCDrafts
    Thresholds <- MCThresholds
    MaxCalls = 2
    BatchSize = 2
    MaxFaults = 0
SYMMETRY MCSymmetry
SPECIFICATION PSpec
\* The calls are bounded, so a run stops when they have all returned.
CHECK_DEADLOCK FALSE
INVARIANT
    SuccessIsGamified
