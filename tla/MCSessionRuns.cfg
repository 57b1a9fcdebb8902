CONSTANTS
    s1 = s1
    s2 = s2
    w1 = w1
    w2 = w2
    v1 = v1
    NoSession = NoSession
    NoTerms = NoTerms
    Sessions <- MCSessions
    Workers <- MCWorkers
    Vendors <- MCVendors
    VendorOf <- MCVendorOf
    Drafts <- MCDrafts
    Thresholds <- MCThresholds
    MaxCalls = 3
    BatchSize = 2
    MaxFaults = 1
SYMMETRY MCSymmetry
SPECIFICATION MCSpec
\* The calls are bounded, so a run stops when they have all returned.
CHECK_DEADLOCK FALSE
INVARIANTS
    TypeOK
    RowOfOneRun
    DealIsBacked
    RoundsHaveNoGap
    ExactWhenUndisturbed
    ReputationIsPlausible
    WinnerIsCheapest
    AnswerIsOnRecord
PROPERTY
    CompletedIsFinal
