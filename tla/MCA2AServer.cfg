CONSTANTS
    m1 = m1
    m2 = m2
    c1 = c1
    r1 = r1
    r2 = r2
    h1 = h1
    h2 = h2
    e1 = e1
    e2 = e2
    star = star
    q1 = q1
    u1 = u1
    u2 = u2
    n1 = n1
    n2 = n2
    NoMandate = NoMandate
    NoHookId = NoHookId
    NoUrl = NoUrl
    Mandates = {m1, m2}
    Clients = {c1}
    FileKeys = {}
    Authenticated = TRUE
    Requests = {r1, r2}
    Rate = 2
    Window = 2
    Lifetime <- MCLifetime
    MaxTime = 4
    MaxAdmitted = 5
    Hooks = {h1, h2}
    Up = {h1}
    Events = {e1, e2}
    Star = star
    Dispatches = {q1}
    Backoffs = 3
    Urls = {u1, u2}
    Senders = {n1, n2}
    MaxNotices = 2
SYMMETRY MCSymmetry
SPECIFICATION MCSpec
INVARIANTS
    MCTypeOK
    BurstIsBounded
    OneWinner
    DeliveryIsHonest
PROPERTIES
    DecidedOnce
    DispatchReturns
