CONSTANTS
    l1 = l1
    o1 = o1
    o2 = o2
    a1 = a1
    a2 = a2
    i1 = i1
    b1 = b1
    b2 = b2
    h1 = h1
    h2 = h2
    c1 = c1
    g1 = g1
    g2 = g2
    s1 = s1
    s2 = s2
    f1 = f1
    f2 = f2
    k1 = k1
    k2 = k2
    r1 = r1
    r2 = r2
    d1 = d1
    d2 = d2
    x1 = x1
    x2 = x2
    sh1 = sh1
    cat = cat
    gr1 = gr1
    y1 = y1
    y2 = y2
    v1 = v1
    v2 = v2
    p1 = p1
    p2 = p2
    t1 = t1
    w1 = w1
    w2 = w2
    z1 = z1
    z2 = z2
    q1 = q1
    q2 = q2
    n1 = n1
    e1 = e1
    e2 = e2
    u1 = u1
    u2 = u2
    NoFirm = NoFirm
    NoListing = NoListing
    NoOffer = NoOffer
    NoItem = NoItem
    NoBid = NoBid
    NoContract = NoContract
    NoBreach = NoBreach
    NoRequest = NoRequest
    NoKey = NoKey
    NoFan = NoFan
    NoSeller = NoSeller
    Desks = {"claims"}
    Listings = {l1}
    Offers = {o1, o2}
    Agents = {a1, a2}
    MaxFailures = 2
    SaleTerms <- MCSaleTerms
    OfferTerms <- MCOfferTerms
    Items = {i1}
    Bids = {b1, b2}
    Hands = {h1, h2}
    ItemTerms <- MCItemTerms
    Amounts <- MCAmounts
    Contracts = {c1}
    ContractTerms <- MCContractTerms
    Quotes <- MCQuotes
    Instants <- MCInstants
    Hosts = {g1, g2}
    MaxTriggers = 3
    Slas = {s1, s2}
    Breaches = {f1, f2}
    SlaTerms <- MCSlaTerms
    Durations <- MCDurations
    Months = {6, 7}
    Clerks = {k1, k2}
    Requests = {r1, r2}
    Deciders = {d1, d2}
    Raters = {x1, x2}
    Stars = {1, 5}
    Categories = {cat}
    MaxPublished = 2
    MaxRatings = 3
    Shared = {sh1}
    MaxImports = 2
    Groups = {gr1}
    Quantities = {10, 60}
    GroupPrices <- MCGroupPrices
    MaxMembers = 5
    MaxOffers = 2
    Buyers = {y1, y2}
    Vendors = {v1, v2}
    Skus = {p1, p2, t1}
    Files <- MCFiles
    Imports <- MCImports
    Callers = {w1, w2}
    MaxStarts = 2
    MaxCalls = 2
    Runs = {z1, z2}
    Lines <- MCLines
    Priced = {"Slack"}
    Operators = {q1, q2}
    Addresses = {n1}
    Settings = {e1, e2}
    Values = {1, 2}
    MaxKeys = 3
    MaxChanges = 3
    MaxRestarts = 1
    Firms = {v1}
    SignalTypes = {"ipo", "rumour"}
    Weights <- MCWeights
    Analysts = {u1, u2}
    MaxSignals = 2
    Fans = {"anonymous", "veteran"}
    Players = {u1, u2}
    Gains = {400}
    Earlier <- MCEarlier
    MaxGames = 3
    Sellers = {v1, v2}
    Tactics = {"balanced", "aggressive"}
    Percents = {8, 12}
    Past <- MCPast
    Scholars = {"reader"}
    MaxLessons = 2
SYMMETRY MCSymmetry
SPECIFICATION MCSpec
\* Everything may have been sold, decided, answered and run.
CHECK_DEADLOCK FALSE
INVARIANT
    TotalIsCorrect
