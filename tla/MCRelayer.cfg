SPECIFICATION RelayerSpec
CONSTANTS
    Submitters = {c1, c2, c3}
    Notes = {n1, n2}
    Costs = {70, 770, 1000}
    Bids = {740}
    NetCost = 700
    MarginBps = 2000
    MinMarginBps = 500
    QuoteBufferBps = 1000
    RatePPM = 1000000
    MaxRestarts = 1
SYMMETRY Symmetry
CHECK_DEADLOCK FALSE
INVARIANTS
    RelayerSafe
    QuoteHonoured
PROPERTIES
    OutlierSafe
