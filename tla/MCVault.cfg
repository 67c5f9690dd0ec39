SPECIFICATION VaultOrTreeSpec
CONSTANTS
    u1 = u1
    u2 = u2
    d1 = d1
    d2 = d2
    d3 = d3
    d4 = d4
    Users = {u1, u2}
    Supply = 1
    Dummies = {d1, d2, d3, d4}
    Capacity = 6
    RootHistory = 3
    MaxNote = 3
    FieldP = 11
    NoteAmounts = {0, 1, 10}
    ExtAmounts <- MCExtAmounts
    Fees <- MCFees
    MaxDeposits = {0, 1}
    TvlCaps = {1, 2}
    DEPTH = 3
    ROOT_HISTORY = 4
    Commitments = {a, b}
    WINDOW = 2
    Span = 3
    SCAN_BACK = 2
    PageSize = 3
    NodeLag = 1
    Kept = 3
    Ledgers = 5
SYMMETRY MCSymmetry
CHECK_DEADLOCK FALSE
INVARIANTS
    VaultSafe
    Backed
    Exitable
    TreeSound
PROPERTIES
    ImplementsLedger
