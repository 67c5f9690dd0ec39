SPECIFICATION ExtensionSpec
CONSTANTS
    c1 = c1
    c2 = c2
    c3 = c3
    p1 = p1
    p2 = p2
    h1 = h1
    h2 = h2
    s1 = s1
    Calls = {c1, c2, c3}
    Passwords = {p1, p2}
    HDs = {h1, h2}
    SKs = {s1}
    MaxIndex = 1
    Primary = Primary
    Nil = Nil
    Plans <- MCPlans
    Windows = {w1, w2}
    MAX_ATTEMPTS = 3
    LOCKOUT = 2
    MaxTries = 6
    MaxTime = 5
    MaxDeaths = 1
    Edits = {e1, e2, e3}
    Defaults = {n1, n2}
    Customs = {k1, k2}
    FirstNetwork = n1
    NoNetwork = NoNetwork
    MaxCounter = 2
    MaxAttempts = 2
    Validity = 1
    Margin = 1
    Lag = 0
    Fresh = 0
    MaxReclaims = 0
    MaxFaults = 1
    Reinstalls = FALSE
    o1 = o1
    o2 = o2
    Owners = {o1, o2}
    Forms <- MCForms
    Native <- MCNative
    PrivateForms <- MCForms
    Refused <- MCRefused
    Blank = Blank
    Nothing = Nothing
    Earlier <- MCEarlier
    MaxSends = 1
    MaxAway = 1
    t1 = t1
    t2 = t2
    Trades = {t1, t2}
    NativeFrom <- MCNativeFrom
    NoTrade = NoTrade
    NoQuote = NoQuote
    Slippages = {0, 1}
    Prices = {1, 2}
    MaxQuotes = 3
    MaxSwaps = 1
    MaxMoves = 1
    MaxGestures = 6
    Phrases = {m1, m2, m3}
    Passcodes = {w1}
    Absent = Absent
    Budgets <- MCBudgets
CHECK_DEADLOCK FALSE
INVARIANTS
    AccountsInv
    EveryGuessCounts
    NetworksInv
    PaymentsInv
    DeliveredIsPaid
    SendInv
    SwapInv
    PaletteInv
    OnboardingInv
PROPERTIES
    OnboardingStays
    NothingIsLost
