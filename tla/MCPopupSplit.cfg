SPECIFICATION PopupPartsSpec
CONSTANTS
    u1 = u1
    u2 = u2
    Users = {u1, u2}
    Unknown = Unknown
    MaxCommands = 1
    MaxFunds = 1
    Holders = {u1, u2}
    MaxAmount = 2
    MaxOpenings = 2
    MaxLoops = 2
    MaxHandovers = 1
    a1 = a1
    a2 = a2
    Derived <- MCDerived
    Phrase = Phrase
    Secret = Secret
    Nobody = Nobody
    MaxActs = 2
    Requests = {}
    Signers = {u1, u2}
    n1 = n1
    Chains = {n1, n2}
    FirstChain = n1
    Nothing = Nothing
    MaxMoves = 0
    MaxPresses = 0
CHECK_DEADLOCK FALSE
INVARIANT OneLoop
