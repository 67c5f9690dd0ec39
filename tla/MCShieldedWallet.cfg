SPECIFICATION WalletSpec
CONSTANTS
    Ops = {"send"}
    Amounts = {1, 6}
    Deposits = {3}
    Fees = {1, 2}
    Holdings <- MCHoldings
    MaxPlans = 5
    MaxFaults = 1
    Reinstalls = TRUE
    Proofs = {r1, r2, r3}
    ProofKinds = {"reveal", "spend", "scan"}
    Nets = {mainnet, testnet}
    MaxMishaps = 1
    MaxStops = 1
    None = None
CHECK_DEADLOCK FALSE
INVARIANTS
    WalletInv
    SplitPaysAll
    ChangeKept
    ProverSafe
PROPERTIES
    EveryWaitEnds
