SPECIFICATION Spec
CONSTANTS
    Ops = {"send"}
    Amounts = {1, 5}
    Deposits = {3}
    Fees = {1}
    Holdings <- MCHoldings
    MaxPlans = 6
    MaxFaults = 1
    Reinstalls = FALSE
CHECK_DEADLOCK FALSE
INVARIANT
    SuccessMeansPaid
