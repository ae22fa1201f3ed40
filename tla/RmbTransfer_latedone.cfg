\* One transfer, no fault, any timeout.
SPECIFICATION Spec
CONSTANTS
    t1 = t1 a1 = a1 a2 = a2 b1 = b1 b2 = b2
    None = None
    Txs = {t1}
    Accounts = {a1, a2, b1, b2}
    NumSteps = 2
    Plan <- MCPlan
    Initial <- MCInitial
    Unopened = {b1}
    LocalPairs <- MCLocalPairs
    MaxAttempts = 1
    MaxLocal = 1
    MaxFaults = 0
INVARIANTS
    LateDoneReversed
CHECK_DEADLOCK FALSE
