\* One transfer, one local transfer at either end, one fault, any timeout.
SPECIFICATION FairSpec
CONSTANTS
    t1 = t1 a1 = a1 a2 = a2 b1 = b1 b2 = b2
    None = None
    Txs = {t1}
    Accounts = {a1, a2, b1, b2}
    NumSteps = 2
    Plan <- MCPlan
    Initial <- MCInitial
    Unopened = {b1}
    LocalPairs <- MCLocalPairs
    MaxAttempts = 1
    MaxLocal = 2
    MaxFaults = 1
INVARIANTS
    NothingInvented CommittedStands CompensatedInTime
PROPERTIES
    FinalStays Settles
CHECK_DEADLOCK FALSE
