SPECIFICATION FairSpec
CONSTANTS
    u1 = u1 u2 = u2 old1 = old1 old2 = old2 q1 = q1 q2 = q2
    None = None
    Units = {u1, u2}
    Seg <- MCSeg
    Customers = {old1, old2, q1, q2}
    InitBalance <- MCInitBalance
    RateNum = 1
    RateDen = 2
    Calls = {c1, c2, c3}
    Applicants = {q1, q2}
    Keyed = {q1}
    MaxTries = 2
    Runs = {r1, r2}
    Existing <- MCExisting
    FirstUnits = {u1}
    Budgets <- MCBudgets
INVARIANTS
    OpenedStays OpenedOwned SucceededComplete TotalsBounded MirrorExact
PROPERTIES
    JobSettles
CHECK_DEADLOCK FALSE
