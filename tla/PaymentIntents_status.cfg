\* One payment, two replicas, reverse requests and one crash.
SPECIFICATION FairSpec
CONSTANTS
    k1 = k1 t1 = t1 v1 = v1 v2 = v2 q1 = q1 q2 = q2 p1 = p1 p2 = p2
    None = None
    Keys = {k1}
    Transfers = {t1}
    Members = {t1}
    Reversals = {v1}
    TransferSteps = 2
    Requests = {q1}
    Replicas = {p1, p2}
    MaxCommands = 3
    MaxFaults = 1
    MaxDbErrors = 1
INVARIANTS
    IntentTruthful
PROPERTIES
    OutcomeReported
CHECK_DEADLOCK FALSE
