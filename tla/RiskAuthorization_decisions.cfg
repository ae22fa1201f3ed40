\* A payment whose commands are repeated and handled by two replicas.
SPECIFICATION FairRiskSpec
CONSTANTS
    p1 = p1 p2 = p2 c1 = c1 c2 = c2 r1 = r1 NoMessage = NoMessage
    Workflows = {p1, p2}
    Amount <- Amounts
    SmokeRejected = {p2}
    Consumers = {c1, c2}
    Relays = {r1}
    Contexts <- Snapshots
    MaxCommands = 3
    MaxFaults = 1
INVARIANTS
    OneDecision SagaBacked
PROPERTIES
    SagaAnswered
CHECK_DEADLOCK FALSE
