\* The reverse walk over three actions (the length of payment-transfer), with
\* operators retrying and resolving.
SPECIFICATION Spec
CONSTANTS
    wf1 = wf1 wf2 = wf2 r1 = r1 r2 = r2 api = api ctxA = ctxA ctxB = ctxB None = None
    Instances = {wf1}
    NumActions = 3
    CompensationMaxAttempts = 2
    Workers = {}
    Callers = {api}
    Owners = {r1}
    OwnerName <- NoOwner
    Contexts = {ctxA}
    Classes = {"business_rejected", "transient_failure"}
    MaxReplies = 2
    MaxRetries = 1
    MaxFaults = 1
INVARIANTS
    SagaShape ResultAppliedOnce ReverseOrder
PROPERTIES
    ImplementsSaga
CHECK_DEADLOCK FALSE
