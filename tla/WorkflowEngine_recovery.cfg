\* Two replicas with the default owner name, two crashes, failed steps or lost commands.
SPECIFICATION FairSpec
CONSTANTS
    wf1 = wf1 wf2 = wf2 r1 = r1 r2 = r2 api = api ctxA = ctxA ctxB = ctxB None = None
    Instances = {wf1}
    NumActions = 1
    CompensationMaxAttempts = 1
    Workers = {r1, r2}
    Callers = {api}
    Owners = {"payment-1"}
    OwnerName <- DefaultOwner
    Contexts = {ctxA, ctxB}
    Classes = {"business_rejected"}
    MaxReplies = 1
    MaxRetries = 0
    MaxFaults = 2
INVARIANTS
    OneForwardCommand
PROPERTIES
    TerminalStable LeaseReleasedByHolder
    ForwardProgress
CHECK_DEADLOCK FALSE
