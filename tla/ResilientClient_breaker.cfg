\* Three goroutines: two of an earlier period and a probe, or three probes.
SPECIFICATION FairClientSpec
CONSTANTS
    g1 = g1 g2 = g2 g3 = g3
    Callers = {g1, g2, g3}
    FailureThreshold = 2
    MaxAttempts = 2
INVARIANTS
    ProbeHeld
PROPERTIES
    Recovers
