\* Two relays with batches of two, two events, three faults.
SPECIFICATION FairSpec
CONSTANTS
    r1 = r1 r2 = r2
    None = None
    NumEvents = 2
    Relays = {r1, r2}
    BatchSize = 2
    MaxFaults = 3
INVARIANTS
    PublishedRouted OncePerClaim
PROPERTIES
    ImplementsAtLeastOnce
CHECK_DEADLOCK FALSE
