\* Two keys and two requests for one cart that may change, one fault.
SPECIFICATION FairCheckoutSpec
CONSTANTS
    k1 = k1 k2 = k2 q1 = q1 q2 = q2
    None = None
    Keys = {k1, k2}
    Requests = {q1, q2}
    MaxVersion = 2
    MaxCheckoutFaults = 1
INVARIANTS
    OneOrder
PROPERTIES
    KeyDecided
CHECK_DEADLOCK FALSE
