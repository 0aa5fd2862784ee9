SPECIFICATION FairSpec
CONSTANTS
    e1 = e1
    e2 = e2
    b1 = b1
    b2 = b2
    w1 = w1
    w2 = w2
    w3 = w3
    None = None
    Event = {e1, e2}
    Body = {b2}
    Worker = {w1, w2}
    Normalizable = {b2}
    ProviderTime <- MCProviderTime
    Lease = 1
    BatchLimit = 2
    Bound <- BatchBound
PROPERTIES
    Settles
CHECK_DEADLOCK FALSE
