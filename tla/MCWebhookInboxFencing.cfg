SPECIFICATION Spec
CONSTANTS
    e1 = e1
    e2 = e2
    b1 = b1
    b2 = b2
    w1 = w1
    w2 = w2
    w3 = w3
    None = None
    Event = {e1}
    Body = {b1, b2}
    Worker = {w1, w2, w3}
    Normalizable = {b1, b2}
    ProviderTime <- MCProviderTime
    Lease = 1
    BatchLimit = 1
    Bound <- FencingBound
SYMMETRY Symmetry
INVARIANTS
    TypeOK
    OneOwner
    OwnerHoldsClaim
    StaleOnlyAfterLease
    ProcessedIsProjected
    GraphIsCanonical
PROPERTIES
    RowsAreDurable
    ImplementsLeasedWork
CHECK_DEADLOCK FALSE
