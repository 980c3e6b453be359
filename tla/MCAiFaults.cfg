SPECIFICATION AiSpec
CONSTANTS
    Users         = {u1}
    ReserveKeys   = {i1}
    PurchaseKeys  = {k1}
    GrantKeys     = {}
    AdminKeys     = {}
    Amounts       = {3}
    Adjustments   = {}
    NoUser        = NoUser
    Commands      = {"palette", "mockup"}
    Predictions   = {p1, p2}
    Handlers      = {h1, h2}
    Attempts      = 2
    MaxDeliveries = 2
    Faults        = {"5xx", "lost", "unreachable", "crash"}
    Cost          <- MCCost
SYMMETRY HandlerSymmetry
CHECK_DEADLOCK FALSE
INVARIANTS ChargedHasResult TextNeverMisbilled
