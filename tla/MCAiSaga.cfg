SPECIFICATION AiFairSpec
CONSTANTS
    Users         = {u1}
    ReserveKeys   = {i1, i2}
    PurchaseKeys  = {k1}
    GrantKeys     = {}
    AdminKeys     = {}
    Amounts       = {4}
    Adjustments   = {}
    NoUser        = NoUser
    Commands      = {"summarize-chat", "brainstorm", "palette", "mockup"}
    Predictions   = {p1, p2}
    Handlers      = {h1, h2}
    Attempts      = 2
    MaxDeliveries = 1
    Faults        = {}
    Cost          <- MCCost
CHECK_DEADLOCK FALSE
INVARIANTS VerdictMatchesLedger
PROPERTIES TextCommandsSettle
