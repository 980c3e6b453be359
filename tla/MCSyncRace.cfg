SPECIFICATION SyncSpec
CONSTANTS
    s1 = s1
    r1 = r1
    h1 = h1
    h2 = h2
    StripeSubs = {s1}
    RcSubs = {r1}
    Subs = {s1,r1}
    Source <- MCSource
    Linked = {s1}
    Cancellers = {s1}
    PaidTiers = {"premium","pro"}
    Handlers = {h1,h2}
    NoHandler = NoHandler
    DunningTick = TRUE
    SessionOpens = TRUE
    MaxEvents = 4
    MaxClock = 1
    MaxFaults = 1
CHECK_DEADLOCK FALSE
CONSTRAINT OneSource
SYMMETRY HandlerSymmetry
INVARIANTS GrantsArePaidFor
PROPERTIES EffectsOncePerEvent
