SPECIFICATION FairSyncSpec
CONSTANTS
    s1 = s1
    r1 = r1
    h1 = h1
    StripeSubs = {s1}
    RcSubs = {r1}
    Subs = {s1,r1}
    Source <- MCSource
    Linked = {s1}
    Cancellers = {}
    PaidTiers = {"premium","pro"}
    Handlers = {h1}
    NoHandler = NoHandler
    DunningTick = FALSE
    SessionOpens = FALSE
    MaxEvents = 3
    MaxClock = 1
    MaxFaults = 1
CHECK_DEADLOCK FALSE
PROPERTIES EventsEventuallyAccepted
