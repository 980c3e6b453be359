SPECIFICATION Spec
CONSTANTS
    a = a
    b = b
    i1 = i1
    i2 = i2
    k1 = k1
    s1 = s1
    Profiles = {a,b}
    PremiumProfiles = {b}
    InviteIds = {i1,i2}
    ClientKeys = {k1}
    Synopses = {s1}
    Axis <- MCAxis
    FreeQuota = 1
    DedupWindow = 1
    IdemTtl = 2
    Week = 2
    InviteTtl = 2
    MaxClock = 3
    Faults = {"crash","publish","billing"}
CHECK_DEADLOCK FALSE
SYMMETRY InviteSymmetry
INVARIANTS WithinQuota MatchIsMutual
PROPERTIES AnsweredOnce
