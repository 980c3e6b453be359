SPECIFICATION FairSpec
CONSTANTS
    Users        = {u1}
    ReserveKeys  = {r1, r2}
    PurchaseKeys = {p1}
    GrantKeys    = {g1}
    AdminKeys    = {a1}
    Amounts      = {1}
    Adjustments  <- MCAdjustments
    NoUser       = NoUser
    NoSession    = NoSession
    NoKey        = NoKey
    Sessions     = {s1, s2}
INVARIANTS TypeOK SeenIsCurrent NoOverspend ReleaseCompensated
PROPERTIES LedgerSpec BalanceMovesWithLedger SettledForever RequestsFinish
