SPECIFICATION Spec
CONSTANTS
    None = None
    p1 = p1
    p2 = p2
    c1 = c1
    c2 = c2
    t1 = t1
    t2 = t2
    t3 = t3
    Areas = {"meeting","tasks","board","exports","mockups"}
    Slots = {c1,c2}
    MaxRequests = 4
    Profiles = {p1,p2}
    Parties = {p1,p2}
    Starts = {1}
    Durations = {1}
    MaxMeetings = 1
    MaxDispatches = 2
    MaxBots = 2
    MaxHooks = 2
    MaxCrashes = 1
    MaxClock = 1
    Codes = {"done","fatal"}
    TaskKeys = {0}
    MaxTasks = 1
    MaxComments = 1
    Tabs = {t1,t2,t3}
    MaxOps = 2
    MaxSnapshots = 1
    MaxExports = 2
    ChatRetries = 1
    BoardRetries = 1
    MaxRedeliveries = 1
    ConsentDays = 1
    Lifespans = {1}
    MaxDays = 2
    MaxProposals = 2
    MaxMockups = 2
CHECK_DEADLOCK FALSE
SYMMETRY Alike
INVARIANTS AgreedByTwo JoinerHasNoGap ReadyHasPdf
