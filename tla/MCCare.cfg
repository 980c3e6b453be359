SPECIFICATION Spec
CONSTANTS
    None = None
    u1 = u1
    u2 = u2
    q1 = q1
    c1 = c1
    c2 = c2
    ph = ph
    Areas = {"notify","tickets","chatbot","moderation","reports"}
    Slots = {c1,c2}
    MaxRequests = 3
    Users = {u1,u2}
    Phones = {ph}
    MaxChanges = 2
    Settings <- MCSettings
    Kinds = {"collab.nudge_due","match.created","ai.mockup_generated","user.created"}
    MaxEvents = 1
    MaxDeliveries = 2
    MaxRetries = 1
    MaxFaults = 1
    Requesters = {q1}
    Categories = {"harassment_threats","payment"}
    Instants = {0,3,5,25}
    MaxTickets = 1
    MaxScans = 2
    Askers = {u1,u2}
    RateLimit = 2
    HistoryTurns = 2
    MaxChats = 2
    r1 = r1
    Moderators = {u1,u2}
    Reporters = {r1}
    Subjects = {"synopsis","photo"}
    ReportLimit = 3
    Services = {"chat_readonly","admin_audit"}
    Decisions = {"dismiss","delete_account"}
    DueIn <- MCDueIn
    MaxCases = 2
    MaxTime = 1
    MaxFilings = 7
    MaxMixed = 2
    MaxActions = 1
    MaxDispatches = 1
    BeatWorkers = {c1,c2}
    HideAfter = 1
    MaxNotices = 1
    CallerOf <- MCCallerOf
    TextOf <- MCTextOf
    RawScores = {8}
CHECK_DEADLOCK FALSE
SYMMETRY Alike
INVARIANTS NudgedOncePerDevice EventReachesUser ContextIsOwn ThrottleIsBacked HideOncePerWorker
