SPECIFICATION Spec
CONSTANTS
    None = None
    u1 = u1
    c1 = c1
    c2 = c2
    e1 = e1
    e2 = e2
    p1 = p1
    Areas = {"badge","sessions","accounts","portfolio","discovery"}
    Slots = {c1,c2}
    MaxRequests = 6
    Users = {u1}
    MaxInquiries = 1
    MaxHooks = 2
    MaxNews = 2
    MaxReviews = 2
    Holders = {u1}
    MaxSessions = 2
    MaxTokens = 4
    Emails = {e1,e2}
    Numbers = {p1}
    MaxAccounts = 2
    MaxMails = 3
    Limit = 3
    MaxItems = 4
    Providers = {"instagram"}
    MaxKeys = 4
    v1 = v1
    x1 = x1
    x2 = x2
    Viewers = {v1}
    Shown = {x1,x2}
    PickSize = 1
    HideDays = 1
    MaxTaste = 1
    MaxDay = 1
    Pages = {"k"}
    PageSizes = {1,2}
    Cap = 1
CHECK_DEADLOCK FALSE
CONSTRAINT FewRequests
SYMMETRY Alike
INVARIANTS ApprovedByPersona LoggedOutStaysOut VerifiedWasAnswered PortfolioFits
PROPERTIES BadgeFollowsTable VersionNamesOneScore
