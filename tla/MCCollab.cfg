SPECIFICATION FairSpec
CONSTANTS
    Profiles = {a}
    Targets = {"partner"}
    Requests = {r1, r2}
    Workers = {w1, w2}
    NudgeDays = 1
    ArchiveDays = 2
    MaxDays = 3
    MaxMessages = 1
    MaxQueue = 1
    MaxChanges = 2
CHECK_DEADLOCK FALSE
INVARIANTS HistoryExplainsStatus ArchivedForReason
PROPERTIES EndedIsArchived
