SPECIFICATION FairSpec
CONSTANTS
    Users = {u1}
    Clubs = {}
    MaxRows = 2
    MaxVersion = 1
    None = None
    Calls = {q1, q2}
    Logins = {l1}
    MaxKills = 1
CHECK_DEADLOCK FALSE
INVARIANTS
    MobileTypeOK
    ReuseOnlyAfterCut
    SessionKept
    RestartKeepsSession
PROPERTIES
    WaitersGoOn
    AppOpens
