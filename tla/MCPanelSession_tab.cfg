SPECIFICATION Spec
CONSTANTS
    Users = {u1}
    Clubs = {c1, c2}
    Home = c1
    MaxRows = 2
    MaxVersion = 1
    MaxLate = 1
    None = None
    Tabs = {t1}
    Calls = {q1, q2, q3}
CHECK_DEADLOCK FALSE
SYMMETRY BrowserSymmetry
CONSTRAINT UntilLost
INVARIANTS
    PanelTypeOK
    ReuseOnlyAfterCut
    HintIsTrue
    ShowsItsClub
