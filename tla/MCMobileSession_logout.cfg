SPECIFICATION Spec
CONSTANTS
    Users = {u1}
    Clubs = {}
    MaxRows = 2
    MaxVersion = 0
    None = None
    Calls = {q1, q2}
    Logins = {l1}
    MaxKills = 0
CHECK_DEADLOCK FALSE
SYMMETRY CallSymmetry
INVARIANTS
    LogoutEmptiesStorage
