SPECIFICATION FairSpec
CONSTANTS
    Expenses = {1}
    Contents = {c1}
    Severities = {"low", "medium"}
    Batches = {b1, b2}
    Replicas = {p1, p2}
    Recomputes = {}
    BatchMin = 1
    DailyLimit = 2
    MaxDay = 0
    None = None
CHECK_DEADLOCK FALSE
INVARIANTS
    ExplanationsTypeOK
    InFlightIsUnanswered
PROPERTIES
    BatchesAreCollected
