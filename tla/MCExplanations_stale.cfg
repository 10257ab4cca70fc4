SPECIFICATION Spec
CONSTANTS
    Expenses = {1}
    Contents = {c1, c2}
    Severities = {"low", "high"}
    Batches = {b1}
    Replicas = {p1}
    Recomputes = {}
    BatchMin = 1
    DailyLimit = 1
    MaxDay = 0
    None = None
CHECK_DEADLOCK FALSE
INVARIANTS
    ExplanationIsCurrent
