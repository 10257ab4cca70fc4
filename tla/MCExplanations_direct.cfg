SPECIFICATION Spec
CONSTANTS
    Expenses = {1}
    Contents = {c1, c2}
    Severities = {"none", "medium", "high"}
    Batches = {}
    Replicas = {p1, p2}
    Recomputes = {q1}
    BatchMin = 3
    DailyLimit = 1
    MaxDay = 1
    None = None
CHECK_DEADLOCK FALSE
SYMMETRY ReplicaSymmetry
INVARIANTS
    WithinDailyLimit
PROPERTIES
    NeverRewritten
