SPECIFICATION Spec
CONSTANTS
    Members = {m1}
    Fees = {f1, f2}
    Payments = {x1}
    Res = {}
    Requests = {q1, q2}
    Amounts = {1}
    Prices = {}
    Dues = 1
    None = None
CHECK_DEADLOCK FALSE
PROPERTIES
    CancelledIsNotRevived
