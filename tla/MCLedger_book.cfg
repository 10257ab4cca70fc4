SPECIFICATION Spec
CONSTANTS
    Members = {m1}
    Fees = {f1, f2}
    Payments = {x1, x2, x3}
    Res = {r1}
    Requests = {q1, q2}
    Amounts = {1}
    Prices = {1, 2}
    Dues = 1
    None = None
CHECK_DEADLOCK FALSE
SYMMETRY LedgerSymmetry
INVARIANTS
    LedgerTypeOK
    FeeChargedOnce
    OneFeePerMonth
    NeverOverRefunded
PROPERTIES
    ChargesWithinPrice
    NoIncomeOnCancelled
