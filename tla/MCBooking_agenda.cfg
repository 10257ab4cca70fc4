SPECIFICATION Spec
CONSTANTS
    Courts = {c1}
    Res = {r1, r2}
    Members = {m1}
    Requests = {q1, q2}
    Replicas = {j1}
    OpenSlots <- NestedSlots
    GridSlots <- LongSlot
    Horizon = 2
    MaxPending = 1
    CancelNotice = 1
    MaxTime = 3
    Guest = Guest
    NoRes = NoRes
    NoCourt = NoCourt
    NoSlot = NoSlot
CHECK_DEADLOCK FALSE
SYMMETRY Permutable
INVARIANTS
    TypeOK
    NoDoubleBooking
    ReadsStillHold
    ClosedCourtIsEmpty
PROPERTIES
    ClosingCancelsAgreed
    CalendarSpec
