SPECIFICATION FairSpec
CONSTANTS
    Courts = {c1}
    Res = {r1}
    Members = {m1}
    Requests = {q1}
    Replicas = {j1, j2}
    OpenSlots <- NestedSlots
    GridSlots <- LongSlot
    Horizon = 2
    MaxPending = 1
    CancelNotice = 1
    MaxTime = 3
    Guest = Guest
    NoRes = NoRes
    NoCourt = NoCourt
    NoSlot = NoSlot
CHECK_DEADLOCK FALSE
INVARIANTS
    ReservationsHaveCourt
    SettledInTime
PROPERTIES
    TerminalIsFinal
    ConfirmedNeverExpires
    PendingIsDecided
