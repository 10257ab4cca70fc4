SPECIFICATION Spec
CONSTANTS
    Items = {i1, i2}
    MaxVersion = 2
    MaxMutations = 2
    None = None
SYMMETRY ItemSymmetry
INVARIANTS
    ScreensTypeOK
    FreshAtRest
    OneInFlight
PROPERTIES
    ClosesItsOwn
    FailureIsTold
    GoesOnUpToDate
