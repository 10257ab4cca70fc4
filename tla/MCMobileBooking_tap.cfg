SPECIFICATION FairSpec
CONSTANTS
    Params = {p1, p2}
    Slots = {s1, s2}
    None = None
INVARIANTS
    AsksWhatItOffers
PROPERTIES
    ConfirmReturns
