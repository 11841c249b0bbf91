\* One offer, its maker and its taker; no timer fires, the user of the maker may cancel.
SPECIFICATION SpecCancelled
CONSTANTS
    Offer = o1
    MakerNode = maker
    TakerNode = taker
    CS = CS
    Amount = 3
    FeePercent = 10
    None = None
INVARIANTS PaysAgainstSecurity
CHECK_DEADLOCK FALSE
