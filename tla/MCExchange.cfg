\* One offer, its maker and its taker.
SPECIFICATION Spec
CONSTANTS
    Offer = o1
    MakerNode = maker
    TakerNode = taker
    CS = CS
    Amount = 3
    FeePercent = 10
    None = None
INVARIANTS NodesFit FeeMeansSwapped MatchedTogether
PROPERTIES RefinesSecuredExchange
CHECK_DEADLOCK FALSE
