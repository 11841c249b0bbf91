\* Up to three trades of four offers in three time bins.
SPECIFICATION Spec
CONSTANTS
    Offers <- MCOffers
    Times = {0, 1, 2, 3, 4, 5}
    Interval = 2
    Tick = 10
    MaxTrades = 3
    MaxGroups = 2
    None = None
INVARIANTS TypeOK GroupsAreSums RecentGroups BinsCoverWindow ChartIsContinuous RangeOfTrades
PROPERTIES CompletedOnce
CHECK_DEADLOCK FALSE
