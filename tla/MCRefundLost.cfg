\* A refund transfer may raise, for instance when the Raiden node is restarted.
SPECIFICATION FairSpec
CONSTANTS
    OfferIds = {o1}
    Addresses = {a1, a2}
    Amounts = {3}
    FeePercent = 10
    MaxBacklog = 0
    Faults = {"refund"}
    None = None
PROPERTIES RefundsArrive
