\* The fault-free service.
SPECIFICATION Spec
CONSTANTS
    OfferIds = {o1}
    Addresses = {a1, a2}
    Amounts = {3}
    FeePercent = 10
    MaxBacklog = 0
    Faults = {}
    None = None
PROPERTIES ConfirmedSwapIsRefunded
