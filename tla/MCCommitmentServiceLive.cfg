\* Liveness, without symmetry.  The poll and the sending of messages may raise.
SPECIFICATION FairSpec
CONSTANTS
    OfferIds = {o1}
    Addresses = {a1, a2}
    Amounts = {3}
    FeePercent = 10
    MaxBacklog = 1
    Faults = {"poll", "send"}
    None = None
PROPERTIES SwapsEnd RefundsArrive
