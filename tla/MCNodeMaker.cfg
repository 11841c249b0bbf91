\* A node that makes an offer; two other nodes may call for it.  Without symmetry, for liveness.
SPECIFICATION FairSpec
CONSTANTS
    OwnIds = {m1}
    RemoteIds = {}
    Peers = {p1, p2}
    CS = CS
    OrderIds = {x1}
    Faults = {"send", "channel"}
    None = None
INVARIANTS TypeOK PaysOnlyProved ConfirmsOnlyPaid
PROPERTIES OffersResolve
CHECK_DEADLOCK FALSE
