\* A node with two orders that may take the offer of another node.
SPECIFICATION Spec
CONSTANTS
    OwnIds = {}
    RemoteIds = {t1}
    Peers = {p1, p2}
    CS = CS
    OrderIds = {x1, x2}
    Faults = {"send"}
    None = None
SYMMETRY PeerSymmetry
INVARIANTS PaysOnce ExchangeIsWatched EverythingTimesOut
PROPERTIES OrdersAreFinal
CHECK_DEADLOCK FALSE
