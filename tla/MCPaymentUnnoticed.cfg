\* A maker and one taker, no fault.
SPECIFICATION Spec
CONSTANTS
    OwnIds = {m1}
    RemoteIds = {}
    Peers = {p1}
    CS = CS
    OrderIds = {x1}
    Faults = {}
    None = None
INVARIANTS PaymentsNoticed
CHECK_DEADLOCK FALSE
