\* Two listeners on the same stream.
SPECIFICATION FairSpec
CONSTANTS
    Clients = {"a"}
    Topics = {"broadcast", "address"}
    Listeners <- MCListeners
    Kinds = {"offer", "foreign"}
    Faults = {"connect"}
    MaxSent <- MCMaxSent
INVARIANTS TypeOK InOrder NothingMissed
PROPERTIES PendingArrives
CHECK_DEADLOCK FALSE
