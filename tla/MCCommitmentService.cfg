\* One offer, three nodes: two takers race for the offer of the third.
SPECIFICATION Spec
CONSTANTS
    OfferIds = {o1}
    Addresses = {a1, a2, a3}
    Amounts = {3}
    FeePercent = 10
    MaxBacklog = 1
    Faults = {"refund", "send", "poll"}
    None = None
SYMMETRY AddressSymmetry
INVARIANTS TypeOK RefundedAtMostOnce CollateralIntact Solvent
PROPERTIES ProofBacked RefinesEscrow
