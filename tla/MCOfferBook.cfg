\* Seven offers, two of them alike, four orders, and floats of seven bits.
SPECIFICATION Spec
CONSTANTS
    Published <- MCPublished
    Orders <- MCOrders
    None = None
    Least = 64
    Ulps <- MCUlps
INVARIANTS TypeOK ViewsAgree BookExcludesOwn TakesAreInBook NothingFits AmountConserved LargestFirst PaymentsComplement
PROPERTIES RestWithinRounding
CHECK_DEADLOCK FALSE
