SPECIFICATION CustomerSpec
CONSTANTS
    Requests = {r1, r2}
    Sweeper = sweeper
    OrderIds = {o1, o2}
    Keys = {k1, k2}
    Products = {p1, p2}
    Events = {}
    Refunds = {}
    InitialStock = 1
    Amount = 1
    Located = TRUE
    MaxCarts = 2
    MaxCharges = 1
SYMMETRY Symmetry
CHECK_DEADLOCK FALSE
INVARIANTS
    TypeOK
    NoUnitLost
    OnePaymentPerKey
