SPECIFICATION Spec
CONSTANTS
    Requests = {r1}
    Sweeper = sweeper
    OrderIds = {o1}
    Keys = {k1}
    Products = {p1}
    Events = {}
    Refunds = {f1}
    InitialStock = 1
    Amount = 1
    Located = TRUE
    MaxCarts = 1
    MaxCharges = 1
SYMMETRY Symmetry
CHECK_DEADLOCK FALSE
INVARIANTS
    NeverOverRefunded
