SPECIFICATION Spec
CONSTANTS
    Requests = {r1}
    Sweeper = sweeper
    OrderIds = {o1, o2}
    Keys = {k1, k2}
    Products = {p1}
    Events = {e1}
    Refunds = {f1}
    InitialStock = 1
    Amount = 1
    Located = TRUE
    MaxCarts = 2
    MaxCharges = 1
SYMMETRY Symmetry
CHECK_DEADLOCK FALSE
INVARIANTS
    StockConserved
    EveryOrderHasPayment
    DeliveryFollowsReadiness
PROPERTIES
    LifecycleRefined
