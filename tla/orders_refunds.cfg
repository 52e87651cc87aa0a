SPECIFICATION RefundSpec
CONSTANTS
    Requests = {r1, r2}
    Sweeper = sweeper
    OrderIds = {o1}
    Keys = {k1}
    Products = {p1}
    Events = {e1}
    Refunds = {f1}
    InitialStock = 1
    Amount = 2
    Located = TRUE
    MaxCarts = 1
    MaxCharges = 1
SYMMETRY Symmetry
CHECK_DEADLOCK FALSE
INVARIANTS
    RefundedMeansReturned
    PaidOrderWasCharged
PROPERTIES
    ForwardStepsAreLegal
