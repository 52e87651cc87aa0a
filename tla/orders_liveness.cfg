SPECIFICATION FairSpec
CONSTANTS
    Requests = {r1, r2}
    Sweeper = sweeper
    OrderIds = {o1}
    Keys = {k1}
    Products = {p1}
    Events = {}
    Refunds = {}
    InitialStock = 1
    Amount = 1
    Located = TRUE
    MaxCarts = 1
    MaxCharges = 1
CHECK_DEADLOCK FALSE
PROPERTIES
    ReadyOrderGetsDelivery
