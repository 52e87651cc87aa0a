SPECIFICATION Spec
CONSTANTS
    Requests = {w1}
    Sweepers = {w1}
    Riders = {a, b}
    Deliveries = {d1, d2}
    Roaming = {}
    MaxDispatchAttempts = 2
    MaxOffers = 2
    MaxEarnings = 2
SYMMETRY Symmetry
CHECK_DEADLOCK FALSE
PROPERTIES
    OffersGoToFreeRiders
    NeverReoffered
    JobRefined
