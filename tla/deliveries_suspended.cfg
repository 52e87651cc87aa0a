SPECIFICATION Spec
CONSTANTS
    Requests = {w1}
    Sweepers = {}
    Riders = {a}
    Deliveries = {d1}
    Roaming = {}
    MaxDispatchAttempts = 1
    MaxOffers = 1
    MaxEarnings = 1
SYMMETRY Symmetry
CHECK_DEADLOCK FALSE
INVARIANTS
    SuspendedIsNotAvailable
