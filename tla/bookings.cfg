SPECIFICATION Spec
CONSTANTS
    Requests = {r1, r2}
    BookingIds = {b1, b2}
    Hours <- MCHours
    Spans <- MCSpans
    Keys = {k1, k2}
    PayKeys = {p1}
    Capacity = 1
    MaxCharges = 1
SYMMETRY Symmetry
CHECK_DEADLOCK FALSE
INVARIANTS
    TypeOK
    PaymentAfterConfirmation
    PaidMeansCollected
PROPERTIES
    SeatsRefined
    MethodChosenOnce
