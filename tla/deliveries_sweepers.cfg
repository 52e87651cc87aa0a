SPECIFICATION CalmSpec
CONSTANTS
    Requests = {w1}
    Sweepers = {s1}
    Riders = {a, b}
    Deliveries = {d1}
    Roaming = {a}
    MaxDispatchAttempts = 2
    MaxOffers = 2
    MaxEarnings = 1
CHECK_DEADLOCK FALSE
INVARIANTS
    TypeOK
    OfferIsOnRecord
PROPERTIES
    OfferAnsweredOnce
    OfferEnds
    SearchGoesOn
