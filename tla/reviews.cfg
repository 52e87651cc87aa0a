SPECIFICATION Spec
CONSTANTS
    Requests = {r1, r2}
    product1 = product1
    product2 = product2
    order1 = order1
    order2 = order2
    cancelled = cancelled
    Purchases = {order1, order2, cancelled}
    Targets = {product1, product2}
    Rateable <- MCRateable
    Rank <- MCRank
SYMMETRY Symmetry
CHECK_DEADLOCK FALSE
INVARIANTS
    TypeOK
    FiguresRecover
PROPERTIES
    OwnChangeIsCounted
