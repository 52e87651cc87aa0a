SPECIFICATION SideSpec
CONSTANTS
    Requests = {r1, r2}
    biz = biz
    chain = chain
    rider = rider
    e1 = e1
    o1 = o1
    a1 = a1
    a2 = a2
    d1 = d1
    Payees <- MCPayees
    Items <- MCItems
    KindOf <- MCKindOf
    PayeeOf <- MCPayeeOf
    PayoutIds = {p1, p2}
    Coupons = {c1}
    Customers = {u1, u2}
    Limits <- MCLimits
    UseIds = {x1, x2}
    Deals <- MCDeals
    DealLimit <- MCDealLimit
    DealPayees <- MCDealPayees
SYMMETRY Symmetry
CHECK_DEADLOCK FALSE
INVARIANTS
    TypeOK
    PayoutMatchesItems
    RateMatchesRedemption
PROPERTIES
    PaidOutOnce
    RedeemedWithinLimits
