SPECIFICATION ScopeSpec
CONSTANTS
    r1 = r1
    r2 = r2
    k1 = k1
    Requests = {r1, r2}
    Gate <- MCGate
    AdminCoupons = {"FREE_MONTHS", "FREE_TRIAL_EXTENSION"}
    SetByHand = {"CANCELLED"}
    PayKeys = {k1, k2}
    TrialLength = 1
    PeriodLength = 2
    Grace = 1
    Extension = 1
    CouponLimit = 1
    MaxTime = 5
    MaxRows = 2
    MaxSettled = 2
    MaxContracts = 2
CHECK_DEADLOCK FALSE
INVARIANTS
    TypeOK
    NeverUngoverned
    PaidUpToPeriod
PROPERTIES
    ConsentFirst
    DuePeriodIsBilled
    OverdueIsFlagged
