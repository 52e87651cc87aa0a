--------------------------- MODULE SettlementRows --------------------------
(***************************************************************************)
(* The rows in which accounts are settled: what is owed to riders and      *)
(* businesses and the payouts that settle it, the commission rates, and    *)
(* the coupons that are redeemed against them or in the shop.  Variables,  *)
(* actions and req[w] are those of OrderRows: tables, round trips, and     *)
(* what a request remembers between two of them.                           *)
(***************************************************************************)
EXTENDS Integers, FiniteSets

CONSTANTS
    Requests,     \* HTTP requests the API can be serving at one time
    Payees,       \* riders and businesses
    Items,        \* RiderEarning, Order and Booking rows
    KindOf,       \* which of the three an item is
    PayeeOf,      \* the rider or business it is owed to
    PayoutIds,    \* ids of Payout rows
    Coupons,      \* BusinessCoupon rows of one business
    Customers,    \* who shows them
    Limits,       \* values of usageLimit and usagePerCustomer
    UseIds,       \* ids of CouponRedemption rows
    Deals,        \* CommissionCoupon rows
    DealLimit,    \* their usageLimit
    DealPayees    \* whom each one is for: its targetType

\* The absence of a row or of a value (SQL NULL).
None == "NONE"

\* A limit that is not set; one that is set is positive.
NoLimit == 0

Kinds == {"EARNING", "ORDER", "BOOKING"}
Rates == Deals \cup {"BASE"}

ASSUME ItemsAssumption ==
    /\ IsFiniteSet(Items)
    /\ None \notin PayoutIds
    /\ KindOf \in [Items -> Kinds]
    /\ PayeeOf \in [Items -> Payees]
ASSUME LimitsAssumption ==
    /\ Limits \subseteq Nat
    /\ IsFiniteSet(UseIds)
    /\ None \notin Coupons
ASSUME DealsAssumption ==
    /\ "BASE" \notin Deals
    /\ DealLimit \in [Deals -> Nat]
    /\ DealPayees \in [Deals -> SUBSET Payees]

VARIABLES
    owed,      \* whether an item has the statuses the pending queries ask for
    sweptBy,   \* its payoutId
    payout,    \* Payout rows
    rate,      \* Commission and RiderCommissionOverride rows of a payee, by origin
    coupon,    \* BusinessCoupon rows
    use,       \* CouponRedemption rows
    deal,      \* CommissionCoupon rows
    redeemed,  \* CommissionCouponRedemption rows: who redeemed a deal
    req        \* the request each worker is serving

vars == <<owed, sweptBy, payout, rate, coupon, use, deal, redeemed, req>>

Steps == { "idle",
           "stamp",                      \* the six "mark paid" methods
           "check", "use",               \* CouponsService.redeem
           "grant" }                     \* CommissionCouponsService.redeemFor...

Task == [ pc       : Steps,
          items    : SUBSET Items,
          payee    : Payees \cup {None},
          coupon   : Coupons \cup {None},
          customer : Customers \cup {None},
          deal     : Deals \cup {None} ]

Idle == [ pc |-> "idle", items |-> {}, payee |-> None, coupon |-> None,
          customer |-> None, deal |-> None ]

NoPayout == [payee |-> None, amount |-> 0]
NoUse    == [coupon |-> None, customer |-> None]

PayoutRow == [payee : Payees \cup {None}, amount : Nat]
CouponRow == [active : BOOLEAN, limit : Limits, each : Limits]
UseRow    == [coupon : Coupons \cup {None}, customer : Customers \cup {None}]
DealRow   == [active : BOOLEAN, open : BOOLEAN]     \* status; within its dates

TypeOK ==
    /\ owed \in [Items -> BOOLEAN]
    /\ sweptBy \in [Items -> PayoutIds \cup {None}]
    /\ payout \in [PayoutIds -> PayoutRow]
    /\ rate \in [Payees -> [Rates -> Nat]]
    /\ coupon \in [Coupons -> CouponRow]
    /\ use \in [UseIds -> UseRow]
    /\ deal \in [Deals -> DealRow]
    /\ redeemed \in [Deals -> SUBSET Payees]
    /\ req \in [Requests -> Task]

Init ==
    /\ owed = [i \in Items |-> FALSE]
    /\ sweptBy = [i \in Items |-> None]
    /\ payout = [p \in PayoutIds |-> NoPayout]
    /\ rate = [y \in Payees |-> [s \in Rates |-> 0]]
    /\ coupon \in [Coupons -> {row \in CouponRow : ~row.active}]
    /\ use = [x \in UseIds |-> NoUse]
    /\ deal = [d \in Deals |-> [active |-> FALSE, open |-> TRUE]]
    /\ redeemed = [d \in Deals |-> {}]
    /\ req = [w \in Requests |-> Idle]

At(w, step) == req[w].pc = step

Start(w, task) == req[w] = Idle /\ req' = [req EXCEPT ![w] = task]
GoTo(w, step) == req' = [req EXCEPT ![w].pc = step]
Finish(w) == req' = [req EXCEPT ![w] = Idle]

\* A request dies between two round trips; its transaction is rolled back.
Fail(w) ==
    /\ ~At(w, "idle")
    /\ Finish(w)
    /\ UNCHANGED <<owed, sweptBy, payout, rate, coupon, use, deal, redeemed>>
=============================================================================
