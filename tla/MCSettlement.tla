--------------------------- MODULE MCSettlement ----------------------------
(***************************************************************************)
(* Instances of Settlement for TLC: two bookings and an order of one       *)
(* business, and an earning of one rider.                                  *)
(***************************************************************************)
EXTENDS Settlement, TLC

CONSTANTS biz, chain, rider, e1, o1, a1, a2, d1

MCPayees == {biz, chain, rider}
MCItems == {e1, o1, a1, a2}
MCKindOf == e1 :> "EARNING" @@ o1 :> "ORDER" @@ a1 :> "BOOKING" @@ a2 :> "BOOKING"
MCPayeeOf == [i \in MCItems |-> IF i = e1 THEN rider ELSE biz]
MCDeals == {d1}
MCDealLimit == d1 :> 1
MCDealPayees == d1 :> {biz, chain}
MCLimits == {1, NoLimit}

(***************************************************************************)
(* Customers' coupons share no row with payouts and rates.  The instance   *)
(* therefore explores the two next to each other: every behaviour is of    *)
(* one of them, chosen at the start.                                       *)
(***************************************************************************)
VARIABLE side

SideInit ==
    /\ Init
    /\ \/ side = "shop"
       \/ side = "office" /\ \A c \in Coupons : coupon[c].limit = NoLimit /\ coupon[c].each = NoLimit
SideNext ==
    /\ \/ side = "shop" /\ ShopStep
       \/ side = "office" /\ OfficeStep
    /\ UNCHANGED side
SideSpec == SideInit /\ [][SideNext]_<<vars, side>>

Symmetry ==
    UNION { Permutations(Requests), Permutations({a1, a2}), Permutations(PayoutIds),
            Permutations(Customers), Permutations(UseIds) }
=============================================================================
