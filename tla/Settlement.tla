----------------------------- MODULE Settlement ----------------------------
(***************************************************************************)
(* Settling accounts: the composition of Payouts and Redemptions.  They    *)
(* meet in the rates: an order is only paid out while its business has     *)
(* one, and a redeemed deal is one, until it ends.                         *)
(***************************************************************************)
EXTENDS Payouts, Redemptions

\* The shop's side, and the platform's; they share no row.
ShopStep == AnyEdit \/ \E w \in Requests : CouponStep(w) \/ Fail(w)

OfficeStep ==
    \/ \E w \in Requests : PayoutStep(w) \/ DealStep(w) \/ Fail(w)
    \/ \E i \in Items : Owing(i)
    \/ \E payee \in Payees : SetRate(payee)
    \/ AnyDeal

Next == ShopStep \/ OfficeStep

Spec == Init /\ [][Next]_vars

---------------------------------------------------------------------------
(* Safety, for any number of concurrent requests *)

(***************************************************************************)
(* A Payout is worth what it stamped: as many items as its amount says,    *)
(* all owed to its payee, although they were read and summed up before     *)
(* they were stamped and other payouts commit in between.                  *)
(***************************************************************************)
SweptInto(p) == {i \in Items : sweptBy[i] = p}

PayoutMatchesItems ==
    \A p \in PayoutIds :
        /\ payout[p].amount = Cardinality(SweptInto(p))
        /\ \A i \in SweptInto(p) : PayeeOf[i] = payout[p].payee

(***************************************************************************)
(* What was paid out once is never paid out again, by any of the six       *)
(* methods, and no payout is changed after it was made.                    *)
(***************************************************************************)
PaidOutOnce ==
    [][/\ \A i \in Items : sweptBy[i] # None => sweptBy'[i] = sweptBy[i]
       /\ \A p \in PayoutIds : payout[p] # NoPayout => payout'[p] = payout[p]]_vars

(***************************************************************************)
(* A coupon is only ever redeemed while it is active and with both limits  *)
(* observed, two scans of one QR and edits of the coupon included (redeem  *)
(* locks the row before it reads it).                                      *)
(***************************************************************************)
RedeemedWithinLimits ==
    [][\A c \in Coupons :
        UsesOf(c)' # UsesOf(c) =>
            /\ coupon[c].active
            /\ coupon[c].limit = NoLimit \/ UsesOf(c)' <= coupon[c].limit
            /\ \A u \in Customers :
                UsesBy(c, u)' # UsesBy(c, u) =>
                    coupon[c].each = NoLimit \/ UsesBy(c, u)' <= coupon[c].each]_vars

(***************************************************************************)
(* Whoever redeemed a deal has exactly the one rate it grants, and nobody  *)
(* else has it: a second redemption that overlaps leaves no rate behind.   *)
(***************************************************************************)
RateMatchesRedemption ==
    \A d \in Deals, payee \in Payees :
        rate[payee][d] = IF payee \in redeemed[d] THEN 1 ELSE 0
=============================================================================
