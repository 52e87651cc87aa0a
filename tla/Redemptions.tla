---------------------------- MODULE Redemptions ----------------------------
(***************************************************************************)
(* CouponsService: a customer's coupon, scanned in the shop and redeemed   *)
(* under a lock of its row.  CommissionCouponsService: a business or a     *)
(* rider redeems a coupon of the platform for a better rate, without one.  *)
(***************************************************************************)
EXTENDS SettlementRows

\* Whether no redemption holds the BusinessCoupon row (mutant: no FOR UPDATE).
CouponUnlocked(c) == TRUE
CouponFree(c) == \A v \in Requests : req[v].pc \in {"check", "use"} => req[v].coupon # c

\* update and setStatus; an UPDATE waits for the row as well.
EditCoupon(c, row) ==
    /\ CouponFree(c)
    /\ coupon' = [coupon EXCEPT ![c] = row]
    /\ UNCHANGED <<owed, sweptBy, payout, rate, use, deal, redeemed, req>>

\* redeem takes the row first, for whichever customer's token is scanned.
LockCoupon(w, c, u) ==
    /\ CouponFree(c)
    /\ Start(w, [Idle EXCEPT !.pc = "check", !.coupon = c, !.customer = u])
    /\ UNCHANGED <<owed, sweptBy, payout, rate, coupon, use, deal, redeemed>>

UsesOf(c) == Cardinality({x \in UseIds : use[x].coupon = c})
UsesBy(c, u) == Cardinality({x \in UseIds : use[x].coupon = c /\ use[x].customer = u})

\* Whether one more stays within a limit.
Within(n, limit) == limit = NoLimit \/ n < limit

Redeemable(c, u) ==
    /\ coupon[c].active
    /\ Within(UsesOf(c), coupon[c].limit)
    /\ Within(UsesBy(c, u), coupon[c].each)

CheckCoupon(w) ==
    /\ At(w, "check")
    /\ IF Redeemable(req[w].coupon, req[w].customer) THEN GoTo(w, "use") ELSE Finish(w)
    /\ UNCHANGED <<owed, sweptBy, payout, rate, coupon, use, deal, redeemed>>

\* The row redeem inserts (mutant: its two references swapped).
SwappedUse(task) == [coupon |-> task.customer, customer |-> task.coupon]
NewUse(task) == [coupon |-> task.coupon, customer |-> task.customer]

UseCoupon(w, x) ==
    /\ At(w, "use")
    /\ use[x] = NoUse
    /\ use' = [use EXCEPT ![x] = NewUse(req[w])]
    /\ Finish(w)
    /\ UNCHANGED <<owed, sweptBy, payout, rate, coupon, deal, redeemed>>

---------------------------------------------------------------------------
(* CommissionCouponsService *)

SetDeal(d, active) ==
    /\ deal[d].active # active
    /\ deal' = [deal EXCEPT ![d].active = active]
    /\ UNCHANGED <<owed, sweptBy, payout, rate, coupon, use, redeemed, req>>

\* The coupon's last day passes, and with it the rates it granted.
CloseDeal(d) ==
    /\ deal[d].open
    /\ deal' = [deal EXCEPT ![d].open = FALSE]
    /\ UNCHANGED <<owed, sweptBy, payout, rate, coupon, use, redeemed, req>>

\* alreadyRedeemed and validateForRedemption.
ReadDeal(w, d, payee) ==
    /\ payee \in DealPayees[d]
    /\ payee \notin redeemed[d]
    /\ deal[d].active /\ deal[d].open
    /\ Cardinality(redeemed[d]) < DealLimit[d]
    /\ Start(w, [Idle EXCEPT !.pc = "grant", !.deal = d, !.payee = payee])
    /\ UNCHANGED <<owed, sweptBy, payout, rate, coupon, use, deal, redeemed>>

\* The redemption is unique per payee (mutant: only looked up, above).
MayGrantAgain(d, payee) == TRUE
NotYetGranted(d, payee) == payee \notin redeemed[d]

\* The rate and the redemption, in one transaction; or neither.
GrantRate(w) ==
    /\ At(w, "grant")
    /\ LET d == req[w].deal
           payee == req[w].payee
       IN  IF NotYetGranted(d, payee)
           THEN /\ rate' = [rate EXCEPT ![payee][d] = @ + 1]
                /\ redeemed' = [redeemed EXCEPT ![d] = @ \cup {payee}]
           ELSE UNCHANGED <<rate, redeemed>>
    /\ Finish(w)
    /\ UNCHANGED <<owed, sweptBy, payout, coupon, use, deal>>

CouponStep(w) ==
    \/ \E c \in Coupons, u \in Customers : LockCoupon(w, c, u)
    \/ CheckCoupon(w)
    \/ \E x \in UseIds : UseCoupon(w, x)

DealStep(w) ==
    \/ \E d \in Deals, payee \in Payees : ReadDeal(w, d, payee)
    \/ GrantRate(w)

AnyEdit == \E c \in Coupons, row \in CouponRow : EditCoupon(c, row)
AnyDeal == \E d \in Deals : CloseDeal(d) \/ \E active \in BOOLEAN : SetDeal(d, active)
=============================================================================
