------------------------------ MODULE Orders -------------------------------
(***************************************************************************)
(* A Marketplace purchase from cart to delivery: the composition of        *)
(* Checkout, Payments, OrderRefunds and Fulfillment over the same rows.    *)
(***************************************************************************)
EXTENDS Checkout, Payments, OrderRefunds, Fulfillment

Next ==
    \/ CartStep
    \/ BusinessStep
    \/ SweeperStep
    \/ \E w \in Requests :
        CheckoutStep(w) \/ PaymentStep(w) \/ RefundStep(w) \/ FulfillmentStep(w)
    \/ \E w \in Workers : Fail(w)

Spec == Init /\ [][Next]_vars

(***************************************************************************)
(* The only thing the code schedules by itself is the sweeper, every 20    *)
(* seconds, for every orphan it finds.  Its round trips may fail, but not  *)
(* for ever: what keeps being retried gets through once (strong fairness). *)
(* Getting through assertEligible is not passing it: it may refuse.        *)
(***************************************************************************)
SweepFairness ==
    /\ \A o \in OrderIds : SF_vars(SweepOrphan(o))
    /\ SF_vars(CheckEligible(Sweeper))
    /\ SF_vars(InsertDelivery(Sweeper))

FairSpec == Spec /\ SweepFairness

---------------------------------------------------------------------------
(* Safety, for any number of concurrent requests *)

Live(o) == order[o].status \notin {None, "CANCELLED"}

\* The live orders that hold a unit of p.
Holders(p) == {o \in OrderIds : Live(o) /\ p \in order[o].lines}

(***************************************************************************)
(* No unit is ever lost: each one is on the shelf or in a live order.      *)
(* A rollback, a crash, a failed payment or a cancellation never makes     *)
(* stock disappear (StockService, CheckoutService, CancellationService).   *)
(***************************************************************************)
NoUnitLost ==
    \A p \in Products : stock[p] + Cardinality(Holders(p)) >= InitialStock

(***************************************************************************)
(* An order is past payment only if money was taken for it or the provider *)
(* said so: the status sync never runs ahead of the charge.                *)
(***************************************************************************)
PaidByProvider(o) == \E e \in Events : event[e].order = o /\ event[e].status = "PAID"

PaidOrderWasCharged ==
    \A o \in OrderIds :
        order[o].status \notin {None, "PAYMENT_PENDING", "CANCELLED"} =>
            payment[o].charged > 0 \/ PaidByProvider(o)

(***************************************************************************)
(* A payment reads REFUNDED only when everything paid was given back, or   *)
(* the provider reported it so: refundPayment, completeManual and their    *)
(* two sums agree on "fully", whatever events come in between.             *)
(***************************************************************************)
RefundedByProvider(o) ==
    \E e \in Events : event[e].order = o /\ event[e].status = "REFUNDED"

RefundedMeansReturned ==
    \A o \in OrderIds :
        payment[o].status = "REFUNDED" =>
            payment[o].refunded >= Amount \/ RefundedByProvider(o)

(***************************************************************************)
(* One idempotency key pays for one order.                                 *)
(***************************************************************************)
OnePaymentPerKey ==
    \A o1, o2 \in OrderIds :
        payment[o1].key # None /\ payment[o1].key = payment[o2].key => o1 = o2

(***************************************************************************)
(* A status other than PAID or CANCELLED is only ever reached along the    *)
(* transition map, whatever happened since the order was read: the         *)
(* compare-and-swap of applyGuardedTransition.  The one writer without it  *)
(* is DeliverySyncService, and all it can write over a status it did not   *)
(* see is COMPLETED, in the transaction that ends the order's delivery.    *)
(***************************************************************************)
Delivered(o) == delivery[o] # "DELIVERED" /\ delivery'[o] = "DELIVERED"

ForwardStepsAreLegal ==
    [][\A o \in OrderIds :
        order'[o].status \notin {order[o].status, "PAID", "CANCELLED", "PAYMENT_PENDING"} =>
            \/ CanTransition(order[o].status, order'[o].status)
            \/ order'[o].status = "COMPLETED" /\ Delivered(o)]_vars

(***************************************************************************)
(* A ready DELIVERY order gets a Delivery, whatever failed in between:     *)
(* OrphanedOrderRetrySweeper finds it.  Only if the business is in the end *)
(* one that can deliver: assertEligible asks that again on every sweep,    *)
(* and refuses for as long as it is suspended or has lost a capability.    *)
(***************************************************************************)
Orphan(o) ==
    /\ order[o].type = "DELIVERY"
    /\ order[o].status = "READY_FOR_PICKUP"
    /\ delivery[o] = None

ReadyOrderGetsDelivery ==
    <>[]CanDispatch => \A o \in OrderIds : Orphan(o) ~> ~Orphan(o)

---------------------------------------------------------------------------
(* What holds when requests do not overlap (one request at a time, the     *)
(* sweeper and failures still interleaving) *)

(***************************************************************************)
(* A Delivery is only ever made for an order that was readied: once there  *)
(* is one, the order is ready, or done with.                               *)
(***************************************************************************)
DeliveryFollowsReadiness ==
    \A o \in OrderIds :
        delivery[o] # None =>
            /\ order[o].type = "DELIVERY"
            /\ order[o].status \in {"READY_FOR_PICKUP", "COMPLETED"}
            /\ order[o].status = "COMPLETED" <=> delivery[o] = "DELIVERED"

(***************************************************************************)
(* releaseStock gives back exactly what reserveStock took.                 *)
(***************************************************************************)
StockConserved ==
    \A p \in Products : stock[p] + Cardinality(Holders(p)) <= InitialStock

(***************************************************************************)
(* An order then lives as OrderLifecycle says: only legal moves, and units *)
(* that leave the shelf when it is placed and return when it is cancelled. *)
(***************************************************************************)
Lifecycle == INSTANCE OrderLifecycle WITH
    status <- [o \in OrderIds |-> order[o].status],
    lines  <- [o \in OrderIds |-> order[o].lines],
    shelf  <- stock

LifecycleRefined == Lifecycle!Spec

(***************************************************************************)
(* createPayment leaves no order without its payment, so a retry with the  *)
(* same key finds the order it made.                                       *)
(***************************************************************************)
EveryOrderHasPayment ==
    \A o \in OrderIds : order[o].status # None => payment[o].status # None

---------------------------------------------------------------------------
(* What comments say and the code does not keep *)

(***************************************************************************)
(* The comment of confirmPayment(): "never double-charges".  Violated with *)
(* MaxCharges = 2 and one order, by two requests that overlap, and by one  *)
(* after a partial refund; no run of its own (README).                     *)
(***************************************************************************)
NeverChargedTwice == \A o \in OrderIds : payment[o].charged <= 1

(***************************************************************************)
(* The comment of OrderStateMachine: "the exhaustive legal-transition map" *)
(* of an order.  Violated at the end of a delivery by a cancellation, or a *)
(* status sync, that read the order while it still could, and commits      *)
(* between DeliverySyncService's read and its write; no run of its own.    *)
(***************************************************************************)
CompletionIsLegal ==
    [][\A o \in OrderIds :
        order'[o].status \notin {order[o].status, "PAID", "CANCELLED", "PAYMENT_PENDING"} =>
            CanTransition(order[o].status, order'[o].status)]_vars

(***************************************************************************)
(* The comment of OrphanedOrderRetrySweeper: it is "the backstop".  A      *)
(* business that never gave its coordinates (Located = FALSE) may take     *)
(* DELIVERY orders, and no sweep gets one past assertEligible.             *)
(***************************************************************************)
BackstopWorks == \A o \in OrderIds : Orphan(o) ~> ~Orphan(o)

(***************************************************************************)
(* The comment of RefundService: "the guard against over-refunding" is     *)
(* real.  No more is returned than was paid.                               *)
(***************************************************************************)
NeverOverRefunded == \A o \in OrderIds : payment[o].refunded <= Amount
=============================================================================
