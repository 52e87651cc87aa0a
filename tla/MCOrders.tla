------------------------------ MODULE MCOrders -----------------------------
(***************************************************************************)
(* Instances of Orders for TLC.                                            *)
(***************************************************************************)
EXTENDS Orders, TLC

\* Every set of identifiers is interchangeable but the sweeper's.
Symmetry ==
    UNION { Permutations(Requests), Permutations(OrderIds), Permutations(Keys),
            Permutations(Products), Permutations(Events), Permutations(Refunds) }

(***************************************************************************)
(* Only what a customer and the payment provider do, for the instance with *)
(* two orders: the business and the administrator are left out.            *)
(***************************************************************************)
CustomerStep(w) ==
    \/ CheckoutStep(w) \/ PaymentStep(w)
    \/ \E o \in OrderIds : CancelRead(w, o, "customer")
    \/ CancelCommit(w)
    \/ RefundCheck(w) \/ RefundSum(w) \/ RefundWrite(w) \/ RefundCommit(w)
    \/ Fail(w)

CustomerNext == CartStep \/ \E w \in Requests : CustomerStep(w)

CustomerSpec == Init /\ [][CustomerNext]_vars

(***************************************************************************)
(* For the instance about refunds: nobody reassigns the delivery, the      *)
(* sweeper does not run, the business stays as it is, and an event says    *)
(* PAID, FAILED or REFUNDED (in the serial instance, any status).          *)
(***************************************************************************)
Settling == {None, "PAID", "FAILED", "REFUNDED"}

RefundNext ==
    \/ \E p \in Products : AddItem(p)
    \/ \E w \in Requests :
        \/ CheckoutStep(w)
        \/ PaymentStep(w) /\ \A e \in Events : event'[e].status \in Settling
        \/ RefundStep(w) \/ Fail(w)
        \/ FulfillmentStep(w) /\ req'[w].pc # "reopen"

RefundSpec == Init /\ [][RefundNext]_vars
=============================================================================
