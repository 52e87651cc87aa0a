--------------------------- MODULE OrderRefunds ----------------------------
(***************************************************************************)
(* CancellationService and RefundService: an order is cancelled by the     *)
(* customer or the business, an administrator returns money through the    *)
(* provider, or settles by hand the refund a cancelled delivery left.      *)
(***************************************************************************)
EXTENDS OrderRows

RefundablePaymentStatuses == {"PAID", "PARTIALLY_REFUNDED"}

\* loadOrder and the two checks: the actor's rule, then the transition map.
CancelRead(w, o, actor) ==
    /\ order[o].status # None
    /\ actor = "customer" => order[o].status \in CustomerCancellable
    /\ CanTransition(order[o].status, "CANCELLED")
    /\ Start(w, [Idle EXCEPT !.pc = "cancel", !.order = o, !.lines = order[o].lines,
                             !.paid = payment[o].status])
    /\ UNCHANGED <<cart, stock, order, payment, event, refund, delivery, business>>

\* The transaction; a refund follows if the payment WAS paid when it was loaded.
CancelCommit(w) ==
    /\ At(w, "cancel")
    /\ LET task == req[w] IN
        /\ stock' = StockReleased(task.lines)
        /\ SetStatus(task.order, "CANCELLED")
        /\ IF task.paid = "PAID"
           THEN Continue(w, [task EXCEPT !.pc = "refundCheck", !.amount = Amount])
           ELSE Finish(w)
    /\ UNCHANGED <<cart, payment, event, refund, delivery, business>>

---------------------------------------------------------------------------
(* refundOrder *)

\* POST /admin/payments/:id/refund, for any amount.
AdminRefund(w, o, amount) ==
    /\ payment[o].status # None
    /\ Start(w, [Idle EXCEPT !.pc = "refundCheck", !.order = o, !.amount = amount])
    /\ UNCHANGED <<cart, stock, order, payment, event, refund, delivery, business>>

RefundCheck(w) ==
    /\ At(w, "refundCheck")
    /\ IF payment[req[w].order].status \in RefundablePaymentStatuses
       THEN Continue(w, [req[w] EXCEPT !.pc = "refundSum"])
       ELSE Finish(w)
    /\ UNCHANGED <<cart, stock, order, payment, event, refund, delivery, business>>

\* The guard against over-refunding: what was returned so far is summed.
RefundSum(w) ==
    /\ At(w, "refundSum")
    /\ IF payment[req[w].order].refunded + req[w].amount <= Amount
       THEN Continue(w, [req[w] EXCEPT !.pc = "refundWrite"])
       ELSE Finish(w)
    /\ UNCHANGED <<cart, stock, order, payment, event, refund, delivery, business>>

\* COMPLETED refunds, the one being written included (mutant: counted twice).
SumCountedTwice(o, amount) == payment[o].refunded + amount + amount
SumWithOwn(o, amount) == payment[o].refunded + amount

\* refundPayment: the provider returns the money, the sum is taken again.
RefundWrite(w) ==
    /\ At(w, "refundWrite")
    /\ Continue(w, [req[w] EXCEPT !.pc = "refundCommit",
                                  !.sum = SumWithOwn(req[w].order, req[w].amount)])
    /\ UNCHANGED <<cart, stock, order, payment, event, refund, delivery, business>>

StatusAfterRefund(sum) == IF sum >= Amount THEN "REFUNDED" ELSE "PARTIALLY_REFUNDED"

RefundCommit(w) ==
    /\ At(w, "refundCommit")
    /\ LET o == req[w].order IN
        payment' = [payment EXCEPT ![o].refunded = @ + req[w].amount,
                                   ![o].status   = StatusAfterRefund(req[w].sum)]
    /\ Finish(w)
    /\ UNCHANGED <<cart, stock, order, event, refund, delivery, business>>

---------------------------------------------------------------------------
(* completeManual *)

ManualRead(w, f) ==
    /\ refund[f].status = "PENDING"
    /\ Start(w, [Idle EXCEPT !.pc = "manualUpdate", !.row = f, !.order = refund[f].order,
                             !.amount = refund[f].amount])
    /\ UNCHANGED <<cart, stock, order, payment, event, refund, delivery, business>>

\* refund.update locks the row until commit; the sum then includes it.
ManualUpdate(w) ==
    /\ At(w, "manualUpdate")
    /\ \A v \in Workers : At(v, "manualCommit") => req[v].row # req[w].row
    /\ LET f    == req[w].row
           paid == payment[req[w].order].refunded
       IN  Continue(w, [req[w] EXCEPT
                !.pc  = "manualCommit",
                !.sum = IF refund[f].status = "PENDING" THEN paid + req[w].amount ELSE paid])
    /\ UNCHANGED <<cart, stock, order, payment, event, refund, delivery, business>>

ManualCommit(w) ==
    /\ At(w, "manualCommit")
    /\ LET o == req[w].order
           f == req[w].row
       IN  /\ payment' = [payment EXCEPT
                ![o].refunded = IF refund[f].status = "PENDING" THEN @ + req[w].amount ELSE @,
                ![o].status   = StatusAfterRefund(req[w].sum)]
           /\ refund' = [refund EXCEPT ![f].status = "COMPLETED"]
    /\ Finish(w)
    /\ UNCHANGED <<cart, stock, order, event, delivery, business>>

RefundStep(w) ==
    \/ \E o \in OrderIds, actor \in {"customer", "business"} : CancelRead(w, o, actor)
    \/ CancelCommit(w)
    \/ \E o \in OrderIds, amount \in 1..Amount : AdminRefund(w, o, amount)
    \/ RefundCheck(w) \/ RefundSum(w) \/ RefundWrite(w) \/ RefundCommit(w)
    \/ \E f \in Refunds : ManualRead(w, f)
    \/ ManualUpdate(w) \/ ManualCommit(w)
=============================================================================
