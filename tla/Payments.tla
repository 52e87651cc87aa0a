----------------------------- MODULE Payments ------------------------------
(***************************************************************************)
(* PaymentService with its Sandbox provider: confirming a payment charges  *)
(* the customer; a webhook event writes the status the provider reports.   *)
(* Both end by handing a payment status to Checkout's "sync" step.         *)
(***************************************************************************)
EXTENDS OrderRows

\* CheckoutService.confirm reads the payment with its order ...
ConfirmRead(w, o) ==
    /\ payment[o].status # None
    /\ order[o].status \notin {"PAID", "CANCELLED"}
    /\ Start(w, [Idle EXCEPT !.pc = "readPayment", !.order = o])
    /\ UNCHANGED <<cart, stock, order, payment, event, refund, delivery, business>>

\* confirmPayment's early return (mutant: a FAILED payment counts as settled).
AlreadySettled(o) == payment[o].status # "PENDING"
AlreadyPaid(o) == payment[o].status = "PAID"

\* ... and PaymentService.confirmPayment reads the payment again.
ReadPayment(w) ==
    /\ At(w, "readPayment")
    /\ IF AlreadyPaid(req[w].order)
       THEN Continue(w, [req[w] EXCEPT !.pc = "sync", !.paid = "PAID"])
       ELSE Continue(w, [req[w] EXCEPT !.pc = "charge"])
    /\ UNCHANGED <<cart, stock, order, payment, event, refund, delivery, business>>

(***************************************************************************)
(* The provider answers, then one transaction records the status of the    *)
(* payment and a CHARGE Transaction.                                       *)
(***************************************************************************)
Charge(w) ==
    /\ At(w, "charge")
    /\ LET o == req[w].order IN
        \E outcome \in {"PAID", "FAILED"} :
            /\ outcome = "PAID" => payment[o].charged < MaxCharges
            /\ payment' = [payment EXCEPT ![o].status  = outcome,
                                          ![o].charged = IF outcome = "PAID" THEN @ + 1 ELSE @]
            /\ Continue(w, [req[w] EXCEPT !.pc = "sync", !.paid = outcome])
    /\ UNCHANGED <<cart, stock, order, event, refund, delivery, business>>

---------------------------------------------------------------------------
(* processWebhook *)

(***************************************************************************)
(* What a webhook may report: parseWebhookEvent takes the status as it     *)
(* comes, and processWebhook writes it as it is.  PENDING stands here for  *)
(* REQUIRES_ACTION, AUTHORIZED and CANCELLED too, which nothing reads.     *)
(***************************************************************************)
EventStatuses == PaymentStatuses

\* The first delivery of an event inserts its WebhookEvent row.
ReceiveEvent(w, e, o, status) ==
    /\ event[e].status = None
    /\ payment[o].status # None
    /\ event' = [event EXCEPT ![e] = [status |-> status, order |-> o, processed |-> FALSE]]
    /\ Start(w, [Idle EXCEPT !.pc = "apply", !.order = o, !.paid = status, !.row = e])
    /\ UNCHANGED <<cart, stock, order, payment, refund, delivery, business>>

\* A later delivery finds the row; it goes on only while the event is not processed.
RedeliverEvent(w, e) ==
    /\ event[e].status # None
    /\ ~event[e].processed
    /\ Start(w, [Idle EXCEPT !.pc   = "apply",       !.order = event[e].order,
                             !.paid = event[e].status, !.row = e])
    /\ UNCHANGED <<cart, stock, order, payment, event, refund, delivery, business>>

\* payment.update, whatever the payment's status is.
ApplyEvent(w) ==
    /\ At(w, "apply")
    /\ payment' = [payment EXCEPT ![req[w].order].status = req[w].paid]
    /\ Continue(w, [req[w] EXCEPT !.pc = "ack"])
    /\ UNCHANGED <<cart, stock, order, event, refund, delivery, business>>

\* webhookEvent.update: processed, before the order is told.
AckEvent(w) ==
    /\ At(w, "ack")
    /\ event' = [event EXCEPT ![req[w].row].processed = TRUE]
    /\ Continue(w, [req[w] EXCEPT !.pc = "sync"])
    /\ UNCHANGED <<cart, stock, order, payment, refund, delivery, business>>

PaymentStep(w) ==
    \/ \E o \in OrderIds : ConfirmRead(w, o)
    \/ ReadPayment(w) \/ Charge(w)
    \/ \E e \in Events, o \in OrderIds, s \in EventStatuses : ReceiveEvent(w, e, o, s)
    \/ \E e \in Events : RedeliverEvent(w, e)
    \/ ApplyEvent(w) \/ AckEvent(w)
=============================================================================
