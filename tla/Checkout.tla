----------------------------- MODULE Checkout ------------------------------
(***************************************************************************)
(* The customer's cart and CheckoutService: a cart becomes an order with   *)
(* its stock reserved and a PENDING payment, in one transaction; later the *)
(* status of the payment is carried over to the order, in another request. *)
(***************************************************************************)
EXTENDS OrderRows

---------------------------------------------------------------------------
(* CartService *)

\* addItem creates the Cart row on demand and refuses more than is in stock.
AddItem(p) ==
    /\ business # "CLOSED"
    /\ p \notin cart.lines
    /\ stock[p] >= 1
    /\ cart.open \/ cart.id < MaxCarts
    /\ cart' = [ id    |-> IF cart.open THEN cart.id ELSE cart.id + 1,
                 open  |-> TRUE,
                 lines |-> cart.lines \cup {p} ]
    /\ UNCHANGED <<stock, order, payment, event, refund, delivery, business, req>>

RemoveItem(p) ==
    /\ p \in cart.lines
    /\ cart' = [cart EXCEPT !.lines = @ \ {p}]
    /\ UNCHANGED <<stock, order, payment, event, refund, delivery, business, req>>

CartDeleted == [cart EXCEPT !.open = FALSE, !.lines = {}]

ClearCart ==
    /\ cart.open
    /\ cart' = CartDeleted
    /\ UNCHANGED <<stock, order, payment, event, refund, delivery, business, req>>

---------------------------------------------------------------------------
(* createPayment: the idempotency check, then the transaction *)

\* Mutant: only a paid payment keeps its key.
KeyUsedByPaid(k) == \E o \in OrderIds : payment[o].key = k /\ payment[o].status = "PAID"
KeyUsed(k) == \E o \in OrderIds : payment[o].key = k

\* Mutant: the check that comes "first, before touching the cart" is missing.
CheckKeySkipped(w, k, type) ==
    /\ Start(w, [Idle EXCEPT !.pc = "loadCart", !.key = k, !.type = type])
    /\ UNCHANGED <<cart, stock, order, payment, event, refund, delivery, business>>

\* A key that is already in use is answered with the order it made.
CheckKey(w, k, type) ==
    /\ ~KeyUsed(k)
    /\ Start(w, [Idle EXCEPT !.pc = "loadCart", !.key = k, !.type = type])
    /\ UNCHANGED <<cart, stock, order, payment, event, refund, delivery, business>>

LoadCart(w) ==
    /\ At(w, "loadCart")
    /\ cart.lines # {}
    /\ business # "CLOSED"
    /\ req[w].type = "DELIVERY" => business # "NO_DELIVERY"
    /\ Continue(w, [req[w] EXCEPT !.pc = "reserve", !.cart = cart.id, !.lines = cart.lines])
    /\ UNCHANGED <<cart, stock, order, payment, event, refund, delivery, business>>

(***************************************************************************)
(* The rest of the transaction: every line is reserved or none is, then    *)
(* the Order is inserted; PaymentService.createPayment inserts a Payment   *)
(* unless the key has one by now; and the cart that was loaded is deleted  *)
(* if it is still there.                                                   *)
(***************************************************************************)
ReserveAndCreate(w) ==
    /\ At(w, "reserve")
    /\ InStock(req[w].lines)
    /\ \E o \in OrderIds :
        /\ order[o].status = None
        /\ LET task == req[w] IN
            /\ stock' = StockReserved(task.lines)
            /\ order' = [order EXCEPT ![o] =
                            [status |-> "PAYMENT_PENDING", type |-> task.type, lines |-> task.lines]]
            /\ payment' = IF KeyUsed(task.key)
                          THEN payment
                          ELSE [payment EXCEPT ![o] = [NoPayment EXCEPT !.status = "PENDING",
                                                                        !.key    = task.key]]
            /\ cart' = IF cart.id = task.cart THEN CartDeleted ELSE cart
    /\ Finish(w)
    /\ UNCHANGED <<event, refund, delivery, business>>

(***************************************************************************)
(* The transaction rolls back: the cart is empty, a line is out of stock,  *)
(* the business closed, went offline or does not deliver, or the insert    *)
(* met the unique key of a payment committed since.                        *)
(***************************************************************************)
RejectCheckout(w) ==
    /\ At(w, "loadCart") \/ At(w, "reserve")
    /\ Finish(w)
    /\ UNCHANGED <<cart, stock, order, payment, event, refund, delivery, business>>

---------------------------------------------------------------------------
(* syncOrderFromPaymentStatus: shared by confirm() and the webhook *)

\* Mutants: the two branches without their canTransition.
SettlesAnyway(paid, now) == paid = "PAID"
CancelsAnyway(paid, now) == paid = "FAILED"

Settles(paid, now) == paid = "PAID" /\ CanTransition(now, "PAID")
Cancels(paid, now) == paid = "FAILED" /\ CanTransition(now, "CANCELLED")

SyncRead(w) ==
    /\ At(w, "sync")
    /\ LET task == req[w]
           now  == order[task.order].status
       IN  \/ Settles(task.paid, now) /\ Continue(w, [task EXCEPT !.pc = "markPaid"])
           \/ Cancels(task.paid, now) /\ Continue(w, [task EXCEPT !.pc = "cancelUnpaid"])
           \/ ~Settles(task.paid, now) /\ ~Cancels(task.paid, now) /\ Finish(w)
    /\ UNCHANGED <<cart, stock, order, payment, event, refund, delivery, business>>

MarkPaid(w) ==
    /\ At(w, "markPaid")
    /\ SetStatus(req[w].order, "PAID")
    /\ Finish(w)
    /\ UNCHANGED <<cart, stock, payment, event, refund, delivery, business>>

CancelUnpaid(w) ==
    /\ At(w, "cancelUnpaid")
    /\ stock' = StockReleased(order[req[w].order].lines)
    /\ SetStatus(req[w].order, "CANCELLED")
    /\ Finish(w)
    /\ UNCHANGED <<cart, payment, event, refund, delivery, business>>

CheckoutStep(w) ==
    \/ \E k \in Keys, type \in FulfillmentTypes : CheckKey(w, k, type)
    \/ LoadCart(w) \/ ReserveAndCreate(w) \/ RejectCheckout(w)
    \/ SyncRead(w) \/ MarkPaid(w) \/ CancelUnpaid(w)

CartStep == ClearCart \/ \E p \in Products : AddItem(p) \/ RemoveItem(p)
=============================================================================
