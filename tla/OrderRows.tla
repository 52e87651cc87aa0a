----------------------------- MODULE OrderRows -----------------------------
(***************************************************************************)
(* The rows a Marketplace purchase lives in, and the requests that work on *)
(* them.                                                                   *)
(*                                                                         *)
(* The API is stateless: whatever must survive a request is a PostgreSQL   *)
(* row, and a service method is a sequence of round trips to the database. *)
(* Each variable but req is a table; req[w] is what worker w remembers of  *)
(* the request it is serving, between one round trip and the next.  Every  *)
(* action is ONE round trip (a query, or a $transaction whose effect       *)
(* appears at its commit), so two requests interleave exactly where the    *)
(* code awaits.  What a step read earlier is a copy in req[w], and may be  *)
(* stale by the time it is used.                                           *)
(***************************************************************************)
EXTENDS OrderStateMachine, Integers, FiniteSets

CONSTANTS
    Requests,      \* HTTP requests the API can be serving at one time
    Sweeper,       \* the cron worker of OrphanedOrderRetrySweeper
    OrderIds,      \* ids of Order rows (its Payment and Delivery share the id)
    Keys,          \* idempotency keys the customer's app generates
    Products,      \* products of the one business the cart belongs to
    Events,        \* external ids of the webhook events a provider sends
    Refunds,       \* ids of the Refund rows a cancelled delivery opens
    InitialStock,  \* units of each product on the shelf at the start
    Amount,        \* Payment.amount: what one order costs
    Located,       \* the business gave its coordinates when it applied (only then)
    MaxCarts,      \* bound: Cart rows ever created
    MaxCharges     \* bound: successful charges of one payment

ASSUME WorkersAssumption == Sweeper \notin Requests
ASSUME StockAssumption   == InitialStock \in Nat
ASSUME AmountAssumption  == Amount \in Nat \ {0}
ASSUME LocatedAssumption == Located \in BOOLEAN
ASSUME BoundsAssumption  == MaxCarts \in Nat /\ MaxCharges \in Nat
ASSUME OrderIdsAssumption == IsFiniteSet(OrderIds)

Workers == Requests \cup {Sweeper}

\* The absence of a row or of a value (SQL NULL).
None == "NONE"

VARIABLES
    cart,      \* the customer's Cart row: its id, whether it exists, its products
    stock,     \* Product.stock
    order,     \* Order rows, with their OrderItems (one unit of each product)
    payment,   \* Payment rows, with the sums of their CHARGE and REFUND records
    event,     \* WebhookEvent rows
    refund,    \* Refund rows settled by hand, outside the provider
    delivery,  \* Delivery.status, as far as it matters to the order
    business,  \* the Business row with its capabilities, as far as orders need it
    req        \* the request each worker is serving

vars == <<cart, stock, order, payment, event, refund, delivery, business, req>>

FulfillmentTypes == {"PICKUP", "DELIVERY"}

(***************************************************************************)
(* What the business may do: CLOSED is one that is not ACTIVE, is deleted  *)
(* or sells no products, NO_DELIVERY one without the DELIVERY capability.  *)
(***************************************************************************)
BusinessStates == {"OPEN", "CLOSED", "NO_DELIVERY"}

\* The business can hand over a delivery now, as far as the business goes.
CanDispatch == business = "OPEN" /\ Located

(***************************************************************************)
(* A delivery as the order sees it.  OPEN is any of the six cancellable    *)
(* statuses (PENDING to ARRIVED_AT_PICKUP), ON_ROAD the three after the    *)
(* courier has the goods.                                                  *)
(***************************************************************************)
DeliveryStatuses == {"OPEN", "ON_ROAD", "DELIVERED", "CANCELLED"}

\* Where a request can be between two round trips.
Steps == { "idle",
           "loadCart", "reserve",                           \* createPayment
           "readPayment", "charge",                         \* confirm
           "apply", "ack",                                  \* webhook
           "sync", "markPaid", "cancelUnpaid",              \* syncOrder...
           "cancel",                                        \* cancellation
           "refundCheck", "refundSum", "refundWrite", "refundCommit",
           "manualUpdate", "manualCommit",                  \* completeManual
           "setStatus",                                     \* business
           "eligible", "insertDelivery",                    \* createForOrder
           "pickUp", "reopen", "cancelDelivery",
           "complete" }                                     \* complete()

Task == [ pc     : Steps,
          key    : Keys \cup {None},
          type   : FulfillmentTypes \cup {None},
          cart   : 0..MaxCarts,
          order  : OrderIds \cup {None},
          lines  : SUBSET Products,
          seen   : OrderStatuses \cup {None},    \* Order.status as read
          target : OrderStatuses \cup {None},    \* Order.status to write
          paid   : PaymentStatuses \cup {None},  \* Payment.status as read
          amount : Nat,                          \* money to return
          sum    : Nat,                          \* COMPLETED refunds as read
          row    : Events \cup Refunds \cup {None} ]

Idle == [ pc |-> "idle", key |-> None, type |-> None, cart |-> 0,
          order |-> None, lines |-> {}, seen |-> None, target |-> None,
          paid |-> None, amount |-> 0, sum |-> 0, row |-> None ]

NoOrder   == [status |-> None, type |-> None, lines |-> {}]
NoPayment == [status |-> None, key |-> None, charged |-> 0, refunded |-> 0]
NoEvent   == [status |-> None, order |-> None, processed |-> FALSE]
NoRefund  == [status |-> None, order |-> None, amount |-> 0]

OrderRow   == [ status : OrderStatuses \cup {None},
                type   : FulfillmentTypes \cup {None},
                lines  : SUBSET Products ]
PaymentRow == [ status   : PaymentStatuses \cup {None},
                key      : Keys \cup {None},
                charged  : Nat,     \* number of PAID CHARGE Transactions
                refunded : Nat ]    \* sum of COMPLETED refunds
EventRow   == [ status    : PaymentStatuses \cup {None},
                order     : OrderIds \cup {None},
                processed : BOOLEAN ]
RefundRow  == [ status : {None, "PENDING", "COMPLETED"},
                order  : OrderIds \cup {None},
                amount : Nat ]

TypeOK ==
    /\ cart \in [id: 0..MaxCarts, open: BOOLEAN, lines: SUBSET Products]
    /\ stock \in [Products -> Nat]
    /\ order \in [OrderIds -> OrderRow]
    /\ payment \in [OrderIds -> PaymentRow]
    /\ event \in [Events -> EventRow]
    /\ refund \in [Refunds -> RefundRow]
    /\ delivery \in [OrderIds -> DeliveryStatuses \cup {None}]
    /\ business \in BusinessStates
    /\ req \in [Workers -> Task]

Init ==
    /\ cart = [id |-> 0, open |-> FALSE, lines |-> {}]
    /\ stock = [p \in Products |-> InitialStock]
    /\ order = [o \in OrderIds |-> NoOrder]
    /\ payment = [o \in OrderIds |-> NoPayment]
    /\ event = [e \in Events |-> NoEvent]
    /\ refund = [f \in Refunds |-> NoRefund]
    /\ delivery = [o \in OrderIds |-> None]
    /\ business = "OPEN"
    /\ req = [w \in Workers |-> Idle]

At(w, step) == req[w].pc = step

Start(w, task) == req[w] = Idle /\ req' = [req EXCEPT ![w] = task]
Continue(w, task) == req' = [req EXCEPT ![w] = task]
Finish(w) == req' = [req EXCEPT ![w] = Idle]

SetStatus(o, status) == order' = [order EXCEPT ![o].status = status]

\* reserveStock takes the lines only if each one is there (mutant: off by one).
InStockOffByOne(lines) == \A p \in lines : stock[p] >= 0
InStock(lines) == \A p \in lines : stock[p] >= 1
StockReserved(lines) == [p \in Products |-> IF p \in lines THEN stock[p] - 1 ELSE stock[p]]

\* releaseStock puts the lines back (mutant: it forgets to).
StockNotReleased(lines) == stock
StockReleased(lines) == [p \in Products |-> IF p \in lines THEN stock[p] + 1 ELSE stock[p]]

(***************************************************************************)
(* A request can die between any two round trips: the process restarts, or *)
(* the next query throws.  What it had committed stays, what it still had  *)
(* to do is not done; nothing resumes it.                                  *)
(***************************************************************************)
Fail(w) ==
    /\ ~At(w, "idle")
    /\ Finish(w)
    /\ UNCHANGED <<cart, stock, order, payment, event, refund, delivery, business>>
=============================================================================
