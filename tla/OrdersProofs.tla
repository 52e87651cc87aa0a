---------------------------- MODULE OrdersProofs ---------------------------
(***************************************************************************)
(* What holds of Orders for every set of requests, orders, products, keys, *)
(* events and refund rows, and for every stock and price.                  *)
(***************************************************************************)
EXTENDS Orders, FiniteSetTheorems, TLAPS

(***************************************************************************)
(* TypeOK is inductive once the ids that tasks and rows carry are known to *)
(* be ids: a task past its checkout works on an order, a row that exists   *)
(* names one.  RowInv is about the tables, ReqInv about the requests.      *)
(***************************************************************************)
RowInv ==
    /\ cart \in [id: 0..MaxCarts, open: BOOLEAN, lines: SUBSET Products]
    /\ stock \in [Products -> Nat]
    /\ order \in [OrderIds -> OrderRow]
    /\ payment \in [OrderIds -> PaymentRow]
    /\ event \in [Events -> EventRow]
    /\ refund \in [Refunds -> RefundRow]
    /\ delivery \in [OrderIds -> DeliveryStatuses \cup {None}]
    /\ \A e \in Events : event[e].status # None => event[e].order \in OrderIds
    /\ \A f \in Refunds : refund[f].status = "PENDING" => refund[f].order \in OrderIds

BeforeOrder == {"idle", "loadCart", "reserve"}

WellFormed(t) ==
    /\ t \in Task
    /\ t.pc \notin BeforeOrder => t.order \in OrderIds
    /\ t.pc \in {"loadCart", "reserve"} => t.key \in Keys /\ t.type \in FulfillmentTypes
    /\ t.pc \in {"manualUpdate", "manualCommit"} => t.row \in Refunds
    /\ t.pc \in {"apply", "ack"} => t.row \in Events

ReqInv == req \in [Workers -> Task] /\ \A w \in Workers : WellFormed(req[w])

TypeInv == RowInv /\ ReqInv

LEMMA IdleWellFormed == WellFormed(Idle)
BY BoundsAssumption DEF WellFormed, Idle, Task, Steps, None, BeforeOrder

LEMMA IdleTask == Idle \in Task
BY IdleWellFormed DEF WellFormed

(***************************************************************************)
(* The tasks a request starts with are well formed.                        *)
(***************************************************************************)
OrderSteps == {"readPayment", "eligible", "pickUp", "reopen", "cancelDelivery"}

LEMMA OrderTask ==
    ASSUME NEW pc \in OrderSteps, NEW o \in OrderIds
    PROVE  WellFormed([Idle EXCEPT !.pc = pc, !.order = o])
<1> DEFINE t == [Idle EXCEPT !.pc = pc, !.order = o]
<1>0. pc \in Steps
  BY DEF Steps, OrderSteps
<1>1. t \in Task
  BY IdleTask, <1>0 DEF Task
<1>2. t.pc = pc /\ t.order = o
  BY IdleTask DEF Task
<1> QED BY <1>1, <1>2 DEF WellFormed, BeforeOrder, OrderSteps

LEMMA CancelTask ==
    ASSUME NEW o \in OrderIds, NEW lines \in SUBSET Products,
           NEW paid \in PaymentStatuses \cup {None}
    PROVE  WellFormed([Idle EXCEPT !.pc = "cancel", !.order = o, !.lines = lines, !.paid = paid])
<1> DEFINE t == [Idle EXCEPT !.pc = "cancel", !.order = o, !.lines = lines, !.paid = paid]
<1>0. "cancel" \in Steps
  BY DEF Steps
<1>1. t \in Task
  BY IdleTask, <1>0 DEF Task
<1>2. t.pc = "cancel" /\ t.order = o
  BY IdleTask DEF Task
<1> QED BY <1>1, <1>2 DEF WellFormed, BeforeOrder

LEMMA RefundTask ==
    ASSUME NEW o \in OrderIds, NEW amount \in Nat
    PROVE  WellFormed([Idle EXCEPT !.pc = "refundCheck", !.order = o, !.amount = amount])
<1> DEFINE t == [Idle EXCEPT !.pc = "refundCheck", !.order = o, !.amount = amount]
<1>0. "refundCheck" \in Steps
  BY DEF Steps
<1>1. t \in Task
  BY IdleTask, <1>0 DEF Task
<1>2. t.pc = "refundCheck" /\ t.order = o
  BY IdleTask DEF Task
<1> QED BY <1>1, <1>2 DEF WellFormed, BeforeOrder

LEMMA ManualTask ==
    ASSUME NEW o \in OrderIds, NEW f \in Refunds, NEW amount \in Nat
    PROVE  WellFormed([Idle EXCEPT !.pc = "manualUpdate", !.row = f, !.order = o,
                                   !.amount = amount])
<1> DEFINE t == [Idle EXCEPT !.pc = "manualUpdate", !.row = f, !.order = o, !.amount = amount]
<1>0. "manualUpdate" \in Steps
  BY DEF Steps
<1>1. t \in Task
  BY IdleTask, <1>0 DEF Task
<1>2. t.pc = "manualUpdate" /\ t.order = o /\ t.row = f
  BY IdleTask DEF Task
<1> QED BY <1>1, <1>2 DEF WellFormed, BeforeOrder

LEMMA StatusTask ==
    ASSUME NEW o \in OrderIds, NEW seen \in OrderStatuses \cup {None}, NEW target \in OrderStatuses
    PROVE  WellFormed([Idle EXCEPT !.pc = "setStatus", !.order = o, !.seen = seen,
                                   !.target = target])
<1> DEFINE t == [Idle EXCEPT !.pc = "setStatus", !.order = o, !.seen = seen, !.target = target]
<1>0. "setStatus" \in Steps
  BY DEF Steps
<1>1. t \in Task
  BY IdleTask, <1>0 DEF Task
<1>2. t.pc = "setStatus" /\ t.order = o
  BY IdleTask DEF Task
<1> QED BY <1>1, <1>2 DEF WellFormed, BeforeOrder

LEMMA CompleteTask ==
    ASSUME NEW o \in OrderIds, NEW seen \in OrderStatuses \cup {None}
    PROVE  WellFormed([Idle EXCEPT !.pc = "complete", !.order = o, !.seen = seen])
<1> DEFINE t == [Idle EXCEPT !.pc = "complete", !.order = o, !.seen = seen]
<1>0. "complete" \in Steps
  BY DEF Steps
<1>1. t \in Task
  BY IdleTask, <1>0 DEF Task
<1>2. t.pc = "complete" /\ t.order = o
  BY IdleTask DEF Task
<1> QED BY <1>1, <1>2 DEF WellFormed, BeforeOrder

LEMMA EventTask ==
    ASSUME NEW e \in Events, NEW o \in OrderIds, NEW s \in PaymentStatuses \cup {None}
    PROVE  WellFormed([Idle EXCEPT !.pc = "apply", !.order = o, !.paid = s, !.row = e])
<1> DEFINE t == [Idle EXCEPT !.pc = "apply", !.order = o, !.paid = s, !.row = e]
<1>0. "apply" \in Steps
  BY DEF Steps
<1>1. t \in Task
  BY IdleTask, <1>0 DEF Task
<1>2. t.pc = "apply" /\ t.order = o /\ t.row = e
  BY IdleTask DEF Task
<1> QED BY <1>1, <1>2 DEF WellFormed, BeforeOrder

(***************************************************************************)
(* Going on to a refund keeps a task well formed.                          *)
(***************************************************************************)
LEMMA CheckingTask ==
    ASSUME NEW t, WellFormed(t), t.pc \notin BeforeOrder, NEW amount \in Nat
    PROVE  WellFormed([t EXCEPT !.pc = "refundCheck", !.amount = amount])
<1> DEFINE u == [t EXCEPT !.pc = "refundCheck", !.amount = amount]
<1>0. "refundCheck" \in Steps
  BY DEF Steps
<1>1. t \in Task /\ t.order \in OrderIds
  BY DEF WellFormed
<1>2. u \in Task
  BY <1>0, <1>1 DEF Task
<1>3. u.pc = "refundCheck" /\ u.order \in OrderIds
  BY <1>1 DEF Task
<1> QED BY <1>2, <1>3 DEF WellFormed, BeforeOrder

LEMMA CommittingTask ==
    ASSUME NEW t, WellFormed(t), t.pc \notin BeforeOrder, NEW sum \in Nat
    PROVE  WellFormed([t EXCEPT !.pc = "refundCommit", !.sum = sum])
<1> DEFINE u == [t EXCEPT !.pc = "refundCommit", !.sum = sum]
<1>0. "refundCommit" \in Steps
  BY DEF Steps
<1>1. t \in Task /\ t.order \in OrderIds
  BY DEF WellFormed
<1>2. u \in Task
  BY <1>0, <1>1 DEF Task
<1>3. u.pc = "refundCommit" /\ u.order \in OrderIds
  BY <1>1 DEF Task
<1> QED BY <1>2, <1>3 DEF WellFormed, BeforeOrder

LEMMA InitTypeInv == Init => TypeInv
<1> SUFFICES ASSUME Init PROVE TypeInv
    OBVIOUS
<1>1. /\ cart \in [id: 0..MaxCarts, open: BOOLEAN, lines: SUBSET Products]
      /\ stock \in [Products -> Nat]
      /\ delivery \in [OrderIds -> DeliveryStatuses \cup {None}]
  BY StockAssumption, BoundsAssumption DEF Init
<1>2. order \in [OrderIds -> OrderRow]
  BY DEF Init, NoOrder, OrderRow
<1>3. payment \in [OrderIds -> PaymentRow]
  BY DEF Init, NoPayment, PaymentRow
<1>4. event \in [Events -> EventRow] /\ \A e \in Events : event[e].status = None
  BY DEF Init, NoEvent, EventRow
<1>5. refund \in [Refunds -> RefundRow] /\ \A f \in Refunds : refund[f].status = None
  BY DEF Init, NoRefund, RefundRow
<1>6. RowInv
  BY <1>1, <1>2, <1>3, <1>4, <1>5 DEF RowInv, None
<1>7. ReqInv
  BY IdleWellFormed DEF Init, ReqInv, WellFormed
<1> QED BY <1>6, <1>7 DEF TypeInv

\* A request that takes up a well-formed task, or ends, keeps ReqInv.
LEMMA TaskMove ==
    ASSUME ReqInv, NEW w \in Workers, NEW t, WellFormed(t), req' = [req EXCEPT ![w] = t]
    PROVE  ReqInv'
BY DEF ReqInv, WellFormed

LEMMA TaskEnd == ASSUME ReqInv, NEW w \in Workers, Finish(w) PROVE ReqInv'
BY TaskMove, IdleWellFormed DEF Finish

\* SetStatus keeps the type of the orders.
LEMMA StatusTyped ==
    ASSUME order \in [OrderIds -> OrderRow], NEW o \in OrderIds, NEW s \in OrderStatuses,
           SetStatus(o, s)
    PROVE  order' \in [OrderIds -> OrderRow]
BY DEF OrderRow, SetStatus

LEMMA FailTypeInv == ASSUME TypeInv, NEW w \in Workers, Fail(w) PROVE TypeInv'
<1>1. ReqInv'
  BY TaskEnd DEF Fail, TypeInv
<1> QED BY <1>1 DEF Fail, TypeInv, RowInv

LEMMA CartStepTypeInv == ASSUME TypeInv, CartStep PROVE TypeInv'
<1> USE BoundsAssumption DEF TypeInv, RowInv, ReqInv
<1>1. CASE ClearCart
  BY <1>1 DEF ClearCart, CartDeleted
<1>2. ASSUME NEW p \in Products, AddItem(p) PROVE TypeInv'
  BY <1>2 DEF AddItem
<1>3. ASSUME NEW p \in Products, RemoveItem(p) PROVE TypeInv'
  BY <1>3 DEF RemoveItem
<1> QED BY <1>1, <1>2, <1>3 DEF CartStep

LEMMA CheckoutStepTypeInv ==
    ASSUME TypeInv, NEW w \in Workers, CheckoutStep(w)
    PROVE  TypeInv'
<1>w. ReqInv /\ RowInv /\ WellFormed(req[w])
  BY DEF TypeInv, ReqInv
<1>1. ASSUME NEW k \in Keys, NEW type \in FulfillmentTypes, CheckKey(w, k, type)
      PROVE  TypeInv'
  <2> DEFINE t == [Idle EXCEPT !.pc = "loadCart", !.key = k, !.type = type]
  <2>1. t \in Task /\ t.pc = "loadCart" /\ t.key = k /\ t.type = type
    BY ZenonT(40), IdleTask DEF Task, Steps
  <2> HIDE DEF t
  <2>2. WellFormed(t)
    BY <2>1 DEF WellFormed, BeforeOrder
  <2>3. ReqInv'
    BY <1>w, <1>1, <2>2, TaskMove DEF CheckKey, Start, t
  <2>4. RowInv'
    BY <1>w, <1>1 DEF CheckKey, RowInv
  <2> QED BY <2>3, <2>4 DEF TypeInv
<1>2. CASE LoadCart(w)
  <2>1. cart.id \in 0..MaxCarts /\ cart.lines \in SUBSET Products
    BY <1>w DEF RowInv
  <2>2. WellFormed([req[w] EXCEPT !.pc = "reserve", !.cart = cart.id, !.lines = cart.lines])
    BY ZenonT(40), <1>w, <1>2, <2>1 DEF LoadCart, At, WellFormed, BeforeOrder, Task, Steps
  <2>3. ReqInv'
    BY <1>w, <1>2, <2>1, <2>2, TaskMove DEF LoadCart, Continue
  <2>4. RowInv'
    BY <1>w, <1>2 DEF LoadCart, RowInv
  <2> QED BY <2>3, <2>4 DEF TypeInv
<1>3. CASE ReserveAndCreate(w)
  <2>1. PICK o \in OrderIds :
            /\ stock' = StockReserved(req[w].lines)
            /\ order' = [order EXCEPT ![o] = [ status |-> "PAYMENT_PENDING",
                                               type   |-> req[w].type,
                                               lines  |-> req[w].lines ]]
            /\ \/ payment' = payment
               \/ payment' = [payment EXCEPT ![o] =
                        [NoPayment EXCEPT !.status = "PENDING", !.key = req[w].key]]
            /\ cart' = CartDeleted \/ cart' = cart
    BY <1>3 DEF ReserveAndCreate
  <2>2. /\ req[w].lines \in SUBSET Products
        /\ req[w].key \in Keys /\ req[w].type \in FulfillmentTypes
    BY <1>w, <1>3 DEF ReserveAndCreate, At, WellFormed, Task
  <2>3. stock' \in [Products -> Nat]
    BY <1>w, <1>3, <2>1, <2>2 DEF ReserveAndCreate, StockReserved, InStock, RowInv
  <2>4. [status |-> "PAYMENT_PENDING", type |-> req[w].type, lines |-> req[w].lines] \in OrderRow
    BY <2>2 DEF OrderRow, OrderStatuses
  <2>5. order' \in [OrderIds -> OrderRow]
    BY <1>w, <2>1, <2>4 DEF RowInv
  <2>6. [NoPayment EXCEPT !.status = "PENDING", !.key = req[w].key] \in PaymentRow
    BY <2>2 DEF PaymentRow, PaymentStatuses, NoPayment
  <2>7. payment' \in [OrderIds -> PaymentRow]
    BY <1>w, <2>1, <2>6 DEF RowInv
  <2>8. cart' \in [id: 0..MaxCarts, open: BOOLEAN, lines: SUBSET Products]
    BY <1>w, <2>1 DEF CartDeleted, RowInv
  <2>9. ReqInv'
    BY <1>w, <1>3, TaskEnd DEF ReserveAndCreate
  <2>10. RowInv'
    BY <1>w, <1>3, <2>3, <2>5, <2>7, <2>8 DEF ReserveAndCreate, RowInv
  <2> QED BY <2>9, <2>10 DEF TypeInv
<1>4. CASE RejectCheckout(w)
  <2>1. ReqInv'
    BY <1>w, <1>4, TaskEnd DEF RejectCheckout
  <2>2. RowInv'
    BY <1>w, <1>4 DEF RejectCheckout, RowInv
  <2> QED BY <2>1, <2>2 DEF TypeInv
<1>5. CASE SyncRead(w)
  <2>1. WellFormed([req[w] EXCEPT !.pc = "markPaid"])
    BY <1>w, <1>5 DEF SyncRead, At, WellFormed, BeforeOrder, Task, Steps
  <2>2. WellFormed([req[w] EXCEPT !.pc = "cancelUnpaid"])
    BY <1>w, <1>5 DEF SyncRead, At, WellFormed, BeforeOrder, Task, Steps
  <2>3. ReqInv'
    BY <1>w, <1>5, <2>1, <2>2, TaskMove, TaskEnd DEF SyncRead, Continue
  <2>4. RowInv'
    BY <1>w, <1>5 DEF SyncRead, RowInv
  <2> QED BY <2>3, <2>4 DEF TypeInv
<1>6. CASE MarkPaid(w)
  <2>1. req[w].order \in OrderIds
    BY <1>w, <1>6 DEF MarkPaid, At, WellFormed, BeforeOrder
  <2>2. order' \in [OrderIds -> OrderRow]
    BY <1>w, <1>6, <2>1, StatusTyped DEF MarkPaid, RowInv, OrderStatuses
  <2>3. ReqInv'
    BY <1>w, <1>6, TaskEnd DEF MarkPaid
  <2>4. RowInv'
    BY <1>w, <1>6, <2>1, <2>2 DEF MarkPaid, RowInv
  <2> QED BY <2>3, <2>4 DEF TypeInv
<1>7. CASE CancelUnpaid(w)
  <2>1. req[w].order \in OrderIds
    BY <1>w, <1>7 DEF CancelUnpaid, At, WellFormed, BeforeOrder
  <2>2. order' \in [OrderIds -> OrderRow]
    BY <1>w, <1>7, <2>1, StatusTyped DEF CancelUnpaid, RowInv, OrderStatuses
  <2>3. stock' \in [Products -> Nat]
    BY <1>w, <1>7 DEF CancelUnpaid, StockReleased, RowInv
  <2>4. ReqInv'
    BY <1>w, <1>7, TaskEnd DEF CancelUnpaid
  <2>5. RowInv'
    BY <1>w, <1>7, <2>1, <2>2, <2>3 DEF CancelUnpaid, RowInv
  <2> QED BY <2>4, <2>5 DEF TypeInv
<1> QED BY <1>1, <1>2, <1>3, <1>4, <1>5, <1>6, <1>7 DEF CheckoutStep

LEMMA PaymentStepTypeInv ==
    ASSUME TypeInv, NEW w \in Workers, PaymentStep(w)
    PROVE  TypeInv'
<1>w. ReqInv /\ RowInv /\ WellFormed(req[w])
  BY DEF TypeInv, ReqInv
<1>1. ASSUME NEW o \in OrderIds, ConfirmRead(w, o) PROVE TypeInv'
  <2>2. WellFormed([Idle EXCEPT !.pc = "readPayment", !.order = o])
    BY OrderTask DEF OrderSteps
  <2>3. ReqInv'
    BY <1>w, <1>1, <2>2, TaskMove DEF ConfirmRead, Start
  <2>4. RowInv'
    BY <1>w, <1>1 DEF ConfirmRead, RowInv
  <2> QED BY <2>3, <2>4 DEF TypeInv
<1>2. CASE ReadPayment(w)
  <2> DEFINE t == [req[w] EXCEPT !.pc = "sync", !.paid = "PAID"]
             u == [req[w] EXCEPT !.pc = "charge"]
  <2>1. req[w] \in Task /\ req[w].order \in OrderIds
    BY <1>w, <1>2 DEF ReadPayment, At, WellFormed, BeforeOrder
  <2>2. t \in Task /\ t.pc = "sync" /\ t.order = req[w].order
    BY ZenonT(40), <2>1 DEF Task, Steps, PaymentStatuses
  <2>3. u \in Task /\ u.pc = "charge" /\ u.order = req[w].order
    BY <2>1 DEF Task, Steps
  <2> HIDE DEF t, u
  <2>4. WellFormed(t) /\ WellFormed(u)
    BY <2>1, <2>2, <2>3 DEF WellFormed, BeforeOrder
  <2>5. ReqInv'
    BY <1>w, <1>2, <2>4, TaskMove DEF ReadPayment, Continue, t, u
  <2>6. RowInv'
    BY <1>w, <1>2 DEF ReadPayment, RowInv
  <2> QED BY <2>5, <2>6 DEF TypeInv
<1>3. CASE Charge(w)
  <2>1. \A outcome \in {"PAID", "FAILED"} :
            WellFormed([req[w] EXCEPT !.pc = "sync", !.paid = outcome])
    BY <1>w, <1>3 DEF Charge, At, PaymentStatuses, WellFormed, BeforeOrder, Task, Steps
  <2>2. req[w].order \in OrderIds
    BY <1>w, <1>3 DEF Charge, At, WellFormed, BeforeOrder
  <2>3. payment \in [OrderIds -> PaymentRow]
    BY <1>w DEF RowInv
  <2>4. payment' \in [OrderIds -> PaymentRow]
    BY <1>3, <2>3, <2>2 DEF Charge, PaymentRow, PaymentStatuses
  <2>5. ReqInv'
    BY <1>w, <1>3, <2>1, TaskMove DEF Charge, Continue
  <2>6. RowInv'
    BY <1>w, <1>3, <2>2, <2>3, <2>4 DEF Charge, RowInv
  <2> QED BY <2>5, <2>6 DEF TypeInv
<1>4. ASSUME NEW e \in Events, NEW o \in OrderIds, NEW s \in EventStatuses,
             ReceiveEvent(w, e, o, s)
      PROVE  TypeInv'
  <2>2. WellFormed([Idle EXCEPT !.pc = "apply", !.order = o, !.paid = s, !.row = e])
    BY EventTask DEF EventStatuses, PaymentStatuses
  <2>3. event \in [Events -> EventRow]
    BY <1>w DEF RowInv
  <2>4. event' \in [Events -> EventRow]
    BY <1>4, <2>3 DEF ReceiveEvent, EventRow, EventStatuses, PaymentStatuses
  <2>5. \A v \in Events : event'[v].status # None => event'[v].order \in OrderIds
    BY <1>w, <1>4 DEF ReceiveEvent, RowInv
  <2>6. ReqInv'
    BY <1>w, <1>4, <2>2, TaskMove DEF ReceiveEvent, Start
  <2>7. RowInv'
    BY <1>w, <1>4, <2>3, <2>4, <2>5 DEF ReceiveEvent, RowInv
  <2> QED BY <2>6, <2>7 DEF TypeInv
<1>5. ASSUME NEW e \in Events, RedeliverEvent(w, e) PROVE TypeInv'
  <2>1. event[e].order \in OrderIds /\ event[e].status \in PaymentStatuses \cup {None}
    BY <1>w, <1>5 DEF RedeliverEvent, RowInv, EventRow
  <2>3. WellFormed([Idle EXCEPT !.pc = "apply", !.order = event[e].order,
                        !.paid = event[e].status, !.row = e])
    BY EventTask, <2>1
  <2>4. ReqInv'
    BY <1>w, <1>5, <2>1, <2>3, TaskMove DEF RedeliverEvent, Start
  <2>5. RowInv'
    BY <1>w, <1>5 DEF RedeliverEvent, RowInv
  <2> QED BY <2>4, <2>5 DEF TypeInv
<1>6. CASE ApplyEvent(w)
  <2>1. WellFormed([req[w] EXCEPT !.pc = "ack"])
    BY <1>w, <1>6 DEF ApplyEvent, At, WellFormed, BeforeOrder, Task, Steps
  <2>2. req[w].paid \in PaymentStatuses \cup {None}
    BY <1>w DEF WellFormed, Task
  <2>3. payment \in [OrderIds -> PaymentRow]
    BY <1>w DEF RowInv
  <2>4. payment' \in [OrderIds -> PaymentRow]
    BY <1>6, <2>3, <2>2 DEF ApplyEvent, PaymentRow
  <2>5. ReqInv'
    BY <1>w, <1>6, <2>1, TaskMove DEF ApplyEvent, Continue
  <2>6. RowInv'
    BY <1>w, <1>6, <2>2, <2>3, <2>4 DEF ApplyEvent, RowInv
  <2> QED BY <2>5, <2>6 DEF TypeInv
<1>7. CASE AckEvent(w)
  <2>1. WellFormed([req[w] EXCEPT !.pc = "sync"])
    BY <1>w, <1>7 DEF AckEvent, At, WellFormed, BeforeOrder, Task, Steps
  <2>2. req[w].row \in Events
    BY <1>w, <1>7 DEF AckEvent, At, WellFormed
  <2>3. event \in [Events -> EventRow] /\ \A v \in Events : event[v].status # None => event[v].order \in OrderIds
    BY <1>w DEF RowInv
  <2>4. event' \in [Events -> EventRow]
    BY <1>7, <2>3, <2>2 DEF AckEvent, EventRow
  <2>5. \A v \in Events : event'[v].status # None => event'[v].order \in OrderIds
    BY <1>7, <2>3 DEF AckEvent, EventRow
  <2>6. ReqInv'
    BY <1>w, <1>7, <2>1, TaskMove DEF AckEvent, Continue
  <2>7. RowInv'
    BY <1>w, <1>7, <2>2, <2>3, <2>4, <2>5 DEF AckEvent, RowInv
  <2> QED BY <2>6, <2>7 DEF TypeInv
<1> QED BY <1>1, <1>2, <1>3, <1>4, <1>5, <1>6, <1>7 DEF PaymentStep

LEMMA RefundStepTypeInv ==
    ASSUME TypeInv, NEW w \in Workers, RefundStep(w)
    PROVE  TypeInv'
<1>w. ReqInv /\ RowInv /\ WellFormed(req[w])
  BY DEF TypeInv, ReqInv
<1>1. ASSUME NEW o \in OrderIds, NEW actor, CancelRead(w, o, actor) PROVE TypeInv'
  <2>1. order[o].lines \in SUBSET Products /\ payment[o].status \in PaymentStatuses \cup {None}
    BY <1>w DEF RowInv, OrderRow, PaymentRow
  <2>3. WellFormed([Idle EXCEPT !.pc = "cancel", !.order = o, !.lines = order[o].lines,
                        !.paid = payment[o].status])
    BY CancelTask, <2>1
  <2>4. ReqInv'
    BY <1>w, <1>1, <2>1, <2>3, TaskMove DEF CancelRead, Start
  <2>5. RowInv'
    BY <1>w, <1>1 DEF CancelRead, RowInv
  <2> QED BY <2>4, <2>5 DEF TypeInv
<1>2. CASE CancelCommit(w)
  <2>1. WellFormed([req[w] EXCEPT !.pc = "refundCheck", !.amount = Amount])
    BY <1>w, <1>2, AmountAssumption, CheckingTask DEF CancelCommit, At, BeforeOrder
  <2>2. req[w].order \in OrderIds
    BY <1>w, <1>2 DEF CancelCommit, At, WellFormed, BeforeOrder
  <2>3. order' \in [OrderIds -> OrderRow]
    BY <1>w, <1>2, <2>2, StatusTyped DEF CancelCommit, RowInv, OrderStatuses
  <2>4. stock' \in [Products -> Nat]
    BY <1>w, <1>2 DEF CancelCommit, StockReleased, RowInv
  <2>5. ReqInv'
    BY <1>w, <1>2, <2>1, TaskMove, TaskEnd DEF CancelCommit, Continue
  <2>6. RowInv'
    BY <1>w, <1>2, <2>2, <2>3, <2>4 DEF CancelCommit, RowInv
  <2> QED BY <2>5, <2>6 DEF TypeInv
<1>3. ASSUME NEW o \in OrderIds, NEW amount \in 1..Amount, AdminRefund(w, o, amount)
      PROVE  TypeInv'
  <2>1. amount \in Nat
    BY AmountAssumption
  <2>2. WellFormed([Idle EXCEPT !.pc = "refundCheck", !.order = o, !.amount = amount])
    BY RefundTask, <2>1
  <2>3. ReqInv'
    BY <1>w, <1>3, <2>2, TaskMove DEF AdminRefund, Start
  <2>4. RowInv'
    BY <1>w, <1>3 DEF AdminRefund, RowInv
  <2> QED BY <2>3, <2>4 DEF TypeInv
<1>4. CASE RefundCheck(w)
  <2>1. WellFormed([req[w] EXCEPT !.pc = "refundSum"])
    BY <1>w, <1>4 DEF RefundCheck, At, WellFormed, BeforeOrder, Task, Steps
  <2>2. ReqInv'
    BY <1>w, <1>4, <2>1, TaskMove, TaskEnd DEF RefundCheck, Continue
  <2>3. RowInv'
    BY <1>w, <1>4 DEF RefundCheck, RowInv
  <2> QED BY <2>2, <2>3 DEF TypeInv
<1>5. CASE RefundSum(w)
  <2>1. WellFormed([req[w] EXCEPT !.pc = "refundWrite"])
    BY <1>w, <1>5 DEF RefundSum, At, WellFormed, BeforeOrder, Task, Steps
  <2>2. ReqInv'
    BY <1>w, <1>5, <2>1, TaskMove, TaskEnd DEF RefundSum, Continue
  <2>3. RowInv'
    BY <1>w, <1>5 DEF RefundSum, RowInv
  <2> QED BY <2>2, <2>3 DEF TypeInv
<1>6. CASE RefundWrite(w)
  <2>1. payment[req[w].order].refunded \in Nat /\ req[w].amount \in Nat
    BY <1>w, <1>6 DEF RefundWrite, At, RowInv, PaymentRow, WellFormed, BeforeOrder, Task, Steps
  <2>2. SumWithOwn(req[w].order, req[w].amount) \in Nat
    BY <2>1 DEF SumWithOwn
  <2>3. WellFormed([req[w] EXCEPT !.pc = "refundCommit",
                               !.sum = SumWithOwn(req[w].order, req[w].amount)])
    BY <1>w, <1>6, <2>2, CommittingTask DEF RefundWrite, At, BeforeOrder
  <2>4. ReqInv'
    BY <1>w, <1>6, <2>1, <2>2, <2>3, TaskMove DEF RefundWrite, Continue
  <2>5. RowInv'
    BY <1>w, <1>6 DEF RefundWrite, RowInv
  <2> QED BY <2>4, <2>5 DEF TypeInv
<1>7. CASE RefundCommit(w)
  <2>1. req[w].order \in OrderIds
    BY <1>w, <1>7 DEF RefundCommit, At, WellFormed, BeforeOrder
  <2>2. payment[req[w].order].refunded \in Nat /\ req[w].amount \in Nat
    BY <1>w, <1>7 DEF RefundCommit, At, RowInv, PaymentRow, WellFormed, BeforeOrder, Task, Steps
  <2>3. payment \in [OrderIds -> PaymentRow] /\ StatusAfterRefund(req[w].sum) \in PaymentStatuses
    BY <1>w DEF RowInv, StatusAfterRefund, PaymentStatuses
  <2>4. payment' \in [OrderIds -> PaymentRow]
    BY <1>7, <2>1, <2>3, <2>2 DEF RefundCommit, PaymentRow
  <2>5. ReqInv'
    BY <1>w, <1>7, TaskEnd DEF RefundCommit
  <2>6. RowInv'
    BY <1>w, <1>7, <2>1, <2>2, <2>3, <2>4 DEF RefundCommit, RowInv
  <2> QED BY <2>5, <2>6 DEF TypeInv
<1>8. ASSUME NEW f \in Refunds, ManualRead(w, f) PROVE TypeInv'
  <2>1. refund[f].order \in OrderIds /\ refund[f].amount \in Nat
    BY <1>w, <1>8 DEF ManualRead, RowInv, RefundRow, None
  <2>3. WellFormed([Idle EXCEPT !.pc = "manualUpdate", !.row = f,
                        !.order = refund[f].order, !.amount = refund[f].amount])
    BY ManualTask, <2>1
  <2>4. ReqInv'
    BY <1>w, <1>8, <2>1, <2>3, TaskMove DEF ManualRead, Start
  <2>5. RowInv'
    BY <1>w, <1>8 DEF ManualRead, RowInv
  <2> QED BY <2>4, <2>5 DEF TypeInv
<1>9. CASE ManualUpdate(w)
  <2>1. payment[req[w].order].refunded \in Nat /\ req[w].amount \in Nat
    BY <1>w, <1>9 DEF ManualUpdate, At, RowInv, PaymentRow, WellFormed, BeforeOrder, Task, Steps
  <2>2. \A n \in Nat : WellFormed([req[w] EXCEPT !.pc = "manualCommit", !.sum = n])
    BY <1>w, <1>9 DEF ManualUpdate, At, WellFormed, BeforeOrder, Task, Steps
  <2>3. PICK n : /\ \/ n = payment[req[w].order].refunded + req[w].amount
                    \/ n = payment[req[w].order].refunded
                 /\ req' = [req EXCEPT ![w] = [req[w] EXCEPT !.pc = "manualCommit", !.sum = n]]
    BY <1>9 DEF ManualUpdate, Continue
  <2> n \in Nat
    BY <2>1, <2>3
  <2>4. ReqInv'
    BY <1>w, <2>2, <2>3, TaskMove
  <2>5. RowInv'
    BY <1>w, <1>9 DEF ManualUpdate, RowInv
  <2> QED BY <2>4, <2>5 DEF TypeInv
<1>10. CASE ManualCommit(w)
  <2>1. req[w].row \in Refunds /\ req[w].order \in OrderIds
    BY <1>w, <1>10 DEF ManualCommit, At, WellFormed, BeforeOrder
  <2>2. refund \in [Refunds -> RefundRow] /\ \A f \in Refunds : refund[f].status = "PENDING" => refund[f].order \in OrderIds
    BY <1>w DEF RowInv
  <2>3. refund' \in [Refunds -> RefundRow]
    BY <1>10, <2>2, <2>1 DEF ManualCommit, RefundRow
  <2>4. \A f \in Refunds : refund'[f].status = "PENDING" => refund'[f].order \in OrderIds
    BY <1>10, <2>1, <2>2 DEF ManualCommit, RefundRow
  <2>5. payment[req[w].order].refunded \in Nat /\ req[w].amount \in Nat
    BY <1>w, <1>10 DEF ManualCommit, At, RowInv, PaymentRow, WellFormed, BeforeOrder, Task, Steps
  <2>6. payment \in [OrderIds -> PaymentRow] /\ StatusAfterRefund(req[w].sum) \in PaymentStatuses
    BY <1>w DEF RowInv, StatusAfterRefund, PaymentStatuses
  <2>7. payment' \in [OrderIds -> PaymentRow]
    BY <1>10, <2>1, <2>6, <2>5 DEF ManualCommit, PaymentRow
  <2>8. ReqInv'
    BY SMTT(30), <1>w, <1>10, TaskEnd DEF ManualCommit
  <2>9. RowInv'
    BY <1>w, <1>10, <2>1, <2>2, <2>3, <2>4, <2>5, <2>6, <2>7 DEF ManualCommit, RowInv
  <2> QED BY <2>8, <2>9 DEF TypeInv
<1> QED BY <1>1, <1>2, <1>3, <1>4, <1>5, <1>6, <1>7, <1>8, <1>9, <1>10 DEF RefundStep

LEMMA FulfillmentStepTypeInv ==
    ASSUME TypeInv, NEW w \in Workers, FulfillmentStep(w)
    PROVE  TypeInv'
<1>w. ReqInv /\ RowInv /\ WellFormed(req[w])
  BY DEF TypeInv, ReqInv
<1>1. ASSUME NEW o \in OrderIds, NEW target \in OrderStatuses, BusinessRead(w, o, target)
      PROVE  TypeInv'
  <2>1. order[o].status \in OrderStatuses \cup {None}
    BY <1>w DEF RowInv, OrderRow
  <2>3. WellFormed([Idle EXCEPT !.pc = "setStatus", !.order = o,
                        !.seen = order[o].status, !.target = target])
    BY StatusTask, <2>1
  <2>4. ReqInv'
    BY <1>w, <1>1, <2>1, <2>3, TaskMove DEF BusinessRead, Start
  <2>5. RowInv'
    BY <1>w, <1>1 DEF BusinessRead, RowInv
  <2> QED BY <2>4, <2>5 DEF TypeInv
<1>2. ASSUME NEW o \in OrderIds, ReadyRead(w, o) PROVE TypeInv'
  <2>1. order[o].status \in OrderStatuses \cup {None}
    BY <1>w DEF RowInv, OrderRow
  <2>3. WellFormed([Idle EXCEPT !.pc = "setStatus", !.order = o,
                        !.seen = order[o].status, !.target = "READY_FOR_PICKUP"])
    BY StatusTask, <2>1 DEF OrderStatuses
  <2>4. ReqInv'
    BY <1>w, <1>2, <2>1, <2>3, TaskMove DEF ReadyRead, Start
  <2>5. RowInv'
    BY <1>w, <1>2 DEF ReadyRead, RowInv
  <2> QED BY <2>4, <2>5 DEF TypeInv
<1>3. CASE BusinessWrite(w)
  <2>1. req[w].order \in OrderIds /\ req[w].target \in OrderStatuses \cup {None}
    BY <1>w, <1>3 DEF BusinessWrite, At, WellFormed, BeforeOrder, Task, Steps
  <2>3. WellFormed([Idle EXCEPT !.pc = "eligible", !.order = req[w].order])
    BY OrderTask, <2>1 DEF OrderSteps
  <2>4. req[w].order \in OrderIds /\ req[w].target \in OrderStatuses \cup {None}
    BY <2>1
  <2>5. order \in [OrderIds -> OrderRow]
    BY <1>w DEF RowInv
  <2>6. order' \in [OrderIds -> OrderRow]
    BY <1>3, <2>5, <2>4 DEF BusinessWrite, SetStatus, OrderRow
  <2>7. ReqInv'
    BY <1>w, <1>3, <2>1, <2>3, TaskMove, TaskEnd DEF BusinessWrite, Continue
  <2>8. RowInv'
    BY <1>w, <1>3, <2>4, <2>5, <2>6 DEF BusinessWrite, RowInv
  <2> QED BY <2>7, <2>8 DEF TypeInv
<1>4. CASE CheckEligible(w)
  <2>1. WellFormed([req[w] EXCEPT !.pc = "insertDelivery"])
    BY <1>w, <1>4 DEF CheckEligible, At, WellFormed, BeforeOrder, Task, Steps
  <2>2. ReqInv'
    BY <1>w, <1>4, <2>1, TaskMove, TaskEnd DEF CheckEligible, Continue
  <2>3. RowInv'
    BY <1>w, <1>4 DEF CheckEligible, RowInv
  <2> QED BY <2>2, <2>3 DEF TypeInv
<1>5. CASE InsertDelivery(w)
  <2>1. delivery' \in [OrderIds -> DeliveryStatuses \cup {None}]
    BY <1>w, <1>5 DEF InsertDelivery, RowInv, DeliveryStatuses
  <2>2. ReqInv'
    BY <1>w, <1>5, TaskEnd DEF InsertDelivery
  <2>3. RowInv'
    BY <1>w, <1>5, <2>1 DEF InsertDelivery, RowInv
  <2> QED BY <2>2, <2>3 DEF TypeInv
<1>6. ASSUME NEW o \in OrderIds, PickUpRead(w, o) PROVE TypeInv'
  <2>2. WellFormed([Idle EXCEPT !.pc = "pickUp", !.order = o])
    BY OrderTask DEF OrderSteps
  <2>3. ReqInv'
    BY <1>w, <1>6, <2>2, TaskMove DEF PickUpRead, Start
  <2>4. RowInv'
    BY <1>w, <1>6 DEF PickUpRead, RowInv
  <2> QED BY <2>3, <2>4 DEF TypeInv
<1>7. CASE PickUpWrite(w)
  <2>1. delivery' \in [OrderIds -> DeliveryStatuses \cup {None}]
    BY <1>w, <1>7 DEF PickUpWrite, RowInv, DeliveryStatuses
  <2>2. ReqInv'
    BY <1>w, <1>7, TaskEnd DEF PickUpWrite
  <2>3. RowInv'
    BY <1>w, <1>7, <2>1 DEF PickUpWrite, RowInv
  <2> QED BY <2>2, <2>3 DEF TypeInv
<1>8. ASSUME NEW o \in OrderIds, CancelDeliveryRead(w, o) PROVE TypeInv'
  <2>2. WellFormed([Idle EXCEPT !.pc = "cancelDelivery", !.order = o])
    BY OrderTask DEF OrderSteps
  <2>3. ReqInv'
    BY <1>w, <1>8, <2>2, TaskMove DEF CancelDeliveryRead, Start
  <2>4. RowInv'
    BY <1>w, <1>8 DEF CancelDeliveryRead, RowInv
  <2> QED BY <2>3, <2>4 DEF TypeInv
<1>10. ASSUME NEW o \in OrderIds, ReopenRead(w, o) PROVE TypeInv'
  <2>1. WellFormed([Idle EXCEPT !.pc = "reopen", !.order = o])
    BY OrderTask DEF OrderSteps
  <2>2. ReqInv'
    BY <1>w, <1>10, <2>1, TaskMove DEF ReopenRead, Start
  <2>3. RowInv'
    BY <1>w, <1>10 DEF ReopenRead, RowInv
  <2> QED BY <2>2, <2>3 DEF TypeInv
<1>11. CASE ReopenWrite(w)
  <2>1. delivery' \in [OrderIds -> DeliveryStatuses \cup {None}]
    BY <1>w, <1>11 DEF ReopenWrite, RowInv, DeliveryStatuses
  <2>2. ReqInv'
    BY <1>w, <1>11, TaskEnd DEF ReopenWrite
  <2>3. RowInv'
    BY <1>w, <1>11, <2>1 DEF ReopenWrite, RowInv
  <2> QED BY <2>2, <2>3 DEF TypeInv
<1>9. CASE CancelDeliveryCommit(w)
  <2>1. delivery' \in [OrderIds -> DeliveryStatuses \cup {None}]
    BY <1>w, <1>9 DEF CancelDeliveryCommit, RowInv, DeliveryStatuses
  <2>2. req[w].order \in OrderIds
    BY <1>w, <1>9 DEF CancelDeliveryCommit, At, WellFormed, BeforeOrder
  <2>3. payment[req[w].order].refunded \in Nat
    BY <1>w, <2>2 DEF RowInv, PaymentRow
  <2>4. refund \in [Refunds -> RefundRow] /\ \A f \in Refunds : refund[f].status = "PENDING" => refund[f].order \in OrderIds
    BY <1>w DEF RowInv
  <2>5. refund' \in [Refunds -> RefundRow]
    BY <1>9, <2>2, <2>4, <2>3, AmountAssumption DEF CancelDeliveryCommit, RefundRow
  <2>6. \A f \in Refunds : refund'[f].status = "PENDING" => refund'[f].order \in OrderIds
    BY <1>9, <2>2, <2>4 DEF CancelDeliveryCommit, RefundRow
  <2>7. ReqInv'
    BY <1>w, <1>9, TaskEnd DEF CancelDeliveryCommit
  <2>8. RowInv'
    BY <1>w, <1>9, <2>1, <2>2, <2>3, <2>4, <2>5, <2>6 DEF CancelDeliveryCommit, RowInv
  <2> QED BY <2>7, <2>8 DEF TypeInv
<1>12. ASSUME NEW o \in OrderIds, DeliverRead(w, o) PROVE TypeInv'
  <2>1. order[o].status \in OrderStatuses \cup {None}
    BY <1>w DEF RowInv, OrderRow
  <2>2. WellFormed([Idle EXCEPT !.pc = "complete", !.order = o, !.seen = order[o].status])
    BY CompleteTask, <2>1
  <2>3. ReqInv'
    BY <1>w, <1>12, <2>2, TaskMove DEF DeliverRead, Start
  <2>4. RowInv'
    BY <1>w, <1>12 DEF DeliverRead, RowInv
  <2> QED BY <2>3, <2>4 DEF TypeInv
<1>13. CASE DeliverCommit(w)
  <2>1. req[w].order \in OrderIds
    BY <1>w, <1>13 DEF DeliverCommit, At, WellFormed, BeforeOrder
  <2>2. delivery' \in [OrderIds -> DeliveryStatuses \cup {None}]
    BY <1>w, <1>13 DEF DeliverCommit, RowInv, DeliveryStatuses
  <2>3. order' \in [OrderIds -> OrderRow]
    BY <1>w, <1>13, <2>1, StatusTyped DEF DeliverCommit, RowInv, OrderStatuses
  <2>4. ReqInv'
    BY <1>w, <1>13, TaskEnd DEF DeliverCommit
  <2>5. RowInv'
    BY <1>w, <1>13, <2>2, <2>3 DEF DeliverCommit, RowInv
  <2> QED BY <2>4, <2>5 DEF TypeInv
<1> QED BY <1>1, <1>2, <1>3, <1>4, <1>5, <1>6, <1>7, <1>8, <1>9, <1>10, <1>11, <1>12, <1>13
  DEF FulfillmentStep

LEMMA SweeperStepTypeInv == ASSUME TypeInv, SweeperStep PROVE TypeInv'
<1>w. Sweeper \in Workers /\ ReqInv
  BY DEF Workers, TypeInv
<1>1. ASSUME NEW o \in OrderIds, SweepOrphan(o) PROVE TypeInv'
  <2>2. WellFormed([Idle EXCEPT !.pc = "eligible", !.order = o])
    BY OrderTask DEF OrderSteps
  <2>3. ReqInv'
    BY <1>w, <1>1, <2>2, TaskMove DEF SweepOrphan, Start
  <2> QED BY <1>1, <2>3 DEF SweepOrphan, TypeInv, RowInv
<1>2. CASE CheckEligible(Sweeper)
  BY <1>w, <1>2, FulfillmentStepTypeInv DEF FulfillmentStep
<1>3. CASE InsertDelivery(Sweeper)
  BY <1>w, <1>3, FulfillmentStepTypeInv DEF FulfillmentStep
<1> QED BY <1>1, <1>2, <1>3 DEF SweeperStep

LEMMA NextTypeInv == ASSUME TypeInv, [Next]_vars PROVE TypeInv'
<1>1. CASE CartStep
  BY <1>1, CartStepTypeInv
<1>2. CASE BusinessStep
  BY <1>2 DEF BusinessStep, TypeInv, RowInv, ReqInv
<1>3. CASE SweeperStep
  BY <1>3, SweeperStepTypeInv
<1>4. ASSUME NEW w \in Requests,
             CheckoutStep(w) \/ PaymentStep(w) \/ RefundStep(w) \/ FulfillmentStep(w)
      PROVE  TypeInv'
  BY <1>4, CheckoutStepTypeInv, PaymentStepTypeInv, RefundStepTypeInv, FulfillmentStepTypeInv
  DEF Workers
<1>5. ASSUME NEW w \in Workers, Fail(w) PROVE TypeInv'
  BY <1>5, FailTypeInv
<1>6. CASE UNCHANGED vars
  BY <1>6 DEF vars, TypeInv, RowInv, ReqInv
<1> QED BY <1>1, <1>2, <1>3, <1>4, <1>5, <1>6 DEF Next

\* Nothing but BusinessStep touches the business.
LEMMA BusinessTyped ==
    ASSUME business \in BusinessStates, [Next]_vars
    PROVE  business' \in BusinessStates
<1>1. CASE CartStep
  BY <1>1 DEF CartStep, ClearCart, AddItem, RemoveItem
<1>2. CASE BusinessStep
  BY <1>2 DEF BusinessStep
<1>3. CASE SweeperStep
  BY <1>3 DEF SweeperStep, SweepOrphan, CheckEligible, InsertDelivery
<1>4. ASSUME NEW w \in Requests, CheckoutStep(w) PROVE business' = business
  BY <1>4 DEF CheckoutStep, CheckKey, LoadCart, ReserveAndCreate, RejectCheckout, SyncRead,
              MarkPaid, CancelUnpaid
<1>5. ASSUME NEW w \in Requests, PaymentStep(w) PROVE business' = business
  BY <1>5 DEF PaymentStep, ConfirmRead, ReadPayment, Charge, ReceiveEvent, RedeliverEvent,
              ApplyEvent, AckEvent
<1>6. ASSUME NEW w \in Requests, RefundStep(w) PROVE business' = business
  BY <1>6 DEF RefundStep, CancelRead, CancelCommit, AdminRefund, RefundCheck, RefundSum,
              RefundWrite, RefundCommit, ManualRead, ManualUpdate, ManualCommit
<1>7. ASSUME NEW w \in Requests, FulfillmentStep(w) PROVE business' = business
  BY <1>7 DEF FulfillmentStep, BusinessRead, ReadyRead, PickUpRead, ReopenRead,
              CancelDeliveryRead, DeliverRead, BusinessWrite, CheckEligible, InsertDelivery,
              PickUpWrite, ReopenWrite, CancelDeliveryCommit, DeliverCommit
<1>8. ASSUME NEW w \in Workers, Fail(w) PROVE business' = business
  BY <1>8 DEF Fail
<1>9. CASE UNCHANGED vars
  BY <1>9 DEF vars
<1> QED BY <1>1, <1>2, <1>3, <1>4, <1>5, <1>6, <1>7, <1>8, <1>9 DEF Next

THEOREM TypeInvariant == Spec => []TypeInv
BY InitTypeInv, NextTypeInv, PTL DEF Spec

(***************************************************************************)
(* Every row keeps its type; in particular a reservation never drives the  *)
(* stock of a product below zero (StockService.reserveStock).              *)
(***************************************************************************)
THEOREM TypeCorrect == Spec => []TypeOK
<1>1. Init => business \in BusinessStates
  BY DEF Init, BusinessStates
<1>2. business \in BusinessStates /\ [Next]_vars => (business \in BusinessStates)'
  BY BusinessTyped
<1>3. TypeInv /\ business \in BusinessStates => TypeOK
  BY DEF TypeInv, RowInv, ReqInv, TypeOK
<1> QED BY <1>1, <1>2, <1>3, TypeInvariant, PTL DEF Spec

---------------------------------------------------------------------------
(* How a request gets where it is *)

(***************************************************************************)
(* The step a request is at tells which action brought it there.           *)
(***************************************************************************)
EntersCheckout(w) ==
    \/ req'[w].pc = "loadCart" /\ \E k \in Keys, type \in FulfillmentTypes : CheckKey(w, k, type)
    \/ req'[w].pc = "reserve" /\ LoadCart(w)
    \/ req'[w].pc \in {"markPaid", "cancelUnpaid"} /\ SyncRead(w)

EntersPayment(w) ==
    \/ req'[w].pc = "readPayment" /\ \E o \in OrderIds : ConfirmRead(w, o)
    \/ req'[w].pc \in {"charge", "sync"} /\ ReadPayment(w)
    \/ req'[w].pc = "sync" /\ (Charge(w) \/ AckEvent(w))
    \/ /\ req'[w].pc = "apply"
       /\ \/ \E e \in Events, o \in OrderIds, s \in EventStatuses : ReceiveEvent(w, e, o, s)
          \/ \E e \in Events : RedeliverEvent(w, e)
    \/ req'[w].pc = "ack" /\ ApplyEvent(w)

EntersRefund(w) ==
    \/ /\ req'[w].pc = "cancel"
       /\ \E o \in OrderIds, actor \in {"customer", "business"} : CancelRead(w, o, actor)
    \/ /\ req'[w].pc = "refundCheck"
       /\ CancelCommit(w) \/ \E o \in OrderIds, amount \in 1..Amount : AdminRefund(w, o, amount)
    \/ req'[w].pc = "refundSum" /\ RefundCheck(w)
    \/ req'[w].pc = "refundWrite" /\ RefundSum(w)
    \/ req'[w].pc = "refundCommit" /\ RefundWrite(w)
    \/ req'[w].pc = "manualUpdate" /\ \E f \in Refunds : ManualRead(w, f)
    \/ req'[w].pc = "manualCommit" /\ ManualUpdate(w)

EntersFulfillment(w) ==
    \/ /\ req'[w].pc = "setStatus"
       /\ \E o \in OrderIds :
            ReadyRead(w, o) \/ \E target \in OrderStatuses : BusinessRead(w, o, target)
    \/ req'[w].pc = "eligible" /\ (BusinessWrite(w) \/ w = Sweeper)
    \/ req'[w].pc = "insertDelivery" /\ CheckEligible(w)
    \/ req'[w].pc = "pickUp" /\ \E o \in OrderIds : PickUpRead(w, o)
    \/ req'[w].pc = "reopen" /\ \E o \in OrderIds : ReopenRead(w, o)
    \/ req'[w].pc = "cancelDelivery" /\ \E o \in OrderIds : CancelDeliveryRead(w, o)
    \/ req'[w].pc = "complete" /\ \E o \in OrderIds : DeliverRead(w, o)

Enters(w) == EntersCheckout(w) \/ EntersPayment(w) \/ EntersRefund(w) \/ EntersFulfillment(w)

\* A step of worker w: it ends or enters another step, and no other worker moves.
OwnTask(w) ==
    /\ req'[w] = Idle \/ Enters(w)
    /\ \A v \in Workers : v # w => req'[v] = req[v]

LEMMA OthersStay ==
    ASSUME ReqInv, NEW w \in Workers, NEW t, req' = [req EXCEPT ![w] = t]
    PROVE  req'[w] = t /\ \A v \in Workers : v # w => req'[v] = req[v]
BY DEF ReqInv

LEMMA FinishOwn == ASSUME ReqInv, NEW w \in Workers, Finish(w) PROVE OwnTask(w)
BY OthersStay DEF Finish, OwnTask

\* A request goes on to another step.
LEMMA GoesOn ==
    ASSUME ReqInv, NEW w \in Workers, NEW pc, Continue(w, [req[w] EXCEPT !.pc = pc])
    PROVE  req'[w].pc = pc /\ \A v \in Workers : v # w => req'[v] = req[v]
<1>1. [req[w] EXCEPT !.pc = pc].pc = pc
  BY DEF ReqInv, Task
<1> QED BY <1>1, OthersStay DEF Continue

LEMMA CheckoutEnters ==
    ASSUME ReqInv, NEW w \in Workers, CheckoutStep(w)
    PROVE  OwnTask(w)
<1>t. req[w] \in Task
  BY DEF ReqInv
<1>1. ASSUME NEW k \in Keys, NEW type \in FulfillmentTypes, CheckKey(w, k, type)
      PROVE  OwnTask(w)
  <2>1. [Idle EXCEPT !.pc = "loadCart", !.key = k, !.type = type].pc = "loadCart"
    BY DEF Idle
  <2>2. req'[w].pc = "loadCart" /\ \A v \in Workers : v # w => req'[v] = req[v]
    BY <1>1, <2>1, OthersStay DEF CheckKey, Start
  <2> QED BY <1>1, <2>2 DEF OwnTask, Enters, EntersCheckout
<1>2. CASE LoadCart(w)
  <2>1. [req[w] EXCEPT !.pc = "reserve", !.cart = cart.id, !.lines = cart.lines].pc = "reserve"
    BY <1>t DEF Task
  <2>2. req'[w].pc = "reserve" /\ \A v \in Workers : v # w => req'[v] = req[v]
    BY <1>2, <2>1, OthersStay DEF LoadCart, Continue
  <2> QED BY <1>2, <2>2 DEF OwnTask, Enters, EntersCheckout
<1>3. CASE ReserveAndCreate(w)
  BY <1>3, FinishOwn DEF ReserveAndCreate
<1>4. CASE RejectCheckout(w)
  BY <1>4, FinishOwn DEF RejectCheckout
<1>5. CASE SyncRead(w)
  <2>1. ASSUME NEW pc \in {"markPaid", "cancelUnpaid"}, Continue(w, [req[w] EXCEPT !.pc = pc])
        PROVE  OwnTask(w)
    <3>1. req'[w].pc = pc /\ \A v \in Workers : v # w => req'[v] = req[v]
      BY <2>1, GoesOn
    <3> QED BY <1>5, <3>1 DEF OwnTask, Enters, EntersCheckout
  <2> QED BY <1>5, <2>1, FinishOwn DEF SyncRead
<1>6. CASE MarkPaid(w)
  BY <1>6, FinishOwn DEF MarkPaid
<1>7. CASE CancelUnpaid(w)
  BY <1>7, FinishOwn DEF CancelUnpaid
<1> QED BY <1>1, <1>2, <1>3, <1>4, <1>5, <1>6, <1>7 DEF CheckoutStep

LEMMA PaymentEnters ==
    ASSUME ReqInv, NEW w \in Workers, PaymentStep(w)
    PROVE  OwnTask(w)
<1>t. req[w] \in Task
  BY DEF ReqInv
<1>1. ASSUME NEW o \in OrderIds, ConfirmRead(w, o) PROVE OwnTask(w)
  <2>1. [Idle EXCEPT !.pc = "readPayment", !.order = o].pc = "readPayment"
    BY DEF Idle
  <2>2. req'[w].pc = "readPayment" /\ \A v \in Workers : v # w => req'[v] = req[v]
    BY <1>1, <2>1, OthersStay DEF ConfirmRead, Start
  <2> QED BY <1>1, <2>2 DEF OwnTask, Enters, EntersPayment
<1>2. CASE ReadPayment(w)
  <2>1. /\ [req[w] EXCEPT !.pc = "sync", !.paid = "PAID"].pc = "sync"
        /\ [req[w] EXCEPT !.pc = "charge"].pc = "charge"
    BY <1>t DEF Task
  <2>2. req'[w].pc \in {"charge", "sync"} /\ \A v \in Workers : v # w => req'[v] = req[v]
    BY <1>2, <2>1, OthersStay DEF ReadPayment, Continue
  <2> QED BY <1>2, <2>2 DEF OwnTask, Enters, EntersPayment
<1>3. CASE Charge(w)
  <2>1. PICK outcome : Continue(w, [req[w] EXCEPT !.pc = "sync", !.paid = outcome])
    BY <1>3 DEF Charge
  <2>2. [req[w] EXCEPT !.pc = "sync", !.paid = outcome].pc = "sync"
    BY <1>t DEF Task
  <2>3. req'[w].pc = "sync" /\ \A v \in Workers : v # w => req'[v] = req[v]
    BY <2>1, <2>2, OthersStay DEF Continue
  <2> QED BY <1>3, <2>3 DEF OwnTask, Enters, EntersPayment
<1>4. ASSUME NEW e \in Events, NEW o \in OrderIds, NEW s \in EventStatuses,
             ReceiveEvent(w, e, o, s)
      PROVE  OwnTask(w)
  <2>1. [Idle EXCEPT !.pc = "apply", !.order = o, !.paid = s, !.row = e].pc = "apply"
    BY DEF Idle
  <2>2. req'[w].pc = "apply" /\ \A v \in Workers : v # w => req'[v] = req[v]
    BY <1>4, <2>1, OthersStay DEF ReceiveEvent, Start
  <2> QED BY <1>4, <2>2 DEF OwnTask, Enters, EntersPayment
<1>5. ASSUME NEW e \in Events, RedeliverEvent(w, e) PROVE OwnTask(w)
  <2>1. [Idle EXCEPT !.pc = "apply", !.order = event[e].order, !.paid = event[e].status,
                     !.row = e].pc = "apply"
    BY DEF Idle
  <2>2. req'[w].pc = "apply" /\ \A v \in Workers : v # w => req'[v] = req[v]
    BY <1>5, <2>1, OthersStay DEF RedeliverEvent, Start
  <2> QED BY <1>5, <2>2 DEF OwnTask, Enters, EntersPayment
<1>6. CASE ApplyEvent(w)
  <2>1. req'[w].pc = "ack" /\ \A v \in Workers : v # w => req'[v] = req[v]
    BY <1>6, GoesOn DEF ApplyEvent
  <2> QED BY <1>6, <2>1 DEF OwnTask, Enters, EntersPayment
<1>7. CASE AckEvent(w)
  <2>1. req'[w].pc = "sync" /\ \A v \in Workers : v # w => req'[v] = req[v]
    BY <1>7, GoesOn DEF AckEvent
  <2> QED BY <1>7, <2>1 DEF OwnTask, Enters, EntersPayment
<1> QED BY <1>1, <1>2, <1>3, <1>4, <1>5, <1>6, <1>7 DEF PaymentStep

LEMMA RefundEnters ==
    ASSUME ReqInv, NEW w \in Workers, RefundStep(w)
    PROVE  OwnTask(w)
<1>t. req[w] \in Task
  BY DEF ReqInv
<1>1. ASSUME NEW o \in OrderIds, NEW actor \in {"customer", "business"}, CancelRead(w, o, actor)
      PROVE  OwnTask(w)
  <2>1. [Idle EXCEPT !.pc = "cancel", !.order = o, !.lines = order[o].lines,
                     !.paid = payment[o].status].pc = "cancel"
    BY DEF Idle
  <2>2. req'[w].pc = "cancel" /\ \A v \in Workers : v # w => req'[v] = req[v]
    BY <1>1, <2>1, OthersStay DEF CancelRead, Start
  <2> QED BY <1>1, <2>2 DEF OwnTask, Enters, EntersRefund
<1>2. CASE CancelCommit(w)
  <2>1. ASSUME Continue(w, [req[w] EXCEPT !.pc = "refundCheck", !.amount = Amount])
        PROVE  OwnTask(w)
    <3>1. [req[w] EXCEPT !.pc = "refundCheck", !.amount = Amount].pc = "refundCheck"
      BY <1>t DEF Task
    <3>2. req'[w].pc = "refundCheck" /\ \A v \in Workers : v # w => req'[v] = req[v]
      BY <2>1, <3>1, OthersStay DEF Continue
    <3> QED BY <1>2, <3>2 DEF OwnTask, Enters, EntersRefund
  <2> QED BY <1>2, <2>1, FinishOwn DEF CancelCommit
<1>3. ASSUME NEW o \in OrderIds, NEW amount \in 1..Amount, AdminRefund(w, o, amount)
      PROVE  OwnTask(w)
  <2>1. [Idle EXCEPT !.pc = "refundCheck", !.order = o, !.amount = amount].pc = "refundCheck"
    BY DEF Idle
  <2>2. req'[w].pc = "refundCheck" /\ \A v \in Workers : v # w => req'[v] = req[v]
    BY <1>3, <2>1, OthersStay DEF AdminRefund, Start
  <2> QED BY <1>3, <2>2 DEF OwnTask, Enters, EntersRefund
<1>4. CASE RefundCheck(w)
  <2>1. ASSUME Continue(w, [req[w] EXCEPT !.pc = "refundSum"]) PROVE OwnTask(w)
    <3>1. req'[w].pc = "refundSum" /\ \A v \in Workers : v # w => req'[v] = req[v]
      BY <2>1, GoesOn
    <3> QED BY <1>4, <3>1 DEF OwnTask, Enters, EntersRefund
  <2> QED BY <1>4, <2>1, FinishOwn DEF RefundCheck
<1>5. CASE RefundSum(w)
  <2>1. ASSUME Continue(w, [req[w] EXCEPT !.pc = "refundWrite"]) PROVE OwnTask(w)
    <3>1. req'[w].pc = "refundWrite" /\ \A v \in Workers : v # w => req'[v] = req[v]
      BY <2>1, GoesOn
    <3> QED BY <1>5, <3>1 DEF OwnTask, Enters, EntersRefund
  <2> QED BY <1>5, <2>1, FinishOwn DEF RefundSum
<1>6. CASE RefundWrite(w)
  <2>1. [req[w] EXCEPT !.pc = "refundCommit",
                       !.sum = SumWithOwn(req[w].order, req[w].amount)].pc = "refundCommit"
    BY <1>t DEF Task
  <2>2. req'[w].pc = "refundCommit" /\ \A v \in Workers : v # w => req'[v] = req[v]
    BY <1>6, <2>1, OthersStay DEF RefundWrite, Continue
  <2> QED BY <1>6, <2>2 DEF OwnTask, Enters, EntersRefund
<1>7. CASE RefundCommit(w)
  BY <1>7, FinishOwn DEF RefundCommit
<1>8. ASSUME NEW f \in Refunds, ManualRead(w, f) PROVE OwnTask(w)
  <2>1. [Idle EXCEPT !.pc = "manualUpdate", !.row = f, !.order = refund[f].order,
                     !.amount = refund[f].amount].pc = "manualUpdate"
    BY DEF Idle
  <2>2. req'[w].pc = "manualUpdate" /\ \A v \in Workers : v # w => req'[v] = req[v]
    BY <1>8, <2>1, OthersStay DEF ManualRead, Start
  <2> QED BY <1>8, <2>2 DEF OwnTask, Enters, EntersRefund
<1>9. CASE ManualUpdate(w)
  <2>1. PICK n : Continue(w, [req[w] EXCEPT !.pc = "manualCommit", !.sum = n])
    BY <1>9 DEF ManualUpdate
  <2>2. [req[w] EXCEPT !.pc = "manualCommit", !.sum = n].pc = "manualCommit"
    BY <1>t DEF Task
  <2>3. req'[w].pc = "manualCommit" /\ \A v \in Workers : v # w => req'[v] = req[v]
    BY <2>1, <2>2, OthersStay DEF Continue
  <2> QED BY <1>9, <2>3 DEF OwnTask, Enters, EntersRefund
<1>10. CASE ManualCommit(w)
  BY <1>10, FinishOwn DEF ManualCommit
<1> QED BY <1>1, <1>2, <1>3, <1>4, <1>5, <1>6, <1>7, <1>8, <1>9, <1>10 DEF RefundStep

LEMMA FulfillmentEnters ==
    ASSUME ReqInv, NEW w \in Workers, FulfillmentStep(w)
    PROVE  OwnTask(w)
<1>t. req[w] \in Task
  BY DEF ReqInv
<1>1. ASSUME NEW o \in OrderIds,
             ReadyRead(w, o) \/ \E target \in OrderStatuses : BusinessRead(w, o, target)
      PROVE  OwnTask(w)
  <2>1. ASSUME NEW s, Start(w, [Idle EXCEPT !.pc = "setStatus", !.order = o,
                                            !.seen = order[o].status, !.target = s])
        PROVE  req'[w].pc = "setStatus" /\ \A v \in Workers : v # w => req'[v] = req[v]
    <3>1. [Idle EXCEPT !.pc = "setStatus", !.order = o, !.seen = order[o].status,
                       !.target = s].pc = "setStatus"
      BY DEF Idle
    <3> QED BY <2>1, <3>1, OthersStay DEF Start
  <2>2. req'[w].pc = "setStatus" /\ \A v \in Workers : v # w => req'[v] = req[v]
    BY <1>1, <2>1 DEF ReadyRead, BusinessRead
  <2> QED BY <1>1, <2>2 DEF OwnTask, Enters, EntersFulfillment
<1>2. CASE BusinessWrite(w)
  <2>1. ASSUME NEW o, Continue(w, [Idle EXCEPT !.pc = "eligible", !.order = o])
        PROVE  OwnTask(w)
    <3>1. [Idle EXCEPT !.pc = "eligible", !.order = o].pc = "eligible"
      BY DEF Idle
    <3>2. req'[w].pc = "eligible" /\ \A v \in Workers : v # w => req'[v] = req[v]
      BY <2>1, <3>1, OthersStay DEF Continue
    <3> QED BY <1>2, <3>2 DEF OwnTask, Enters, EntersFulfillment
  <2> QED BY <1>2, <2>1, FinishOwn DEF BusinessWrite
<1>3. CASE CheckEligible(w)
  <2>1. ASSUME Continue(w, [req[w] EXCEPT !.pc = "insertDelivery"]) PROVE OwnTask(w)
    <3>1. req'[w].pc = "insertDelivery" /\ \A v \in Workers : v # w => req'[v] = req[v]
      BY <2>1, GoesOn
    <3> QED BY <1>3, <3>1 DEF OwnTask, Enters, EntersFulfillment
  <2> QED BY <1>3, <2>1, FinishOwn DEF CheckEligible
<1>4. CASE \/ InsertDelivery(w) \/ PickUpWrite(w) \/ ReopenWrite(w)
           \/ CancelDeliveryCommit(w) \/ DeliverCommit(w)
  BY <1>4, FinishOwn DEF InsertDelivery, PickUpWrite, ReopenWrite, CancelDeliveryCommit,
                         DeliverCommit
<1>7. ASSUME NEW o \in OrderIds, DeliverRead(w, o) PROVE OwnTask(w)
  <2>1. [Idle EXCEPT !.pc = "complete", !.order = o, !.seen = order[o].status].pc = "complete"
    BY DEF Idle
  <2>2. req'[w].pc = "complete" /\ \A v \in Workers : v # w => req'[v] = req[v]
    BY <1>7, <2>1, OthersStay DEF DeliverRead, Start
  <2> QED BY <1>7, <2>2 DEF OwnTask, Enters, EntersFulfillment
<1>5. ASSUME NEW o \in OrderIds, PickUpRead(w, o) \/ ReopenRead(w, o) \/ CancelDeliveryRead(w, o)
      PROVE  OwnTask(w)
  <2>1. ASSUME NEW pc, Start(w, [Idle EXCEPT !.pc = pc, !.order = o])
        PROVE  req'[w].pc = pc /\ \A v \in Workers : v # w => req'[v] = req[v]
    <3>1. [Idle EXCEPT !.pc = pc, !.order = o].pc = pc
      BY DEF Idle
    <3> QED BY <2>1, <3>1, OthersStay DEF Start
  <2>2. CASE PickUpRead(w, o)
    BY <1>5, <2>1, <2>2 DEF PickUpRead, OwnTask, Enters, EntersFulfillment
  <2>3. CASE ReopenRead(w, o)
    BY <1>5, <2>1, <2>3 DEF ReopenRead, OwnTask, Enters, EntersFulfillment
  <2>4. CASE CancelDeliveryRead(w, o)
    BY <1>5, <2>1, <2>4 DEF CancelDeliveryRead, OwnTask, Enters, EntersFulfillment
  <2> QED BY <1>5, <2>2, <2>3, <2>4
<1>6. \/ \E o \in OrderIds :
            ReadyRead(w, o) \/ \E target \in OrderStatuses : BusinessRead(w, o, target)
      \/ \E o \in OrderIds : PickUpRead(w, o) \/ ReopenRead(w, o) \/ CancelDeliveryRead(w, o)
      \/ \E o \in OrderIds : DeliverRead(w, o)
      \/ BusinessWrite(w) \/ CheckEligible(w)
      \/ InsertDelivery(w) \/ PickUpWrite(w) \/ ReopenWrite(w)
      \/ CancelDeliveryCommit(w) \/ DeliverCommit(w)
  BY DEF FulfillmentStep
<1> QED BY <1>1, <1>2, <1>3, <1>4, <1>5, <1>6, <1>7

LEMMA SweeperEnters == ASSUME ReqInv, SweeperStep PROVE OwnTask(Sweeper)
<1>w. Sweeper \in Workers
  BY DEF Workers
<1>1. ASSUME NEW o \in OrderIds, SweepOrphan(o) PROVE OwnTask(Sweeper)
  <2>1. [Idle EXCEPT !.pc = "eligible", !.order = o].pc = "eligible"
    BY DEF Idle
  <2>2. req'[Sweeper].pc = "eligible" /\ \A v \in Workers : v # Sweeper => req'[v] = req[v]
    BY <1>w, <1>1, <2>1, OthersStay DEF SweepOrphan, Start
  <2> QED BY <2>2 DEF OwnTask, Enters, EntersFulfillment
<1> QED BY <1>w, <1>1, FulfillmentEnters DEF SweeperStep, FulfillmentStep

LEMMA RequestEnters ==
    ASSUME ReqInv, NEW w \in Requests,
           CheckoutStep(w) \/ PaymentStep(w) \/ RefundStep(w) \/ FulfillmentStep(w)
    PROVE  OwnTask(w)
BY CheckoutEnters, PaymentEnters, RefundEnters, FulfillmentEnters DEF Workers

(***************************************************************************)
(* So after any step of the system a worker has the task it had, has       *)
(* ended, or has just entered the step it is at.                           *)
(***************************************************************************)
LEMMA TaskHistory ==
    ASSUME ReqInv, [Next]_vars, NEW v \in Workers
    PROVE  req'[v] = req[v] \/ req'[v] = Idle \/ Enters(v)
<1>1. CASE CartStep
  BY <1>1 DEF CartStep, ClearCart, AddItem, RemoveItem
<1>2. CASE BusinessStep
  BY <1>2 DEF BusinessStep
<1>3. CASE SweeperStep
  BY <1>3, SweeperEnters DEF OwnTask
<1>4. ASSUME NEW w \in Requests,
             CheckoutStep(w) \/ PaymentStep(w) \/ RefundStep(w) \/ FulfillmentStep(w)
      PROVE  req'[v] = req[v] \/ req'[v] = Idle \/ Enters(v)
  BY <1>4, RequestEnters DEF OwnTask
<1>5. ASSUME NEW w \in Workers, Fail(w)
      PROVE  req'[v] = req[v] \/ req'[v] = Idle \/ Enters(v)
  BY <1>5, FinishOwn DEF Fail, OwnTask
<1>6. CASE UNCHANGED vars
  BY <1>6 DEF vars
<1> QED BY <1>1, <1>2, <1>3, <1>4, <1>5, <1>6 DEF Next

---------------------------------------------------------------------------
(***************************************************************************)
(* Safety: no unit of stock is lost, and orders only move forward along    *)
(* the transition map, however many requests and failures interleave.      *)
(*                                                                         *)
(* The argument: what a request remembers of the order it works on may be  *)
(* stale, except for two things that never change again: that the order    *)
(* exists, and its lines (TaskFacts).  With that much known, every step    *)
(* does to the orders and to the stock one of four things (OrderChange),   *)
(* and both properties follow from the four.                               *)
(***************************************************************************)

Exists(row) == row.status # None

\* What a task knows for certain of the orders (rows is the Order table).
TaskFacts(t, rows) ==
    /\ t.pc \notin BeforeOrder => Exists(rows[t.order])
    /\ t.pc = "cancel" => t.lines = rows[t.order].lines
    /\ t.pc = "setStatus" => t.target \in BusinessSettable /\ CanTransition(t.seen, t.target)

(***************************************************************************)
(* What belongs to an order exists only after it.                          *)
(***************************************************************************)
RowFacts ==
    /\ \A o \in OrderIds : payment[o].status # None => Exists(order[o])
    /\ \A o \in OrderIds : delivery[o] # None => Exists(order[o])
    /\ \A e \in Events : event[e].status # None => Exists(order[event[e].order])
    /\ \A f \in Refunds : refund[f].status = "PENDING" => Exists(order[refund[f].order])

(***************************************************************************)
(* Who completes a delivery holds its row: nobody else completes it, and   *)
(* it stays on the road until then.                                        *)
(***************************************************************************)
LockFacts ==
    \A w \in Workers :
        At(w, "complete") =>
            /\ delivery[req[w].order] = "ON_ROAD"
            /\ \A v \in Workers :
                    At(v, "complete") /\ req[v].order = req[w].order => v = w

FactsInv ==
    /\ TypeInv
    /\ RowFacts
    /\ LockFacts
    /\ \A w \in Workers : TaskFacts(req[w], order)

---------------------------------------------------------------------------
(* The four things a step can do to the orders and the stock *)

Untouched == order' = order /\ stock' = stock

Placed ==
    \E o \in OrderIds, lines \in SUBSET Products, type \in FulfillmentTypes :
        /\ ~Exists(order[o])
        /\ order' = [order EXCEPT ![o] =
                        [status |-> "PAYMENT_PENDING", type |-> type, lines |-> lines]]
        /\ stock' = StockReserved(lines)
        /\ InStock(lines)

Moved ==
    \E o \in OrderIds, s \in OrderStatuses :
        /\ Exists(order[o])
        /\ \/ s = "PAID"
           \/ CanTransition(order[o].status, s)
           \/ s = "COMPLETED" /\ Delivered(o)
        /\ s # "CANCELLED"
        /\ order' = [order EXCEPT ![o].status = s]
        /\ stock' = stock

Cancelled ==
    \E o \in OrderIds :
        /\ Exists(order[o])
        /\ order' = [order EXCEPT ![o].status = "CANCELLED"]
        /\ stock' = StockReleased(order[o].lines)

OrderChange == Untouched \/ Placed \/ Moved \/ Cancelled

---------------------------------------------------------------------------

LEMMA CheckoutStepChange ==
    ASSUME FactsInv, NEW w \in Workers, CheckoutStep(w)
    PROVE  OrderChange
<1>t. WellFormed(req[w]) /\ TaskFacts(req[w], order)
  BY DEF FactsInv, TypeInv, ReqInv
<1>1. ASSUME NEW k \in Keys, NEW type \in FulfillmentTypes, CheckKey(w, k, type)
      PROVE  OrderChange
  BY <1>1 DEF CheckKey, OrderChange, Untouched
<1>2. CASE LoadCart(w)
  BY <1>2 DEF LoadCart, OrderChange, Untouched
<1>3. CASE ReserveAndCreate(w)
  <2>1. req[w].type \in FulfillmentTypes /\ req[w].lines \in SUBSET Products
    BY <1>t, <1>3 DEF ReserveAndCreate, At, WellFormed, Task
  <2>2. Placed
    BY <1>3, <2>1 DEF ReserveAndCreate, Placed, Exists
  <2> QED BY <2>2 DEF OrderChange
<1>4. CASE RejectCheckout(w)
  BY <1>4 DEF RejectCheckout, OrderChange, Untouched
<1>5. CASE SyncRead(w)
  BY <1>5 DEF SyncRead, OrderChange, Untouched
<1>6. CASE MarkPaid(w)
  <2>1. req[w].order \in OrderIds /\ Exists(order[req[w].order])
    BY <1>t, <1>6 DEF MarkPaid, At, WellFormed, TaskFacts, BeforeOrder
  <2>2. Moved
    BY <1>6, <2>1 DEF MarkPaid, SetStatus, Moved, OrderStatuses
  <2> QED BY <2>2 DEF OrderChange
<1>7. CASE CancelUnpaid(w)
  <2>1. req[w].order \in OrderIds /\ Exists(order[req[w].order])
    BY <1>t, <1>7 DEF CancelUnpaid, At, WellFormed, TaskFacts, BeforeOrder
  <2>2. Cancelled
    BY <1>7, <2>1 DEF CancelUnpaid, SetStatus, Cancelled
  <2> QED BY <2>2 DEF OrderChange
<1> QED BY <1>1, <1>2, <1>3, <1>4, <1>5, <1>6, <1>7 DEF CheckoutStep

LEMMA PaymentStepChange ==
    ASSUME NEW w \in Workers, PaymentStep(w)
    PROVE  OrderChange
BY DEF PaymentStep, ConfirmRead, ReadPayment, Charge, ReceiveEvent, RedeliverEvent, ApplyEvent,
       AckEvent, OrderChange, Untouched

LEMMA RefundStepChange ==
    ASSUME FactsInv, NEW w \in Workers, RefundStep(w)
    PROVE  OrderChange
<1>1. CASE CancelCommit(w)
  <2>1. WellFormed(req[w]) /\ TaskFacts(req[w], order)
    BY DEF FactsInv, TypeInv, ReqInv
  <2>2. /\ req[w].order \in OrderIds /\ Exists(order[req[w].order])
        /\ req[w].lines = order[req[w].order].lines
    BY <1>1, <2>1 DEF CancelCommit, At, WellFormed, TaskFacts, BeforeOrder
  <2>3. Cancelled
    BY <1>1, <2>2 DEF CancelCommit, SetStatus, Cancelled
  <2> QED BY <2>3 DEF OrderChange
<1>2. CASE ~CancelCommit(w)
  BY <1>2 DEF RefundStep, CancelRead, AdminRefund, RefundCheck, RefundSum, RefundWrite,
              RefundCommit, ManualRead, ManualUpdate, ManualCommit, OrderChange, Untouched
<1> QED BY <1>1, <1>2

LEMMA FulfillmentStepChange ==
    ASSUME FactsInv, NEW w \in Workers, FulfillmentStep(w)
    PROVE  OrderChange
<1>1. CASE BusinessWrite(w)
  <2>1. WellFormed(req[w]) /\ TaskFacts(req[w], order)
    BY DEF FactsInv, TypeInv, ReqInv
  <2>2. /\ req[w].order \in OrderIds /\ Exists(order[req[w].order])
        /\ req[w].target \in BusinessSettable /\ CanTransition(req[w].seen, req[w].target)
    BY <1>1, <2>1 DEF BusinessWrite, At, WellFormed, TaskFacts, BeforeOrder
  <2>3. CASE StillAsRead(req[w])
    <3>1. order' = [order EXCEPT ![req[w].order].status = req[w].target] /\ stock' = stock
      BY <1>1, <2>3 DEF BusinessWrite, SetStatus
    <3>2. req[w].target \in OrderStatuses /\ req[w].target # "CANCELLED"
      BY <2>2 DEF BusinessSettable, OrderStatuses
    <3>3. CanTransition(order[req[w].order].status, req[w].target)
      BY <2>2, <2>3 DEF StillAsRead
    <3>4. Moved
      BY <2>2, <3>1, <3>2, <3>3 DEF Moved
    <3> QED BY <3>4 DEF OrderChange
  <2>4. CASE ~StillAsRead(req[w])
    BY <1>1, <2>4 DEF BusinessWrite, OrderChange, Untouched
  <2> QED BY <2>3, <2>4
<1>2. CASE DeliverCommit(w)
  <2> DEFINE o == req[w].order
  <2>1. /\ o \in OrderIds /\ Exists(order[o])
        /\ delivery \in [OrderIds -> DeliveryStatuses \cup {None}]
    BY <1>2 DEF FactsInv, TypeInv, RowInv, ReqInv, DeliverCommit, At, WellFormed, TaskFacts,
                BeforeOrder
  <2>2. delivery[o] = "ON_ROAD"
    BY <1>2 DEF FactsInv, LockFacts, DeliverCommit
  <2>3. Delivered(o)
    BY <1>2, <2>1, <2>2 DEF DeliverCommit, Delivered
  <2>4. /\ stock' = stock
        /\ \/ order' = order
           \/ order' = [order EXCEPT ![o].status = "COMPLETED"]
    BY <1>2 DEF DeliverCommit, SetStatus
  <2> HIDE DEF o
  <2>5. Untouched \/ Moved
    BY <2>1, <2>3, <2>4 DEF Untouched, Moved, OrderStatuses
  <2> QED BY <2>5 DEF OrderChange
<1>3. CASE ~BusinessWrite(w) /\ ~DeliverCommit(w)
  BY <1>3 DEF FulfillmentStep, BusinessRead, ReadyRead, PickUpRead, ReopenRead,
              CancelDeliveryRead, DeliverRead, CheckEligible, InsertDelivery, PickUpWrite,
              ReopenWrite, CancelDeliveryCommit, OrderChange, Untouched
<1> QED BY <1>1, <1>2, <1>3

(***************************************************************************)
(* However requests interleave and fail, a step leaves the orders and the  *)
(* stock alone, places an order with its units, moves one order, or        *)
(* cancels one and gives its own units back.                               *)
(***************************************************************************)
LEMMA StepChange == ASSUME FactsInv, [Next]_vars PROVE OrderChange
<1>1. CASE CartStep
  BY <1>1 DEF CartStep, ClearCart, AddItem, RemoveItem, OrderChange, Untouched
<1>2. CASE SweeperStep
  BY <1>2 DEF SweeperStep, SweepOrphan, CheckEligible, InsertDelivery, OrderChange, Untouched
<1>3. ASSUME NEW w \in Requests,
             CheckoutStep(w) \/ PaymentStep(w) \/ RefundStep(w) \/ FulfillmentStep(w)
      PROVE  OrderChange
  BY <1>3, CheckoutStepChange, PaymentStepChange, RefundStepChange, FulfillmentStepChange
  DEF Workers
<1>4. ASSUME NEW w \in Workers, Fail(w) PROVE OrderChange
  BY <1>4 DEF Fail, OrderChange, Untouched
<1>5. CASE BusinessStep \/ UNCHANGED vars
  BY <1>5 DEF BusinessStep, vars, OrderChange, Untouched
<1> QED BY <1>1, <1>2, <1>3, <1>4, <1>5 DEF Next

---------------------------------------------------------------------------
(* What is known for certain stays so *)

\* Orders do not vanish, and their lines do not change.
RowsKept(old, new) ==
    \A o \in OrderIds :
        Exists(old[o]) => Exists(new[o]) /\ new[o].lines = old[o].lines

LEMMA ChangeKeepsRows == ASSUME TypeInv, OrderChange PROVE RowsKept(order, order')
<1>0. order \in [OrderIds -> OrderRow]
  BY DEF TypeInv, RowInv
<1>1. CASE Untouched
  BY <1>1 DEF Untouched, RowsKept
<1>2. CASE Placed
  BY <1>0, <1>2 DEF Placed, RowsKept
<1>3. CASE Moved
  BY <1>0, <1>3 DEF Moved, RowsKept, Exists, OrderRow, OrderStatuses, None
<1>4. CASE Cancelled
  BY <1>0, <1>4 DEF Cancelled, RowsKept, Exists, OrderRow, None
<1> QED BY <1>1, <1>2, <1>3, <1>4 DEF OrderChange

LEMMA FactsKept ==
    ASSUME NEW t, NEW old, NEW new, WellFormed(t), TaskFacts(t, old), RowsKept(old, new)
    PROVE  TaskFacts(t, new)
BY DEF WellFormed, TaskFacts, RowsKept, BeforeOrder

\* A request that goes on with its order knows no less than before.
LEMMA ContinueFacts ==
    ASSUME NEW t \in Task, NEW rows, TaskFacts(t, rows), t.pc \notin BeforeOrder,
           NEW pc, pc \notin {"cancel", "setStatus"}, NEW n
    PROVE  /\ TaskFacts([t EXCEPT !.pc = pc], rows)
           /\ TaskFacts([t EXCEPT !.pc = pc, !.paid = n], rows)
           /\ TaskFacts([t EXCEPT !.pc = pc, !.amount = n], rows)
           /\ TaskFacts([t EXCEPT !.pc = pc, !.sum = n], rows)
<1> DEFINE Same(u) == u.pc = pc /\ u.order = t.order
<1>1. Same([t EXCEPT !.pc = pc])
  BY DEF Task
<1>2. Same([t EXCEPT !.pc = pc, !.paid = n])
  BY DEF Task
<1>3. Same([t EXCEPT !.pc = pc, !.amount = n])
  BY DEF Task
<1>4. Same([t EXCEPT !.pc = pc, !.sum = n])
  BY DEF Task
<1>5. \A u : Same(u) => TaskFacts(u, rows)
  BY DEF TaskFacts
<1> HIDE DEF Same
<1> QED BY <1>1, <1>2, <1>3, <1>4, <1>5

LEMMA IdleFacts == ASSUME NEW rows PROVE TaskFacts(Idle, rows)
BY DEF TaskFacts, Idle, BeforeOrder

(***************************************************************************)
(* Whatever task a worker has after a step, it holds of the orders as they *)
(* were before it.                                                         *)
(***************************************************************************)
TasksKnown == \A v \in Workers : TaskFacts(req'[v], order)

LEMMA OneTaskChanges ==
    ASSUME FactsInv, NEW w \in Workers, NEW u, TaskFacts(u, order),
           req' = [req EXCEPT ![w] = u]
    PROVE  TasksKnown
BY DEF TasksKnown, FactsInv, TypeInv, ReqInv

LEMMA FinishKnown == ASSUME FactsInv, NEW w \in Workers, Finish(w) PROVE TasksKnown
BY IdleFacts, OneTaskChanges DEF Finish

LEMMA CheckoutTasksKnown ==
    ASSUME FactsInv, NEW w \in Workers, CheckoutStep(w)
    PROVE  TasksKnown
<1>t. req[w] \in Task /\ TaskFacts(req[w], order)
  BY DEF FactsInv, TypeInv, ReqInv
<1>1. ASSUME NEW k \in Keys, NEW type \in FulfillmentTypes, CheckKey(w, k, type)
      PROVE  TasksKnown
  <2>1. TaskFacts([Idle EXCEPT !.pc = "loadCart", !.key = k, !.type = type], order)
    BY DEF TaskFacts, BeforeOrder, Idle
  <2> QED BY <1>1, <2>1, OneTaskChanges DEF CheckKey, Start
<1>2. CASE LoadCart(w)
  <2>1. TaskFacts([req[w] EXCEPT !.pc = "reserve", !.cart = cart.id, !.lines = cart.lines], order)
    BY <1>t DEF TaskFacts, BeforeOrder, Task
  <2> QED BY <1>2, <2>1, OneTaskChanges DEF LoadCart, Continue
<1>3. CASE ReserveAndCreate(w)
  BY <1>3, FinishKnown DEF ReserveAndCreate
<1>4. CASE RejectCheckout(w)
  BY <1>4, FinishKnown DEF RejectCheckout
<1>5. CASE SyncRead(w)
  <2>1. ASSUME NEW pc \in {"markPaid", "cancelUnpaid"}
        PROVE  TaskFacts([req[w] EXCEPT !.pc = pc], order)
    BY <1>t, <1>5, ContinueFacts DEF SyncRead, At, BeforeOrder
  <2> QED BY <1>5, <2>1, OneTaskChanges, FinishKnown DEF SyncRead, Continue
<1>6. CASE MarkPaid(w)
  BY <1>6, FinishKnown DEF MarkPaid
<1>7. CASE CancelUnpaid(w)
  BY <1>7, FinishKnown DEF CancelUnpaid
<1> QED BY <1>1, <1>2, <1>3, <1>4, <1>5, <1>6, <1>7 DEF CheckoutStep

LEMMA PaymentTasksKnown ==
    ASSUME FactsInv, NEW w \in Workers, PaymentStep(w)
    PROVE  TasksKnown
<1>t. req[w] \in Task /\ TaskFacts(req[w], order)
  BY DEF FactsInv, TypeInv, ReqInv
<1>r. RowFacts
  BY DEF FactsInv
<1>1. ASSUME NEW o \in OrderIds, ConfirmRead(w, o) PROVE TasksKnown
  <2>1. Exists(order[o])
    BY <1>r, <1>1 DEF RowFacts, ConfirmRead
  <2>2. TaskFacts([Idle EXCEPT !.pc = "readPayment", !.order = o], order)
    BY <2>1 DEF TaskFacts, Idle
  <2> QED BY <1>1, <2>2, OneTaskChanges DEF ConfirmRead, Start
<1>2. CASE ReadPayment(w)
  <2>1. TaskFacts([req[w] EXCEPT !.pc = "sync", !.paid = "PAID"], order)
    BY <1>t, <1>2, ContinueFacts DEF ReadPayment, At, BeforeOrder
  <2>2. TaskFacts([req[w] EXCEPT !.pc = "charge"], order)
    BY <1>t, <1>2, ContinueFacts DEF ReadPayment, At, BeforeOrder
  <2> QED BY <1>2, <2>1, <2>2, OneTaskChanges DEF ReadPayment, Continue
<1>3. CASE Charge(w)
  <2>1. PICK outcome : req' = [req EXCEPT ![w] = [req[w] EXCEPT !.pc = "sync", !.paid = outcome]]
    BY <1>3 DEF Charge, Continue
  <2>2. TaskFacts([req[w] EXCEPT !.pc = "sync", !.paid = outcome], order)
    BY <1>t, <1>3, ContinueFacts DEF Charge, At, BeforeOrder
  <2> QED BY <2>1, <2>2, OneTaskChanges
<1>4. ASSUME NEW e \in Events, NEW o \in OrderIds, NEW s \in EventStatuses,
             ReceiveEvent(w, e, o, s)
      PROVE  TasksKnown
  <2>1. Exists(order[o])
    BY <1>r, <1>4 DEF RowFacts, ReceiveEvent
  <2>2. TaskFacts([Idle EXCEPT !.pc = "apply", !.order = o, !.paid = s, !.row = e], order)
    BY <2>1 DEF TaskFacts, Idle
  <2> QED BY <1>4, <2>2, OneTaskChanges DEF ReceiveEvent, Start
<1>5. ASSUME NEW e \in Events, RedeliverEvent(w, e) PROVE TasksKnown
  <2>1. Exists(order[event[e].order])
    BY <1>r, <1>5 DEF RowFacts, RedeliverEvent
  <2>2. TaskFacts([Idle EXCEPT !.pc = "apply", !.order = event[e].order,
                               !.paid = event[e].status, !.row = e], order)
    BY <2>1 DEF TaskFacts, Idle
  <2> QED BY <1>5, <2>2, OneTaskChanges DEF RedeliverEvent, Start
<1>6. CASE ApplyEvent(w)
  <2>1. TaskFacts([req[w] EXCEPT !.pc = "ack"], order)
    BY <1>t, <1>6, ContinueFacts DEF ApplyEvent, At, BeforeOrder
  <2> QED BY <1>6, <2>1, OneTaskChanges DEF ApplyEvent, Continue
<1>7. CASE AckEvent(w)
  <2>1. TaskFacts([req[w] EXCEPT !.pc = "sync"], order)
    BY <1>t, <1>7, ContinueFacts DEF AckEvent, At, BeforeOrder
  <2> QED BY <1>7, <2>1, OneTaskChanges DEF AckEvent, Continue
<1> QED BY <1>1, <1>2, <1>3, <1>4, <1>5, <1>6, <1>7 DEF PaymentStep

LEMMA RefundTasksKnown ==
    ASSUME FactsInv, NEW w \in Workers, RefundStep(w)
    PROVE  TasksKnown
<1>t. req[w] \in Task /\ TaskFacts(req[w], order)
  BY DEF FactsInv, TypeInv, ReqInv
<1>r. RowFacts
  BY DEF FactsInv
<1>1. ASSUME NEW o \in OrderIds, NEW actor, CancelRead(w, o, actor) PROVE TasksKnown
  <2>1. Exists(order[o])
    BY <1>1 DEF CancelRead, Exists
  <2>2. TaskFacts([Idle EXCEPT !.pc = "cancel", !.order = o, !.lines = order[o].lines,
                               !.paid = payment[o].status], order)
    BY <2>1 DEF TaskFacts, Idle
  <2> QED BY <1>1, <2>2, OneTaskChanges DEF CancelRead, Start
<1>2. CASE CancelCommit(w)
  <2>1. TaskFacts([req[w] EXCEPT !.pc = "refundCheck", !.amount = Amount], order)
    BY <1>t, <1>2, ContinueFacts DEF CancelCommit, At, BeforeOrder
  <2> QED BY <1>2, <2>1, OneTaskChanges, FinishKnown DEF CancelCommit, Continue
<1>3. ASSUME NEW o \in OrderIds, NEW amount \in 1..Amount, AdminRefund(w, o, amount)
      PROVE  TasksKnown
  <2>1. Exists(order[o])
    BY <1>r, <1>3 DEF RowFacts, AdminRefund
  <2>2. TaskFacts([Idle EXCEPT !.pc = "refundCheck", !.order = o, !.amount = amount], order)
    BY <2>1 DEF TaskFacts, Idle
  <2> QED BY <1>3, <2>2, OneTaskChanges DEF AdminRefund, Start
<1>4. CASE RefundCheck(w)
  <2>1. TaskFacts([req[w] EXCEPT !.pc = "refundSum"], order)
    BY <1>t, <1>4, ContinueFacts DEF RefundCheck, At, BeforeOrder
  <2> QED BY <1>4, <2>1, OneTaskChanges, FinishKnown DEF RefundCheck, Continue
<1>5. CASE RefundSum(w)
  <2>1. TaskFacts([req[w] EXCEPT !.pc = "refundWrite"], order)
    BY <1>t, <1>5, ContinueFacts DEF RefundSum, At, BeforeOrder
  <2> QED BY SMTT(30), <1>5, <2>1, OneTaskChanges, FinishKnown DEF RefundSum, Continue
<1>6. CASE RefundWrite(w)
  <2>1. TaskFacts([req[w] EXCEPT !.pc = "refundCommit",
                                 !.sum = SumWithOwn(req[w].order, req[w].amount)], order)
    BY <1>t, <1>6, ContinueFacts DEF RefundWrite, At, BeforeOrder
  <2> QED BY <1>6, <2>1, OneTaskChanges DEF RefundWrite, Continue
<1>7. CASE RefundCommit(w)
  BY <1>7, FinishKnown DEF RefundCommit
<1>8. ASSUME NEW f \in Refunds, ManualRead(w, f) PROVE TasksKnown
  <2>1. Exists(order[refund[f].order])
    BY <1>r, <1>8 DEF RowFacts, ManualRead
  <2>2. TaskFacts([Idle EXCEPT !.pc = "manualUpdate", !.row = f, !.order = refund[f].order,
                               !.amount = refund[f].amount], order)
    BY <2>1 DEF TaskFacts, Idle
  <2> QED BY <1>8, <2>2, OneTaskChanges DEF ManualRead, Start
<1>9. CASE ManualUpdate(w)
  <2>1. PICK n : req' = [req EXCEPT ![w] = [req[w] EXCEPT !.pc = "manualCommit", !.sum = n]]
    BY <1>9 DEF ManualUpdate, Continue
  <2>2. TaskFacts([req[w] EXCEPT !.pc = "manualCommit", !.sum = n], order)
    BY <1>t, <1>9, ContinueFacts DEF ManualUpdate, At, BeforeOrder
  <2> QED BY <2>1, <2>2, OneTaskChanges
<1>10. CASE ManualCommit(w)
  BY <1>10, FinishKnown DEF ManualCommit
<1> QED BY <1>1, <1>2, <1>3, <1>4, <1>5, <1>6, <1>7, <1>8, <1>9, <1>10 DEF RefundStep

LEMMA FulfillmentTasksKnown ==
    ASSUME FactsInv, NEW w \in Workers, FulfillmentStep(w)
    PROVE  TasksKnown
<1>t. req[w] \in Task /\ TaskFacts(req[w], order)
  BY DEF FactsInv, TypeInv, ReqInv
<1>r. RowFacts
  BY DEF FactsInv
<1>1. ASSUME NEW o \in OrderIds, NEW target \in OrderStatuses, BusinessRead(w, o, target)
      PROVE  TasksKnown
  <2>1. /\ Exists(order[o]) /\ CanTransition(order[o].status, target)
        /\ target \in BusinessSettable
    BY <1>1 DEF BusinessRead, BusinessMaySet, CanTransition, Exists, OrderStatuses, None
  <2>2. TaskFacts([Idle EXCEPT !.pc = "setStatus", !.order = o, !.seen = order[o].status,
                               !.target = target], order)
    BY <2>1 DEF TaskFacts, Idle
  <2> QED BY <1>1, <2>2, OneTaskChanges DEF BusinessRead, Start
<1>2. ASSUME NEW o \in OrderIds, ReadyRead(w, o) PROVE TasksKnown
  <2>1. /\ Exists(order[o]) /\ CanTransition(order[o].status, "READY_FOR_PICKUP")
        /\ "READY_FOR_PICKUP" \in BusinessSettable
    BY <1>2 DEF ReadyRead, BusinessSettable, CanTransition, Exists, OrderStatuses, None
  <2>2. TaskFacts([Idle EXCEPT !.pc = "setStatus", !.order = o, !.seen = order[o].status,
                               !.target = "READY_FOR_PICKUP"], order)
    BY <2>1 DEF TaskFacts, Idle
  <2> QED BY <1>2, <2>2, OneTaskChanges DEF ReadyRead, Start
<1>3. CASE BusinessWrite(w)
  <2>1. Exists(order[req[w].order])
    BY <1>t, <1>3 DEF BusinessWrite, At, TaskFacts, BeforeOrder
  <2>2. TaskFacts([Idle EXCEPT !.pc = "eligible", !.order = req[w].order], order)
    BY <2>1 DEF TaskFacts, Idle
  <2> QED BY <1>3, <2>2, OneTaskChanges, FinishKnown DEF BusinessWrite, Continue
<1>4. CASE CheckEligible(w)
  <2>1. TaskFacts([req[w] EXCEPT !.pc = "insertDelivery"], order)
    BY <1>t, <1>4, ContinueFacts DEF CheckEligible, At, BeforeOrder
  <2> QED BY SMTT(30), <1>4, <2>1, OneTaskChanges, FinishKnown DEF CheckEligible, Continue
<1>5. CASE InsertDelivery(w)
  BY <1>5, FinishKnown DEF InsertDelivery
<1>6. ASSUME NEW o \in OrderIds, PickUpRead(w, o) PROVE TasksKnown
  <2>1. Exists(order[o])
    BY <1>r, <1>6 DEF RowFacts, PickUpRead, None
  <2>2. TaskFacts([Idle EXCEPT !.pc = "pickUp", !.order = o], order)
    BY <2>1 DEF TaskFacts, Idle
  <2> QED BY <1>6, <2>2, OneTaskChanges DEF PickUpRead, Start
<1>7. CASE PickUpWrite(w)
  BY <1>7, FinishKnown DEF PickUpWrite
<1>8. ASSUME NEW o \in OrderIds, CancelDeliveryRead(w, o) PROVE TasksKnown
  <2>1. Exists(order[o])
    BY <1>r, <1>8 DEF RowFacts, CancelDeliveryRead, None
  <2>2. TaskFacts([Idle EXCEPT !.pc = "cancelDelivery", !.order = o], order)
    BY <2>1 DEF TaskFacts, Idle
  <2> QED BY <1>8, <2>2, OneTaskChanges DEF CancelDeliveryRead, Start
<1>10. ASSUME NEW o \in OrderIds, ReopenRead(w, o) PROVE TasksKnown
  <2>1. Exists(order[o])
    BY <1>r, <1>10 DEF RowFacts, ReopenRead, None
  <2>2. TaskFacts([Idle EXCEPT !.pc = "reopen", !.order = o], order)
    BY <2>1 DEF TaskFacts, Idle
  <2> QED BY <1>10, <2>2, OneTaskChanges DEF ReopenRead, Start
<1>11. CASE ReopenWrite(w)
  BY <1>11, FinishKnown DEF ReopenWrite
<1>9. CASE CancelDeliveryCommit(w)
  BY <1>9, FinishKnown DEF CancelDeliveryCommit
<1>12. ASSUME NEW o \in OrderIds, DeliverRead(w, o) PROVE TasksKnown
  <2>1. Exists(order[o])
    BY <1>r, <1>12 DEF RowFacts, DeliverRead, None
  <2>2. TaskFacts([Idle EXCEPT !.pc = "complete", !.order = o, !.seen = order[o].status], order)
    BY <2>1 DEF TaskFacts, Idle
  <2> QED BY <1>12, <2>2, OneTaskChanges DEF DeliverRead, Start
<1>13. CASE DeliverCommit(w)
  BY <1>13, FinishKnown DEF DeliverCommit
<1> QED BY <1>1, <1>2, <1>3, <1>4, <1>5, <1>6, <1>7, <1>8, <1>9, <1>10, <1>11, <1>12, <1>13
  DEF FulfillmentStep

LEMMA SweeperTasksKnown == ASSUME FactsInv, SweeperStep PROVE TasksKnown
<1>w. Sweeper \in Workers
  BY DEF Workers
<1>1. ASSUME NEW o \in OrderIds, SweepOrphan(o) PROVE TasksKnown
  <2>1. Exists(order[o])
    BY <1>1 DEF SweepOrphan, Sweeps, Exists, None
  <2>2. TaskFacts([Idle EXCEPT !.pc = "eligible", !.order = o], order)
    BY <2>1 DEF TaskFacts, Idle
  <2> QED BY <1>w, <1>1, <2>2, OneTaskChanges DEF SweepOrphan, Start
<1>2. CASE CheckEligible(Sweeper)
  BY <1>w, <1>2, FulfillmentTasksKnown DEF FulfillmentStep
<1>3. CASE InsertDelivery(Sweeper)
  BY <1>w, <1>3, FulfillmentTasksKnown DEF FulfillmentStep
<1> QED BY <1>1, <1>2, <1>3 DEF SweeperStep

LEMMA StepTasksKnown == ASSUME FactsInv, [Next]_vars PROVE TasksKnown
<1>0. ASSUME req' = req PROVE TasksKnown
  BY <1>0 DEF TasksKnown, FactsInv
<1>1. CASE CartStep
  BY <1>0, <1>1 DEF CartStep, ClearCart, AddItem, RemoveItem
<1>2. CASE BusinessStep
  BY <1>0, <1>2 DEF BusinessStep
<1>3. ASSUME NEW w \in Requests,
             CheckoutStep(w) \/ PaymentStep(w) \/ RefundStep(w) \/ FulfillmentStep(w)
      PROVE  TasksKnown
  BY <1>3, CheckoutTasksKnown, PaymentTasksKnown, RefundTasksKnown, FulfillmentTasksKnown
  DEF Workers
<1>4. ASSUME NEW w \in Workers, Fail(w) PROVE TasksKnown
  BY <1>4, FinishKnown DEF Fail
<1>5. CASE UNCHANGED vars
  BY <1>0, <1>5 DEF vars
<1> QED BY <1>1, <1>2, <1>3, <1>4, <1>5, SweeperTasksKnown DEF Next

---------------------------------------------------------------------------
(* The rows of the other tables *)

\* A row is as it was, or the order it belongs to is there.
RowChange ==
    /\ \A o \in OrderIds : payment'[o] = payment[o] \/ Exists(order[o]) \/ Exists(order'[o])
    /\ \A o \in OrderIds : delivery'[o] = delivery[o] \/ Exists(order[o])
    /\ \A e \in Events : \/ event'[e].status = event[e].status /\ event'[e].order = event[e].order
                         \/ Exists(order[event'[e].order])
    /\ \A f \in Refunds : \/ refund'[f] = refund[f]
                          \/ refund'[f].status # "PENDING"
                          \/ Exists(order[refund'[f].order])

RowsUnchanged == UNCHANGED <<payment, event, refund, delivery>>

LEMMA SameRows == ASSUME RowsUnchanged PROVE RowChange
BY DEF RowsUnchanged, RowChange

LEMMA CheckoutRowChange ==
    ASSUME FactsInv, NEW w \in Workers, CheckoutStep(w)
    PROVE  RowChange
<1>1. CASE ReserveAndCreate(w)
  <2>0. order \in [OrderIds -> OrderRow] /\ payment \in [OrderIds -> PaymentRow]
    BY DEF FactsInv, TypeInv, RowInv
  <2>1. PICK o \in OrderIds :
            /\ order' = [order EXCEPT ![o] = [ status |-> "PAYMENT_PENDING",
                                               type   |-> req[w].type,
                                               lines  |-> req[w].lines ]]
            /\ \/ payment' = payment
               \/ payment' = [payment EXCEPT ![o] =
                        [NoPayment EXCEPT !.status = "PENDING", !.key = req[w].key]]
    BY <1>1 DEF ReserveAndCreate
  <2>2. Exists(order'[o])
    BY <2>0, <2>1 DEF Exists, None
  <2>3. \A x \in OrderIds : payment'[x] = payment[x] \/ x = o
    BY <2>0, <2>1
  <2>4. UNCHANGED <<event, refund, delivery>>
    BY <1>1 DEF ReserveAndCreate
  <2> QED BY <2>2, <2>3, <2>4 DEF RowChange
<1>2. CASE ~ReserveAndCreate(w)
  <2>1. RowsUnchanged
    BY <1>2 DEF CheckoutStep, CheckKey, LoadCart, RejectCheckout, SyncRead, MarkPaid,
                CancelUnpaid, RowsUnchanged
  <2> QED BY <2>1, SameRows
<1> QED BY <1>1, <1>2

LEMMA PaymentRowChange ==
    ASSUME FactsInv, NEW w \in Workers, PaymentStep(w)
    PROVE  RowChange
<1>t. TaskFacts(req[w], order) /\ WellFormed(req[w])
  BY DEF FactsInv, TypeInv, ReqInv
<1>r. /\ payment \in [OrderIds -> PaymentRow] /\ event \in [Events -> EventRow]
      /\ RowFacts
  BY DEF FactsInv, TypeInv, RowInv
<1>1. CASE Charge(w)
  <2>1. Exists(order[req[w].order])
    BY <1>t, <1>1 DEF Charge, At, TaskFacts, BeforeOrder
  <2>2. \A o \in OrderIds : payment'[o] = payment[o] \/ o = req[w].order
    BY <1>1, <1>r DEF Charge
  <2>3. UNCHANGED <<event, refund, delivery>>
    BY <1>1 DEF Charge
  <2> QED BY <2>1, <2>2, <2>3 DEF RowChange
<1>2. ASSUME NEW e \in Events, NEW o \in OrderIds, NEW s \in EventStatuses,
             ReceiveEvent(w, e, o, s)
      PROVE  RowChange
  <2>1. Exists(order[o])
    BY <1>r, <1>2 DEF RowFacts, ReceiveEvent
  <2>2. event' = [event EXCEPT ![e] = [status |-> s, order |-> o, processed |-> FALSE]]
    BY <1>2 DEF ReceiveEvent
  <2>3. \A x \in Events : event'[x] = event[x] \/ event'[x].order = o
    BY <2>2, <1>r
  <2>4. UNCHANGED <<payment, refund, delivery>>
    BY <1>2 DEF ReceiveEvent
  <2> QED BY <2>1, <2>3, <2>4 DEF RowChange
<1>3. CASE ApplyEvent(w)
  <2>1. Exists(order[req[w].order])
    BY <1>t, <1>3 DEF ApplyEvent, At, TaskFacts, BeforeOrder
  <2>2. \A o \in OrderIds : payment'[o] = payment[o] \/ o = req[w].order
    BY <1>3, <1>r DEF ApplyEvent
  <2>3. UNCHANGED <<event, refund, delivery>>
    BY <1>3 DEF ApplyEvent
  <2> QED BY <2>1, <2>2, <2>3 DEF RowChange
<1>4. CASE AckEvent(w)
  <2>1. \A x \in Events : event'[x].status = event[x].status /\ event'[x].order = event[x].order
    BY <1>4, <1>r DEF AckEvent, EventRow
  <2>2. UNCHANGED <<payment, refund, delivery>>
    BY <1>4 DEF AckEvent
  <2> QED BY <2>1, <2>2 DEF RowChange
<1>5. CASE \/ \E o \in OrderIds : ConfirmRead(w, o)
           \/ ReadPayment(w)
           \/ \E e \in Events : RedeliverEvent(w, e)
  BY <1>5, SameRows DEF ConfirmRead, ReadPayment, RedeliverEvent, RowsUnchanged
<1> QED BY <1>1, <1>2, <1>3, <1>4, <1>5 DEF PaymentStep

LEMMA RefundRowChange ==
    ASSUME FactsInv, NEW w \in Workers, RefundStep(w)
    PROVE  RowChange
<1>t. TaskFacts(req[w], order) /\ WellFormed(req[w])
  BY DEF FactsInv, TypeInv, ReqInv
<1>r. payment \in [OrderIds -> PaymentRow] /\ refund \in [Refunds -> RefundRow]
  BY DEF FactsInv, TypeInv, RowInv
<1>1. CASE RefundCommit(w)
  <2>1. Exists(order[req[w].order])
    BY <1>t, <1>1 DEF RefundCommit, At, TaskFacts, BeforeOrder
  <2>2. \A o \in OrderIds : payment'[o] = payment[o] \/ o = req[w].order
    BY <1>1, <1>r DEF RefundCommit
  <2>3. UNCHANGED <<event, refund, delivery>>
    BY <1>1 DEF RefundCommit
  <2> QED BY <2>1, <2>2, <2>3 DEF RowChange
<1>2. CASE ManualCommit(w)
  <2>1. Exists(order[req[w].order])
    BY <1>t, <1>2 DEF ManualCommit, At, TaskFacts, BeforeOrder
  <2>2. \A o \in OrderIds : payment'[o] = payment[o] \/ o = req[w].order
    BY <1>2, <1>r DEF ManualCommit
  <2>3. refund' = [refund EXCEPT ![req[w].row].status = "COMPLETED"]
    BY <1>2 DEF ManualCommit
  <2>4. \A f \in Refunds : refund'[f] = refund[f] \/ refund'[f].status = "COMPLETED"
    BY <2>3, <1>r DEF RefundRow
  <2>5. UNCHANGED <<event, delivery>>
    BY SMTT(30), <1>2 DEF ManualCommit
  <2> QED BY <2>1, <2>2, <2>4, <2>5 DEF RowChange
<1>3. CASE ~RefundCommit(w) /\ ~ManualCommit(w)
  BY <1>3, SameRows DEF RefundStep, CancelRead, CancelCommit, AdminRefund, RefundCheck, RefundSum,
                        RefundWrite, ManualRead, ManualUpdate, RowsUnchanged
<1> QED BY <1>1, <1>2, <1>3

LEMMA FulfillmentRowChange ==
    ASSUME FactsInv, NEW w \in Workers, FulfillmentStep(w)
    PROVE  RowChange
<1>t. TaskFacts(req[w], order) /\ WellFormed(req[w])
  BY DEF FactsInv, TypeInv, ReqInv
<1>r. delivery \in [OrderIds -> DeliveryStatuses \cup {None}] /\ refund \in [Refunds -> RefundRow]
  BY DEF FactsInv, TypeInv, RowInv
<1>d. ASSUME NEW s, Exists(order[req[w].order]), delivery' = [delivery EXCEPT ![req[w].order] = s],
             UNCHANGED <<payment, event, refund>>
      PROVE  RowChange
  BY <1>d, <1>r DEF RowChange
<1>1. CASE InsertDelivery(w)
  <2>1. Exists(order[req[w].order])
    BY <1>t, <1>1 DEF InsertDelivery, At, TaskFacts, BeforeOrder
  <2> QED BY <1>1, <2>1, <1>d DEF InsertDelivery
<1>2. CASE PickUpWrite(w)
  <2>1. Exists(order[req[w].order])
    BY <1>t, <1>2 DEF PickUpWrite, At, TaskFacts, BeforeOrder
  <2> QED BY <1>2, <2>1, <1>d DEF PickUpWrite
<1>3. CASE CancelDeliveryCommit(w)
  <2>1. Exists(order[req[w].order])
    BY <1>t, <1>3 DEF CancelDeliveryCommit, At, TaskFacts, BeforeOrder
  <2>2. delivery' = [delivery EXCEPT ![req[w].order] = "CANCELLED"] /\ UNCHANGED <<payment, event>>
    BY <1>3 DEF CancelDeliveryCommit
  <2>3. \/ refund' = refund
        \/ \E f \in Refunds : \E n : refund' = [refund EXCEPT ![f] =
                [status |-> "PENDING", order |-> req[w].order, amount |-> n]]
    BY <1>3 DEF CancelDeliveryCommit
  <2>4. \A f \in Refunds : refund'[f] = refund[f] \/ refund'[f].order = req[w].order
    BY <2>3, <1>r
  <2> QED BY <2>1, <2>2, <2>4, <1>r DEF RowChange
<1>5. CASE ReopenWrite(w)
  <2>1. Exists(order[req[w].order])
    BY <1>t, <1>5 DEF ReopenWrite, At, TaskFacts, BeforeOrder
  <2> QED BY <1>5, <2>1, <1>d DEF ReopenWrite
<1>6. CASE DeliverCommit(w)
  <2>1. Exists(order[req[w].order])
    BY <1>t, <1>6 DEF DeliverCommit, At, TaskFacts, BeforeOrder
  <2> QED BY <1>6, <2>1, <1>d DEF DeliverCommit
<1>4. CASE ~InsertDelivery(w) /\ ~PickUpWrite(w) /\ ~ReopenWrite(w) /\ ~CancelDeliveryCommit(w)
           /\ ~DeliverCommit(w)
  BY <1>4, SameRows DEF FulfillmentStep, BusinessRead, ReadyRead, BusinessWrite, CheckEligible,
                        PickUpRead, ReopenRead, CancelDeliveryRead, DeliverRead, RowsUnchanged
<1> QED BY <1>1, <1>2, <1>3, <1>4, <1>5, <1>6

LEMMA StepRowChange == ASSUME FactsInv, [Next]_vars PROVE RowChange
<1>1. CASE CartStep
  BY <1>1, SameRows DEF CartStep, ClearCart, AddItem, RemoveItem, RowsUnchanged
<1>2. CASE BusinessStep
  BY <1>2, SameRows DEF BusinessStep, RowsUnchanged
<1>3. CASE SweeperStep
  <2>1. Sweeper \in Workers
    BY DEF Workers
  <2>2. ASSUME NEW o \in OrderIds, SweepOrphan(o) PROVE RowChange
    BY <2>2, SameRows DEF SweepOrphan, RowsUnchanged
  <2> QED BY <1>3, <2>1, <2>2, FulfillmentRowChange DEF SweeperStep, FulfillmentStep
<1>4. ASSUME NEW w \in Requests,
             CheckoutStep(w) \/ PaymentStep(w) \/ RefundStep(w) \/ FulfillmentStep(w)
      PROVE  RowChange
  BY <1>4, CheckoutRowChange, PaymentRowChange, RefundRowChange, FulfillmentRowChange DEF Workers
<1>5. ASSUME NEW w \in Workers, Fail(w) PROVE RowChange
  BY <1>5, SameRows DEF Fail, RowsUnchanged
<1>6. CASE UNCHANGED vars
  BY <1>6, SameRows DEF vars, RowsUnchanged
<1> QED BY <1>1, <1>2, <1>3, <1>4, <1>5, <1>6 DEF Next

(***************************************************************************)
(* The row of a delivery that is being completed changes only by that.     *)
(***************************************************************************)
RowsHeld ==
    \A o \in OrderIds :
        \/ delivery'[o] = delivery[o]
        \/ delivery[o] = None
        \/ ~Locked(o)
        \/ \E w \in Workers : At(w, "complete") /\ req[w].order = o /\ req'[w] = Idle

LEMMA FulfillmentHolds ==
    ASSUME FactsInv, NEW w \in Workers, FulfillmentStep(w)
    PROVE  RowsHeld
<1>d. /\ delivery \in [OrderIds -> DeliveryStatuses \cup {None}]
      /\ req \in [Workers -> Task]
  BY DEF FactsInv, TypeInv, RowInv, ReqInv
<1>1. CASE InsertDelivery(w)
  BY <1>d, <1>1 DEF InsertDelivery, RowsHeld
<1>2. CASE PickUpWrite(w) \/ ReopenWrite(w) \/ CancelDeliveryCommit(w)
  <2>1. /\ ~Locked(req[w].order)
        /\ \A o \in OrderIds : o # req[w].order => delivery'[o] = delivery[o]
    BY <1>d, <1>2 DEF PickUpWrite, ReopenWrite, CancelDeliveryCommit
  <2> QED BY <2>1 DEF RowsHeld
<1>3. CASE DeliverCommit(w)
  <2>1. /\ At(w, "complete") /\ req'[w] = Idle
        /\ \A o \in OrderIds : o # req[w].order => delivery'[o] = delivery[o]
    BY <1>d, <1>3 DEF DeliverCommit, Finish
  <2> QED BY <2>1 DEF RowsHeld
<1>4. CASE ~InsertDelivery(w) /\ ~PickUpWrite(w) /\ ~ReopenWrite(w) /\ ~CancelDeliveryCommit(w)
           /\ ~DeliverCommit(w)
  BY <1>4 DEF FulfillmentStep, BusinessRead, ReadyRead, BusinessWrite, CheckEligible,
              PickUpRead, ReopenRead, CancelDeliveryRead, DeliverRead, RowsHeld
<1> QED BY <1>1, <1>2, <1>3, <1>4

LEMMA StepHolds == ASSUME FactsInv, [Next]_vars PROVE RowsHeld
<1>0. ASSUME delivery' = delivery PROVE RowsHeld
  BY <1>0 DEF RowsHeld
<1>1. CASE CartStep \/ BusinessStep \/ UNCHANGED vars
  BY <1>0, <1>1 DEF CartStep, ClearCart, AddItem, RemoveItem, BusinessStep, vars
<1>2. CASE SweeperStep
  <2>1. Sweeper \in Workers
    BY DEF Workers
  <2> QED BY <1>0, <1>2, <2>1, FulfillmentHolds DEF SweeperStep, SweepOrphan, FulfillmentStep
<1>3. ASSUME NEW w \in Requests, CheckoutStep(w) PROVE RowsHeld
  BY <1>0, <1>3 DEF CheckoutStep, CheckKey, LoadCart, ReserveAndCreate, RejectCheckout,
                    SyncRead, MarkPaid, CancelUnpaid
<1>4. ASSUME NEW w \in Requests, PaymentStep(w) PROVE RowsHeld
  BY <1>0, <1>4 DEF PaymentStep, ConfirmRead, ReadPayment, Charge, ReceiveEvent,
                    RedeliverEvent, ApplyEvent, AckEvent
<1>5. ASSUME NEW w \in Requests, RefundStep(w) PROVE RowsHeld
  BY <1>0, <1>5 DEF RefundStep, CancelRead, CancelCommit, AdminRefund, RefundCheck, RefundSum,
                    RefundWrite, RefundCommit, ManualRead, ManualUpdate, ManualCommit
<1>6. ASSUME NEW w \in Workers, Fail(w) PROVE RowsHeld
  BY <1>0, <1>6 DEF Fail
<1> QED BY <1>1, <1>2, <1>3, <1>4, <1>5, <1>6, FulfillmentHolds DEF Next, Workers

\* Who starts to complete a delivery finds it on the road and in nobody's hands.
LEMMA StartsComplete ==
    ASSUME FactsInv, [Next]_vars, NEW w \in Workers, At(w, "complete")', req'[w] # req[w]
    PROVE  /\ ~Locked(req'[w].order)
           /\ delivery'[req'[w].order] = "ON_ROAD"
           /\ \A v \in Workers : v # w => req'[v] = req[v]
<1>t. ReqInv
  BY DEF FactsInv, TypeInv
<1>1. Enters(w)
  BY <1>t, TaskHistory DEF At, Idle
<1>2. PICK o \in OrderIds : DeliverRead(w, o)
  BY <1>1 DEF At, Enters, EntersCheckout, EntersPayment, EntersRefund, EntersFulfillment
<1>3. [Idle EXCEPT !.pc = "complete", !.order = o, !.seen = order[o].status].order = o
  BY DEF Idle
<1>4. req'[w].order = o /\ \A v \in Workers : v # w => req'[v] = req[v]
  BY <1>t, <1>2, <1>3, OthersStay DEF DeliverRead, Start
<1> QED BY <1>2, <1>4 DEF DeliverRead

LEMMA LocksHold == ASSUME FactsInv, [Next]_vars PROVE LockFacts'
<1>1. ASSUME NEW w \in Workers, At(w, "complete")'
      PROVE  delivery'[req'[w].order] = "ON_ROAD"
  <2>1. CASE req'[w] # req[w]
    BY <1>1, <2>1, StartsComplete
  <2>2. CASE req'[w] = req[w]
    <3> DEFINE o == req[w].order
    <3>1. At(w, "complete") /\ delivery[o] = "ON_ROAD" /\ Locked(o)
      BY <1>1, <2>2 DEF At, Locked, FactsInv, LockFacts
    <3>2. o \in OrderIds
      BY <3>1 DEF At, FactsInv, TypeInv, ReqInv, WellFormed, BeforeOrder
    <3>3. \A v \in Workers : At(v, "complete") /\ req[v].order = o => req'[v] # Idle
      BY <1>1, <2>2, <3>1 DEF At, Idle, FactsInv, LockFacts
    <3>4. delivery'[o] = delivery[o]
      BY <3>1, <3>2, <3>3, StepHolds DEF RowsHeld, None
    <3> QED BY <2>2, <3>1, <3>4
  <2> QED BY <2>1, <2>2
<1>2. ASSUME NEW w \in Workers, NEW v \in Workers, v # w,
             At(w, "complete")', At(v, "complete")', req'[v].order = req'[w].order
      PROVE  FALSE
  <2>1. CASE req'[w] # req[w]
    <3>1. ~Locked(req'[w].order) /\ req'[v] = req[v]
      BY <1>2, <2>1, StartsComplete
    <3> QED BY <1>2, <3>1 DEF Locked, At
  <2>2. CASE req'[v] # req[v]
    <3>1. ~Locked(req'[v].order) /\ req'[w] = req[w]
      BY <1>2, <2>2, StartsComplete
    <3> QED BY <1>2, <3>1 DEF Locked, At
  <2>3. CASE req'[v] = req[v] /\ req'[w] = req[w]
    BY <1>2, <2>3 DEF FactsInv, LockFacts, At
  <2> QED BY <2>1, <2>2, <2>3
<1> QED BY <1>1, <1>2 DEF LockFacts

LEMMA InitFacts == Init => FactsInv
<1> SUFFICES ASSUME Init PROVE FactsInv
    OBVIOUS
<1>1. TypeInv
  BY InitTypeInv
<1>2. RowFacts
  BY DEF Init, RowFacts, NoPayment, NoEvent, NoRefund, None
<1>3. \A w \in Workers : TaskFacts(req[w], order)
  BY IdleFacts DEF Init
<1>4. LockFacts
  BY DEF Init, LockFacts, At, Idle
<1> QED BY <1>1, <1>2, <1>3, <1>4 DEF FactsInv

LEMMA NextFacts == ASSUME FactsInv, [Next]_vars PROVE FactsInv'
<1>1. TypeInv /\ TypeInv'
  BY NextTypeInv DEF FactsInv
<1>2. RowsKept(order, order')
  BY <1>1, StepChange, ChangeKeepsRows
<1>3. \A w \in Workers : TaskFacts(req'[w], order')
  <2> TAKE w \in Workers
  <2>1. TaskFacts(req'[w], order)
    BY StepTasksKnown DEF TasksKnown
  <2>2. WellFormed(req'[w])
    BY <1>1 DEF TypeInv, ReqInv, WellFormed
  <2> QED BY <1>2, <2>1, <2>2, FactsKept
<1>4. RowFacts'
  <2>0. RowFacts /\ RowChange
    BY StepRowChange DEF FactsInv
  <2>1. \A o \in OrderIds : payment'[o].status # None => Exists(order'[o])
    BY <1>2, <2>0 DEF RowFacts, RowChange, RowsKept
  <2>2. \A o \in OrderIds : delivery'[o] # None => Exists(order'[o])
    BY <1>2, <2>0 DEF RowFacts, RowChange, RowsKept
  <2>3. \A e \in Events : event'[e].status # None => event'[e].order \in OrderIds
    BY <1>1 DEF TypeInv, RowInv
  <2>4. \A e \in Events : event'[e].status # None => Exists(order'[event'[e].order])
    BY <1>2, <2>0, <2>3 DEF RowFacts, RowChange, RowsKept
  <2>5. \A f \in Refunds : refund'[f].status = "PENDING" => refund'[f].order \in OrderIds
    BY <1>1 DEF TypeInv, RowInv
  <2>6. \A f \in Refunds : refund'[f].status = "PENDING" => Exists(order'[refund'[f].order])
    BY <1>2, <2>0, <2>5 DEF RowFacts, RowChange, RowsKept
  <2> QED BY <2>1, <2>2, <2>4, <2>6 DEF RowFacts, Exists
<1> QED BY <1>1, <1>3, <1>4, LocksHold DEF FactsInv

THEOREM Facts == Spec => []FactsInv
BY InitFacts, NextFacts, PTL DEF Spec

---------------------------------------------------------------------------
(***************************************************************************)
(* Whatever happened since the order was read, a status other than PAID or *)
(* CANCELLED is only written as a legal move from the status the order has *)
(* at that moment (applyGuardedTransition); the exception is COMPLETED,    *)
(* and only in the transaction that ends its delivery, whose row lock lets *)
(* nobody else touch the delivery (complete(), DeliverySyncService).       *)
(***************************************************************************)
THEOREM ForwardLegal == Spec => ForwardStepsAreLegal
<1> DEFINE Legal == \A o \in OrderIds :
        order'[o].status \notin {order[o].status, "PAID", "CANCELLED", "PAYMENT_PENDING"} =>
            \/ CanTransition(order[o].status, order'[o].status)
            \/ order'[o].status = "COMPLETED" /\ Delivered(o)
<1>1. ASSUME FactsInv, [Next]_vars PROVE Legal
  <2>1. OrderChange /\ order \in [OrderIds -> OrderRow]
    BY <1>1, StepChange DEF FactsInv, TypeInv, RowInv
  <2>2. CASE Untouched
    BY <2>2 DEF Untouched
  <2>3. CASE Placed
    BY <2>1, <2>3 DEF Placed
  <2>4. CASE Moved
    BY <2>1, <2>4 DEF Moved, OrderRow
  <2>5. CASE Cancelled
    BY <2>1, <2>5 DEF Cancelled, OrderRow
  <2> QED BY <2>1, <2>2, <2>3, <2>4, <2>5 DEF OrderChange
<1>2. FactsInv /\ [Next]_vars => [Legal]_vars
  BY <1>1
<1> QED BY <1>2, Facts, PTL DEF Spec, ForwardStepsAreLegal

(***************************************************************************)
(* No step loses a unit: it leaves the shelf only with an order that holds *)
(* it, and an order that stops holding it puts it back in the same commit. *)
(***************************************************************************)
LEMMA ChangeLosesNoUnit ==
    ASSUME TypeInv, TypeInv', OrderChange, NoUnitLost
    PROVE  NoUnitLost'
<1> SUFFICES ASSUME NEW p \in Products
             PROVE  stock'[p] + Cardinality(Holders(p)') >= InitialStock
    BY DEF NoUnitLost
<1> DEFINE H == Holders(p)
           K == Holders(p)'
<1>1. /\ order \in [OrderIds -> OrderRow]
      /\ stock \in [Products -> Nat] /\ stock'[p] \in Nat
  BY DEF TypeInv, RowInv
<1>2. H \in SUBSET OrderIds /\ K \in SUBSET OrderIds
  BY DEF Holders
<1>3. IsFiniteSet(H) /\ IsFiniteSet(K)
  BY <1>2, OrderIdsAssumption, FS_Subset
<1>4. Cardinality(H) \in Nat /\ Cardinality(K) \in Nat
  BY <1>3, FS_CardinalityType
<1>5. stock[p] + Cardinality(H) >= InitialStock
  BY DEF NoUnitLost
<1>6. ASSUME stock'[p] = stock[p], H \subseteq K
      PROVE  stock'[p] + Cardinality(K) >= InitialStock
  <2>1. Cardinality(H) <= Cardinality(K)
    BY <1>3, <1>6, FS_Subset
  <2> HIDE DEF H, K
  <2> QED BY <1>1, <1>4, <1>5, <1>6, <2>1, StockAssumption
<1>7. CASE Untouched
  <2>1. H \subseteq K
    BY <1>7 DEF Untouched, Holders, Live
  <2> QED BY <1>6, <1>7, <2>1 DEF Untouched
<1>8. CASE Placed
  <2>1. PICK o \in OrderIds, lines \in SUBSET Products, type \in FulfillmentTypes :
            /\ ~Exists(order[o])
            /\ order' = [order EXCEPT ![o] =
                            [status |-> "PAYMENT_PENDING", type |-> type, lines |-> lines]]
            /\ stock' = StockReserved(lines)
    BY <1>8 DEF Placed
  <2>2. o \notin H /\ H \subseteq K
    BY <1>1, <2>1 DEF Holders, Live, Exists
  <2>3. CASE p \in lines
    <3>1. K = H \cup {o}
      BY <1>1, <2>1, <2>3 DEF Holders, Live, None
    <3>2. stock'[p] = stock[p] - 1
      BY <2>1, <2>3 DEF StockReserved
    <3> HIDE DEF H, K
    <3>3. Cardinality(K) = Cardinality(H) + 1
      BY <1>3, <2>2, <3>1, FS_AddElement
    <3>4. stock'[p] + Cardinality(K) >= InitialStock
      BY <1>1, <1>4, <1>5, <3>2, <3>3, StockAssumption
    <3> QED BY <3>4 DEF K
  <2>4. CASE p \notin lines
    BY <1>6, <2>1, <2>2, <2>4 DEF StockReserved
  <2> QED BY <2>3, <2>4
<1>9. CASE Moved
  <2>1. H \subseteq K
    BY <1>1, <1>9 DEF Moved, Holders, Live, OrderRow, OrderStatuses, None
  <2> QED BY <1>6, <1>9, <2>1 DEF Moved
<1>10. CASE Cancelled
  <2>1. PICK o \in OrderIds : /\ order' = [order EXCEPT ![o].status = "CANCELLED"]
                              /\ stock' = StockReleased(order[o].lines)
    BY <1>10 DEF Cancelled
  <2>2. K = H \ {o}
    BY <1>1, <2>1 DEF Holders, Live, OrderRow
  <2>3. CASE p \in order[o].lines
    <3>1. stock'[p] = stock[p] + 1
      BY <2>1, <2>3 DEF StockReleased
    <3> HIDE DEF H, K
    <3>2. Cardinality(K) >= Cardinality(H) - 1
      BY <1>3, <1>4, <2>2, FS_RemoveElement
    <3>3. stock'[p] + Cardinality(K) >= InitialStock
      BY <1>1, <1>4, <1>5, <3>1, <3>2, StockAssumption
    <3> QED BY <3>3 DEF K
  <2>4. CASE p \notin order[o].lines
    <3>1. H \subseteq K
      BY <2>2, <2>4 DEF Holders
    <3> QED BY <1>6, <2>1, <2>4, <3>1 DEF StockReleased
  <2> QED BY <2>3, <2>4
<1> QED BY <1>7, <1>8, <1>9, <1>10 DEF OrderChange

(***************************************************************************)
(* Every unit of the initial stock is on the shelf or in a live order,     *)
(* whatever rolls back, crashes, fails to pay or is cancelled.             *)
(***************************************************************************)
THEOREM UnitsKept == Spec => []NoUnitLost
<1>1. Init => NoUnitLost
  <2> SUFFICES ASSUME Init, NEW p \in Products
               PROVE  stock[p] + Cardinality(Holders(p)) >= InitialStock
      BY DEF NoUnitLost
  <2>1. Holders(p) = {} /\ stock[p] = InitialStock
    BY DEF Init, Holders, Live, NoOrder
  <2> QED BY <2>1, FS_EmptySet, StockAssumption
<1>2. ASSUME NoUnitLost, FactsInv, FactsInv', [Next]_vars PROVE NoUnitLost'
  BY <1>2, StepChange, ChangeLosesNoUnit DEF FactsInv
<1> QED BY <1>1, <1>2, Facts, PTL DEF Spec

---------------------------------------------------------------------------
(* Only a checkout gives a payment its key *)

KeysKept == \A o \in OrderIds : payment'[o].key = payment[o].key

LEMMA KeysKeptInvariant ==
    ASSUME OnePaymentPerKey, KeysKept
    PROVE  OnePaymentPerKey'
BY DEF OnePaymentPerKey, KeysKept

LEMMA CheckoutKeepsKeysUnique ==
    ASSUME TypeInv, OnePaymentPerKey, NEW w \in Workers, ReserveAndCreate(w)
    PROVE  OnePaymentPerKey'
<1>0. payment \in [OrderIds -> PaymentRow]
  BY DEF TypeInv, RowInv
<1>1. CASE KeyUsed(req[w].key)
  BY <1>1, KeysKeptInvariant DEF ReserveAndCreate, KeysKept
<1>2. CASE ~KeyUsed(req[w].key)
  <2>1. PICK o \in OrderIds : payment' = [payment EXCEPT ![o] =
            [NoPayment EXCEPT !.status = "PENDING", !.key = req[w].key]]
    BY <1>2 DEF ReserveAndCreate
  <2>2. payment'[o].key = req[w].key /\ \A x \in OrderIds \ {o} : payment'[x] = payment[x]
    BY <1>0, <2>1 DEF NoPayment
  <2>3. \A x \in OrderIds : payment[x].key # req[w].key
    BY <1>2 DEF KeyUsed
  <2> QED BY <2>2, <2>3 DEF OnePaymentPerKey
<1> QED BY <1>1, <1>2

LEMMA OthersKeepKeys ==
    ASSUME TypeInv, [Next]_vars, \A w \in Workers : ~ReserveAndCreate(w)
    PROVE  KeysKept
<1>0. payment \in [OrderIds -> PaymentRow]
  BY DEF TypeInv, RowInv
<1>1. ASSUME UNCHANGED payment PROVE KeysKept
  BY <1>1 DEF KeysKept
<1>2. ASSUME NEW w \in Requests, Charge(w) PROVE KeysKept
  BY <1>0, <1>2 DEF Charge, KeysKept, PaymentRow
<1>3. ASSUME NEW w \in Requests, ApplyEvent(w) PROVE KeysKept
  BY <1>0, <1>3 DEF ApplyEvent, KeysKept, PaymentRow
<1>4. ASSUME NEW w \in Requests, RefundCommit(w) PROVE KeysKept
  BY <1>0, <1>4 DEF RefundCommit, KeysKept, PaymentRow
<1>5. ASSUME NEW w \in Requests, ManualCommit(w) PROVE KeysKept
  BY <1>0, <1>5 DEF ManualCommit, KeysKept, PaymentRow
<1>6. CASE CartStep \/ BusinessStep \/ SweeperStep \/ UNCHANGED vars
  BY <1>1, <1>6 DEF CartStep, ClearCart, AddItem, RemoveItem, BusinessStep, SweeperStep,
                    SweepOrphan, CheckEligible, InsertDelivery, vars
<1>7. ASSUME NEW w \in Requests, CheckoutStep(w) PROVE KeysKept
  <2>1. ~ReserveAndCreate(w)
    BY DEF Workers
  <2> QED BY <1>1, <1>7, <2>1 DEF CheckoutStep, CheckKey, LoadCart, RejectCheckout, SyncRead,
                                  MarkPaid, CancelUnpaid
<1>8. ASSUME NEW w \in Requests, PaymentStep(w) PROVE KeysKept
  BY <1>1, <1>2, <1>3, <1>8 DEF PaymentStep, ConfirmRead, ReadPayment, ReceiveEvent,
                                RedeliverEvent, AckEvent
<1>9. ASSUME NEW w \in Requests, RefundStep(w) PROVE KeysKept
  BY <1>1, <1>4, <1>5, <1>9 DEF RefundStep, CancelRead, CancelCommit, AdminRefund, RefundCheck,
                                RefundSum, RefundWrite, ManualRead, ManualUpdate
<1>10. ASSUME NEW w \in Requests, FulfillmentStep(w) PROVE KeysKept
  BY <1>1, <1>10 DEF FulfillmentStep, BusinessRead, ReadyRead, BusinessWrite, CheckEligible,
                     InsertDelivery, PickUpRead, PickUpWrite, ReopenRead, ReopenWrite,
                     CancelDeliveryRead, CancelDeliveryCommit, DeliverRead, DeliverCommit
<1>11. ASSUME NEW w \in Workers, Fail(w) PROVE KeysKept
  BY <1>1, <1>11 DEF Fail
<1> QED BY <1>6, <1>7, <1>8, <1>9, <1>10, <1>11 DEF Next

(***************************************************************************)
(* Two payments never share an idempotency key, however many checkouts     *)
(* retry with it at the same time (CheckoutService, PaymentService).       *)
(***************************************************************************)
THEOREM KeysUnique == Spec => []OnePaymentPerKey
<1>1. Init => OnePaymentPerKey
  BY DEF Init, OnePaymentPerKey, NoPayment
<1>2. ASSUME OnePaymentPerKey, TypeInv, [Next]_vars PROVE OnePaymentPerKey'
  BY <1>2, KeysKeptInvariant, CheckoutKeepsKeysUnique, OthersKeepKeys
<1> QED BY <1>1, <1>2, TypeInvariant, PTL DEF Spec
=============================================================================
