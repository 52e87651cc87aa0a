------------------------- MODULE OrdersPaymentProofs ------------------------
(***************************************************************************)
(* No order gets past payment unless money was taken for it, or the        *)
(* provider said so; and, in the second half, no payment reads REFUNDED    *)
(* unless the money was returned, or the provider said so: for every value *)
(* of the constants.                                                       *)
(*                                                                         *)
(* PaidOrderWasCharged is not inductive: whoever writes PAID decided on    *)
(* what it read long before.  It is once the invariant says who may be     *)
(* about to: a payment that reads PAID, and a request that carries PAID    *)
(* towards its order, have a charge or an event behind them already; so    *)
(* has the end of a delivery that read an order past payment, and will     *)
(* write COMPLETED whatever the order has become.  And what is behind them *)
(* never goes away.                                                        *)
(***************************************************************************)
EXTENDS OrdersProofs

Entitled(o) == payment[o].charged > 0 \/ PaidByProvider(o)

PastPayment(status) == status \notin {None, "PAYMENT_PENDING", "CANCELLED"}

\* A request that may take its order past payment.
Carries(t) ==
    \/ t.pc \in {"apply", "ack", "sync"} /\ t.paid = "PAID"
    \/ t.pc = "markPaid"
    \/ t.pc = "complete" /\ PastPayment(t.seen)

PaidInv ==
    /\ \A o \in OrderIds : payment[o].status = "PAID" => Entitled(o)
    /\ \A w \in Workers : Carries(req[w]) => Entitled(req[w].order)
    /\ \A o \in OrderIds : PastPayment(order[o].status) => Entitled(o)

---------------------------------------------------------------------------
(* Charges and events are never taken back. *)

ChargesKept ==
    \A o \in OrderIds : Exists(order[o]) => payment'[o].charged >= payment[o].charged

EventsKept ==
    \A e \in Events : event[e].status # None =>
        event'[e].status = event[e].status /\ event'[e].order = event[e].order

LEMMA EntitledKept ==
    ASSUME ChargesKept, EventsKept, TypeInv, TypeInv', NEW o \in OrderIds, Exists(order[o]), Entitled(o)
    PROVE  Entitled(o)'
<1>1. payment[o].charged \in Nat /\ payment'[o].charged \in Nat
  BY DEF TypeInv, RowInv, PaymentRow
<1>2. CASE payment[o].charged > 0
  <2>1. payment'[o].charged >= payment[o].charged
    BY DEF ChargesKept
  <2>2. payment'[o].charged > 0
    BY <1>1, <1>2, <2>1
  <2> QED BY <2>2 DEF Entitled
<1>3. CASE PaidByProvider(o)
  BY <1>3 DEF PaidByProvider, EventsKept, Entitled, None
<1> QED BY <1>2, <1>3 DEF Entitled

(***************************************************************************)
(* What a step does to payments, events and the requests that carry news.  *)
(* A request that starts to carry some has it from a payment or an event   *)
(* that says PAID, or has just charged.                                    *)
(***************************************************************************)
PaymentsQuiet ==
    \A o \in OrderIds : payment'[o].status = "PAID" => payment[o].status = "PAID"

CarriersQuiet ==
    \A v \in Workers : Carries(req'[v]) => Carries(req[v]) /\ req'[v].order = req[v].order

Quiet == ChargesKept /\ EventsKept /\ PaymentsQuiet /\ CarriersQuiet

LEMMA SamePayments == ASSUME TypeInv, payment' = payment PROVE ChargesKept /\ PaymentsQuiet
BY DEF ChargesKept, PaymentsQuiet, TypeInv, RowInv, PaymentRow

LEMMA SameEvents == ASSUME event' = event PROVE EventsKept
BY DEF EventsKept

\* The task of a worker changes for one that carries nothing new.
LEMMA OneCarrier ==
    ASSUME TypeInv, NEW w \in Workers, NEW t, req' = [req EXCEPT ![w] = t],
           Carries(t) => Carries(req[w]) /\ t.order = req[w].order
    PROVE  CarriersQuiet
BY DEF CarriersQuiet, TypeInv, ReqInv

LEMMA FinishQuiet == ASSUME TypeInv, NEW w \in Workers, Finish(w) PROVE CarriersQuiet
<1>1. ~Carries(Idle)
  BY DEF Carries, Idle
<1> QED BY <1>1, OneCarrier DEF Finish

LEMMA CheckoutQuiet ==
    ASSUME FactsInv, NEW w \in Workers, CheckoutStep(w)
    PROVE  Quiet
<1>t. TypeInv /\ req[w] \in Task
  BY DEF FactsInv, TypeInv, ReqInv
<1>e. EventsKept
  BY SameEvents DEF CheckoutStep, CheckKey, LoadCart, ReserveAndCreate, RejectCheckout, SyncRead,
                    MarkPaid, CancelUnpaid
<1>1. ASSUME NEW k \in Keys, NEW type \in FulfillmentTypes, CheckKey(w, k, type)
      PROVE  Quiet
  <2>1. ~Carries([Idle EXCEPT !.pc = "loadCart", !.key = k, !.type = type])
    BY DEF Carries, Idle
  <2> QED BY <1>t, <1>e, <1>1, <2>1, OneCarrier, SamePayments DEF CheckKey, Start, Quiet
<1>2. CASE LoadCart(w)
  <2>1. ~Carries([req[w] EXCEPT !.pc = "reserve", !.cart = cart.id, !.lines = cart.lines])
    BY <1>t DEF Carries, Task
  <2> QED BY <1>t, <1>e, <1>2, <2>1, OneCarrier, SamePayments DEF LoadCart, Continue, Quiet
<1>3. CASE ReserveAndCreate(w)
  <2>1. ChargesKept /\ PaymentsQuiet
    <3>1. PICK o \in OrderIds :
            /\ ~Exists(order[o])
            /\ \/ payment' = payment
               \/ payment' = [payment EXCEPT ![o] = [NoPayment EXCEPT !.status = "PENDING",
                                                                      !.key    = req[w].key]]
      BY <1>3 DEF ReserveAndCreate, Exists
    <3>2. CASE payment' = payment
      BY <1>t, <3>2, SamePayments
    <3>3. CASE payment' = [payment EXCEPT ![o] = [NoPayment EXCEPT !.status = "PENDING",
                                                                    !.key    = req[w].key]]
      BY <1>t, <3>1, <3>3 DEF ChargesKept, PaymentsQuiet, TypeInv, RowInv, PaymentRow, NoPayment
    <3> QED BY <3>1, <3>2, <3>3
  <2> QED BY <1>t, <1>e, <1>3, <2>1, FinishQuiet DEF ReserveAndCreate, Quiet
<1>4. CASE RejectCheckout(w)
  BY <1>t, <1>e, <1>4, FinishQuiet, SamePayments DEF RejectCheckout, Quiet
<1>5. CASE SyncRead(w)
  <2>1. CASE Finish(w)
    BY <1>t, <1>e, <1>5, <2>1, FinishQuiet, SamePayments DEF SyncRead, Quiet
  <2>2. CASE /\ req[w].paid = "PAID"
             /\ req' = [req EXCEPT ![w] = [req[w] EXCEPT !.pc = "markPaid"]]
    <3>1. Carries(req[w]) /\ [req[w] EXCEPT !.pc = "markPaid"].order = req[w].order
      BY <1>t, <1>5, <2>2 DEF SyncRead, At, Carries, Task
    <3> QED BY <1>t, <1>e, <1>5, <2>2, <3>1, OneCarrier, SamePayments DEF SyncRead, Quiet
  <2>3. CASE req' = [req EXCEPT ![w] = [req[w] EXCEPT !.pc = "cancelUnpaid"]]
    <3>1. ~Carries([req[w] EXCEPT !.pc = "cancelUnpaid"])
      BY <1>t DEF Carries, Task
    <3> QED BY <1>t, <1>e, <1>5, <2>3, <3>1, OneCarrier, SamePayments DEF SyncRead, Quiet
  <2> QED BY <1>5, <2>1, <2>2, <2>3 DEF SyncRead, Continue, Settles
<1>6. CASE MarkPaid(w)
  BY <1>t, <1>e, <1>6, FinishQuiet, SamePayments DEF MarkPaid, Quiet
<1>7. CASE CancelUnpaid(w)
  BY <1>t, <1>e, <1>7, FinishQuiet, SamePayments DEF CancelUnpaid, Quiet
<1> QED BY <1>1, <1>2, <1>3, <1>4, <1>5, <1>6, <1>7 DEF CheckoutStep

LEMMA RefundQuiet ==
    ASSUME FactsInv, NEW w \in Workers, RefundStep(w)
    PROVE  Quiet
<1>t. TypeInv /\ req[w] \in Task
  BY DEF FactsInv, TypeInv, ReqInv
<1>e. EventsKept
  BY SameEvents DEF RefundStep, CancelRead, CancelCommit, AdminRefund, RefundCheck, RefundSum,
                    RefundWrite, RefundCommit, ManualRead, ManualUpdate, ManualCommit
<1>1. ASSUME NEW o \in OrderIds, NEW actor, CancelRead(w, o, actor) PROVE Quiet
  <2>1. ~Carries([Idle EXCEPT !.pc = "cancel", !.order = o, !.lines = order[o].lines,
                              !.paid = payment[o].status])
    BY DEF Carries, Idle
  <2> QED BY <1>t, <1>e, <1>1, <2>1, OneCarrier, SamePayments DEF CancelRead, Start, Quiet
<1>2. CASE CancelCommit(w)
  <2>1. ~Carries([req[w] EXCEPT !.pc = "refundCheck", !.amount = Amount])
    BY <1>t DEF Carries, Task
  <2>2. CarriersQuiet
    BY <1>t, <1>2, <2>1, OneCarrier, FinishQuiet DEF CancelCommit, Continue
  <2> QED BY <1>t, <1>e, <1>2, <2>2, SamePayments DEF CancelCommit, Quiet
<1>3. ASSUME NEW o \in OrderIds, NEW amount \in 1..Amount, AdminRefund(w, o, amount)
      PROVE  Quiet
  <2>1. ~Carries([Idle EXCEPT !.pc = "refundCheck", !.order = o, !.amount = amount])
    BY DEF Carries, Idle
  <2> QED BY <1>t, <1>e, <1>3, <2>1, OneCarrier, SamePayments DEF AdminRefund, Start, Quiet
<1>4. CASE RefundCheck(w)
  <2>1. ~Carries([req[w] EXCEPT !.pc = "refundSum"])
    BY <1>t DEF Carries, Task
  <2>2. CarriersQuiet
    BY <1>t, <1>4, <2>1, OneCarrier, FinishQuiet DEF RefundCheck, Continue
  <2> QED BY <1>t, <1>e, <1>4, <2>2, SamePayments DEF RefundCheck, Quiet
<1>5. CASE RefundSum(w)
  <2>1. ~Carries([req[w] EXCEPT !.pc = "refundWrite"])
    BY <1>t DEF Carries, Task
  <2>2. CarriersQuiet
    BY <1>t, <1>5, <2>1, OneCarrier, FinishQuiet DEF RefundSum, Continue
  <2> QED BY <1>t, <1>e, <1>5, <2>2, SamePayments DEF RefundSum, Quiet
<1>6. CASE RefundWrite(w)
  <2>1. ~Carries([req[w] EXCEPT !.pc = "refundCommit",
                                !.sum = SumWithOwn(req[w].order, req[w].amount)])
    BY <1>t DEF Carries, Task
  <2> QED BY <1>t, <1>e, <1>6, <2>1, OneCarrier, SamePayments DEF RefundWrite, Continue, Quiet
<1>7. CASE RefundCommit(w)
  <2>1. ChargesKept /\ PaymentsQuiet
    BY <1>t, <1>7 DEF RefundCommit, StatusAfterRefund, ChargesKept, PaymentsQuiet, TypeInv, RowInv,
                      PaymentRow
  <2> QED BY <1>t, <1>e, <1>7, <2>1, FinishQuiet DEF RefundCommit, Quiet
<1>8. ASSUME NEW f \in Refunds, ManualRead(w, f) PROVE Quiet
  <2>1. ~Carries([Idle EXCEPT !.pc = "manualUpdate", !.row = f, !.order = refund[f].order,
                              !.amount = refund[f].amount])
    BY DEF Carries, Idle
  <2> QED BY <1>t, <1>e, <1>8, <2>1, OneCarrier, SamePayments DEF ManualRead, Start, Quiet
<1>9. CASE ManualUpdate(w)
  <2>1. PICK n : req' = [req EXCEPT ![w] = [req[w] EXCEPT !.pc = "manualCommit", !.sum = n]]
    BY <1>9 DEF ManualUpdate, Continue
  <2>2. ~Carries([req[w] EXCEPT !.pc = "manualCommit", !.sum = n])
    BY <1>t DEF Carries, Task
  <2> QED BY <1>t, <1>e, <1>9, <2>1, <2>2, OneCarrier, SamePayments DEF ManualUpdate, Quiet
<1>10. CASE ManualCommit(w)
  <2>1. ChargesKept /\ PaymentsQuiet
    BY <1>t, <1>10 DEF ManualCommit, StatusAfterRefund, ChargesKept, PaymentsQuiet, TypeInv, RowInv,
                       PaymentRow
  <2> QED BY <1>t, <1>e, <1>10, <2>1, FinishQuiet DEF ManualCommit, Quiet
<1> QED BY <1>1, <1>2, <1>3, <1>4, <1>5, <1>6, <1>7, <1>8, <1>9, <1>10 DEF RefundStep

LEMMA FulfillmentQuiet ==
    ASSUME FactsInv, NEW w \in Workers, FulfillmentStep(w),
           \A o \in OrderIds : ~DeliverRead(w, o)
    PROVE  Quiet
<1>t. TypeInv /\ req[w] \in Task
  BY DEF FactsInv, TypeInv, ReqInv
<1>e. event' = event /\ payment' = payment
  BY DEF FulfillmentStep, BusinessRead, ReadyRead, PickUpRead, ReopenRead, CancelDeliveryRead,
         BusinessWrite, CheckEligible, InsertDelivery, PickUpWrite, ReopenWrite,
         CancelDeliveryCommit, DeliverCommit
<1>s. ASSUME NEW t, Start(w, t), ~Carries(t) PROVE CarriersQuiet
  BY <1>t, <1>s, OneCarrier DEF Start
<1>1. ASSUME NEW o \in OrderIds, NEW target \in OrderStatuses, BusinessRead(w, o, target)
      PROVE  CarriersQuiet
  <2>1. ~Carries([Idle EXCEPT !.pc = "setStatus", !.order = o, !.seen = order[o].status,
                              !.target = target])
    BY DEF Carries, Idle
  <2> QED BY <1>1, <1>s, <2>1 DEF BusinessRead
<1>2. ASSUME NEW o \in OrderIds, ReadyRead(w, o) PROVE CarriersQuiet
  <2>1. ~Carries([Idle EXCEPT !.pc = "setStatus", !.order = o, !.seen = order[o].status,
                              !.target = "READY_FOR_PICKUP"])
    BY DEF Carries, Idle
  <2> QED BY <1>2, <1>s, <2>1 DEF ReadyRead
<1>3. ASSUME NEW o \in OrderIds, PickUpRead(w, o) \/ ReopenRead(w, o) \/ CancelDeliveryRead(w, o)
      PROVE  CarriersQuiet
  <2>1. \A pc \in {"pickUp", "reopen", "cancelDelivery"} :
            ~Carries([Idle EXCEPT !.pc = pc, !.order = o])
    BY DEF Carries, Idle
  <2> QED BY <1>3, <1>s, <2>1 DEF PickUpRead, ReopenRead, CancelDeliveryRead
<1>4. ASSUME BusinessWrite(w) PROVE CarriersQuiet
  <2>1. ~Carries([Idle EXCEPT !.pc = "eligible", !.order = req[w].order])
    BY DEF Carries, Idle
  <2> QED BY <1>t, <1>4, <2>1, OneCarrier, FinishQuiet DEF BusinessWrite, Continue
<1>5. ASSUME CheckEligible(w) PROVE CarriersQuiet
  <2>1. ~Carries([req[w] EXCEPT !.pc = "insertDelivery"])
    BY <1>t DEF Carries, Task
  <2> QED BY <1>t, <1>5, <2>1, OneCarrier, FinishQuiet DEF CheckEligible, Continue
<1>6. ASSUME \/ InsertDelivery(w) \/ PickUpWrite(w) \/ ReopenWrite(w)
             \/ CancelDeliveryCommit(w) \/ DeliverCommit(w)
      PROVE  CarriersQuiet
  BY <1>t, <1>6, FinishQuiet DEF InsertDelivery, PickUpWrite, ReopenWrite, CancelDeliveryCommit,
                                 DeliverCommit
<1>7. CarriersQuiet
  BY <1>1, <1>2, <1>3, <1>4, <1>5, <1>6 DEF FulfillmentStep
<1> QED BY <1>t, <1>e, <1>7, SamePayments, SameEvents DEF Quiet

LEMMA SweeperQuiet == ASSUME FactsInv, SweeperStep PROVE Quiet
<1>t. TypeInv /\ Sweeper \in Workers /\ req[Sweeper] \in Task
  BY DEF FactsInv, TypeInv, ReqInv, Workers
<1>e. event' = event /\ payment' = payment
  BY DEF SweeperStep, SweepOrphan, CheckEligible, InsertDelivery
<1>1. ASSUME NEW o \in OrderIds, SweepOrphan(o) PROVE CarriersQuiet
  <2>1. ~Carries([Idle EXCEPT !.pc = "eligible", !.order = o])
    BY DEF Carries, Idle
  <2> QED BY <1>t, <1>1, <2>1, OneCarrier DEF SweepOrphan, Start
<1>2. ASSUME CheckEligible(Sweeper) PROVE CarriersQuiet
  <2>1. ~Carries([req[Sweeper] EXCEPT !.pc = "insertDelivery"])
    BY <1>t DEF Carries, Task
  <2> QED BY <1>t, <1>2, <2>1, OneCarrier, FinishQuiet DEF CheckEligible, Continue
<1>3. ASSUME InsertDelivery(Sweeper) PROVE CarriersQuiet
  BY <1>t, <1>3, FinishQuiet DEF InsertDelivery
<1> QED BY <1>t, <1>e, <1>1, <1>2, <1>3, SamePayments, SameEvents DEF SweeperStep, Quiet

---------------------------------------------------------------------------
(* Where the news come from *)

\* What PaidInv says of payments and of requests, after a step that starts from them.
Backed ==
    /\ \A o \in OrderIds : payment[o].status = "PAID" => Entitled(o)
    /\ \A w \in Workers : Carries(req[w]) => Entitled(req[w].order)

\* An order that is paid, or whose request carries news, exists.
LEMMA KnownOrders ==
    ASSUME FactsInv
    PROVE  /\ \A o \in OrderIds : payment[o].status = "PAID" => Exists(order[o])
           /\ \A w \in Workers : Carries(req[w]) =>
                    req[w].order \in OrderIds /\ Exists(order[req[w].order])
<1>1. RowFacts /\ \A w \in Workers : WellFormed(req[w]) /\ TaskFacts(req[w], order)
  BY DEF FactsInv, TypeInv, ReqInv
<1> QED BY <1>1 DEF RowFacts, WellFormed, TaskFacts, Carries, BeforeOrder, None

LEMMA QuietBacked ==
    ASSUME FactsInv, FactsInv', Backed, Quiet
    PROVE  Backed'
<1>1. ASSUME NEW o \in OrderIds, payment'[o].status = "PAID" PROVE Entitled(o)'
  BY <1>1, KnownOrders, EntitledKept DEF Quiet, PaymentsQuiet, Backed, FactsInv
<1>2. ASSUME NEW w \in Workers, Carries(req'[w]) PROVE Entitled(req[w].order)'
  <2>1. Carries(req[w]) /\ req'[w].order = req[w].order
    BY <1>2 DEF Quiet, CarriersQuiet
  <2>2. req[w].order \in OrderIds /\ Exists(order[req[w].order]) /\ Entitled(req[w].order)
    BY <2>1, KnownOrders DEF Backed
  <2>3. \A u \in OrderIds : Exists(order[u]) /\ Entitled(u) => Entitled(u)'
    BY EntitledKept DEF Quiet, FactsInv
  <2> QED BY <2>1, <2>2, <2>3
<1> QED BY <1>1, <1>2 DEF Backed

LEMMA PaymentStepBacked ==
    ASSUME FactsInv, FactsInv', Backed, NEW w \in Workers, PaymentStep(w)
    PROVE  Backed' /\ ChargesKept /\ EventsKept
<1>t. TypeInv /\ req[w] \in Task /\ RowFacts
  BY DEF FactsInv, TypeInv, ReqInv
<1>q. ASSUME Quiet PROVE Backed' /\ ChargesKept /\ EventsKept
  BY <1>q, QuietBacked DEF Quiet
<1>k. ASSUME ChargesKept, EventsKept
      PROVE  \A u \in OrderIds : Exists(order[u]) /\ Entitled(u) => Entitled(u)'
  BY <1>k, EntitledKept DEF FactsInv
<1>1. ASSUME NEW o \in OrderIds, ConfirmRead(w, o) PROVE Quiet
  <2>1. ~Carries([Idle EXCEPT !.pc = "readPayment", !.order = o])
    BY DEF Carries, Idle
  <2> QED BY <1>t, <1>1, <2>1, OneCarrier, SamePayments, SameEvents DEF ConfirmRead, Start, Quiet
<1>2. CASE ReadPayment(w)
  <2>1. CASE ~AlreadyPaid(req[w].order)
    <3>1. ~Carries([req[w] EXCEPT !.pc = "charge"])
      BY <1>t DEF Carries, Task
    <3>2. Quiet
      BY <1>t, <1>2, <2>1, <3>1, OneCarrier, SamePayments, SameEvents
      DEF ReadPayment, Continue, Quiet
    <3> QED BY <1>q, <3>2
  <2>2. CASE AlreadyPaid(req[w].order)
    <3> DEFINE t == [req[w] EXCEPT !.pc = "sync", !.paid = "PAID"]
    <3>1. payment' = payment /\ event' = event /\ req' = [req EXCEPT ![w] = t]
      BY <1>2, <2>2 DEF ReadPayment, Continue
    <3>2. ChargesKept /\ EventsKept
      BY <1>t, <3>1, SamePayments, SameEvents
    <3>3. \A u : Entitled(u) => Entitled(u)'
      BY <3>1 DEF Entitled, PaidByProvider
    <3>4. req[w].order \in OrderIds /\ t.order = req[w].order
      BY <1>t, <1>2 DEF ReadPayment, At, FactsInv, TypeInv, ReqInv, WellFormed, BeforeOrder, Task
    <3>5. Entitled(req[w].order)
      BY <2>2, <3>4 DEF AlreadyPaid, Backed
    <3>6. \A v \in Workers : v # w => req'[v] = req[v]
      BY <1>t, <3>1 DEF TypeInv, ReqInv
    <3>7. req'[w] = t
      BY <1>t, <3>1 DEF TypeInv, ReqInv
    <3>8. ASSUME NEW v \in Workers, Carries(req'[v]) PROVE Entitled(req[v].order)'
      BY <3>3, <3>4, <3>5, <3>6, <3>7, <3>8 DEF Backed
    <3>9. \A o \in OrderIds : payment'[o].status = "PAID" => Entitled(o)'
      BY <3>1, <3>3 DEF Backed
    <3> QED BY <3>2, <3>8, <3>9 DEF Backed
  <2> QED BY <2>1, <2>2
<1>3. CASE Charge(w)
  <2>1. PICK outcome \in {"PAID", "FAILED"} :
            /\ payment' = [payment EXCEPT ![req[w].order].status  = outcome,
                              ![req[w].order].charged = IF outcome = "PAID" THEN @ + 1 ELSE @]
            /\ req' = [req EXCEPT ![w] = [req[w] EXCEPT !.pc = "sync", !.paid = outcome]]
    BY <1>3 DEF Charge, Continue
  <2> DEFINE c == req[w].order
             t == [req[w] EXCEPT !.pc = "sync", !.paid = outcome]
  <2>2. c \in OrderIds /\ t.order = c /\ t.paid = outcome /\ t.pc = "sync"
    BY <1>t, <1>3 DEF Charge, At, FactsInv, TypeInv, ReqInv, WellFormed, BeforeOrder, Task
  <2>3. /\ \A u \in OrderIds \ {c} : payment'[u] = payment[u]
        /\ payment'[c].status = outcome
        /\ payment'[c].charged = IF outcome = "PAID" THEN payment[c].charged + 1
                                 ELSE payment[c].charged
    BY <1>t, <2>1, <2>2 DEF TypeInv, RowInv, PaymentRow
  <2>4. \A u \in OrderIds : payment[u].charged \in Nat
    BY <1>t DEF TypeInv, RowInv, PaymentRow
  <2>5. ChargesKept /\ EventsKept
    <3>1. EventsKept
      BY <1>3, SameEvents DEF Charge
    <3>2. ChargesKept
      BY <2>2, <2>3, <2>4 DEF ChargesKept
    <3> QED BY <3>1, <3>2
  <2>6. ASSUME outcome = "PAID", NEW o \in OrderIds, o = c PROVE Entitled(o)'
    <3>1. payment'[o].charged = payment[o].charged + 1 /\ payment[o].charged \in Nat
      BY <2>3, <2>4, <2>6
    <3>2. payment'[o].charged > 0
      BY <3>1
    <3> QED BY <3>2 DEF Entitled
  <2>7. ASSUME NEW o \in OrderIds, payment'[o].status = "PAID" PROVE Entitled(o)'
    <3>1. CASE o = c
      BY <2>3, <2>6, <2>7, <3>1
    <3>2. CASE o # c
      <4>1. payment[o].status = "PAID"
        BY <2>3, <2>7, <3>2
      <4>2. Exists(order[o]) /\ Entitled(o)
        BY <4>1, KnownOrders DEF Backed
      <4> QED BY <1>k, <2>5, <4>2
    <3> QED BY <3>1, <3>2
  <2>8. \A v \in Workers : v # w => req'[v] = req[v]
    BY <1>t, <2>1 DEF TypeInv, ReqInv
  <2>9. req'[w] = t
    BY <1>t, <2>1 DEF TypeInv, ReqInv
  <2>10. ASSUME NEW v \in Workers, Carries(req'[v]) PROVE Entitled(req[v].order)'
    <3>1. CASE v = w
      <4>1. outcome = "PAID"
        BY <2>2, <2>9, <2>10, <3>1 DEF Carries
      <4>2. req'[v].order = c
        BY <2>2, <2>9, <3>1
      <4> QED BY <4>1, <4>2, <2>2, <2>6
    <3>2. CASE v # w
      <4>1. req'[v] = req[v] /\ Carries(req[v])
        BY <2>8, <2>10, <3>2
      <4>2. req[v].order \in OrderIds /\ Exists(order[req[v].order]) /\ Entitled(req[v].order)
        BY <4>1, KnownOrders DEF Backed
      <4> QED BY <1>k, <2>5, <4>1, <4>2
    <3> QED BY <3>1, <3>2
  <2> QED BY <2>5, <2>7, <2>10 DEF Backed
<1>4. ASSUME NEW e \in Events, NEW o \in OrderIds, NEW s \in EventStatuses,
             ReceiveEvent(w, e, o, s)
      PROVE  Backed' /\ ChargesKept /\ EventsKept
  <2> DEFINE t == [Idle EXCEPT !.pc = "apply", !.order = o, !.paid = s, !.row = e]
  <2>1. /\ payment' = payment
        /\ event' = [event EXCEPT ![e] = [status |-> s, order |-> o, processed |-> FALSE]]
        /\ req' = [req EXCEPT ![w] = t]
        /\ event[e].status = None
    BY <1>4 DEF ReceiveEvent, Start
  <2>2. ChargesKept /\ EventsKept
    BY <1>t, <2>1, SamePayments DEF EventsKept
  <2>3. \A u : Entitled(u) => Entitled(u)'
    BY <1>t, <2>1 DEF Entitled, PaidByProvider, TypeInv, RowInv, None
  <2>4. t.order = o /\ t.paid = s /\ (s = "PAID" => Entitled(o)')
    BY <1>t, <2>1 DEF Entitled, PaidByProvider, TypeInv, RowInv, Idle
  <2>5. req'[w] = t /\ \A v \in Workers : v # w => req'[v] = req[v]
    BY <1>t, <2>1 DEF TypeInv, ReqInv
  <2>6. ASSUME NEW v \in Workers, Carries(req'[v]) PROVE Entitled(req[v].order)'
    <3>1. CASE v = w
      <4>1. s = "PAID"
        BY <2>4, <2>5, <2>6, <3>1 DEF Carries, Idle
      <4> QED BY <4>1, <2>4, <2>5, <3>1
    <3>2. CASE v # w
      BY <2>3, <2>5, <2>6, <3>2 DEF Backed
    <3> QED BY <3>1, <3>2
  <2>7. \A u \in OrderIds : payment'[u].status = "PAID" => Entitled(u)'
    BY <2>1, <2>3 DEF Backed
  <2> QED BY <2>2, <2>6, <2>7 DEF Backed
<1>5. ASSUME NEW e \in Events, RedeliverEvent(w, e)
      PROVE  Backed' /\ ChargesKept /\ EventsKept
  <2> DEFINE t == [Idle EXCEPT !.pc = "apply", !.order = event[e].order,
                               !.paid = event[e].status, !.row = e]
  <2>1. payment' = payment /\ event' = event /\ req' = [req EXCEPT ![w] = t]
    BY <1>5 DEF RedeliverEvent, Start
  <2>2. ChargesKept /\ EventsKept
    BY <1>t, <2>1, SamePayments, SameEvents
  <2>3. \A u : Entitled(u) => Entitled(u)'
    BY <2>1 DEF Entitled, PaidByProvider
  <2>4. t.order = event[e].order /\ (Carries(t) => Entitled(t.order))
    BY DEF Carries, Entitled, PaidByProvider, Idle
  <2>5. req'[w] = t /\ \A v \in Workers : v # w => req'[v] = req[v]
    BY <1>t, <2>1 DEF TypeInv, ReqInv
  <2>6. ASSUME NEW v \in Workers, Carries(req'[v]) PROVE Entitled(req[v].order)'
    BY <2>3, <2>4, <2>5, <2>6 DEF Backed
  <2>7. \A u \in OrderIds : payment'[u].status = "PAID" => Entitled(u)'
    BY <2>1, <2>3 DEF Backed
  <2> QED BY <2>2, <2>6, <2>7 DEF Backed
<1>6. CASE ApplyEvent(w)
  <2> DEFINE c == req[w].order
             t == [req[w] EXCEPT !.pc = "ack"]
  <2>1. /\ payment' = [payment EXCEPT ![c].status = req[w].paid]
        /\ event' = event
        /\ req' = [req EXCEPT ![w] = t]
        /\ req[w].pc = "apply"
    BY <1>6 DEF ApplyEvent, Continue, At
  <2>2. c \in OrderIds /\ t.order = c /\ t.paid = req[w].paid /\ t.pc = "ack"
    BY <1>t, <2>1 DEF FactsInv, TypeInv, ReqInv, WellFormed, BeforeOrder, Task
  <2>3. ChargesKept /\ EventsKept
    BY <1>t, <2>1, SameEvents DEF ChargesKept, TypeInv, RowInv, PaymentRow
  <2>4. \A u \in OrderIds : Entitled(u) => Entitled(u)'
    BY <1>t, <2>1 DEF Entitled, PaidByProvider, TypeInv, RowInv, PaymentRow
  <2>5. req[w].paid = "PAID" => Entitled(c)
    BY <2>1 DEF Carries, Backed
  <2>6. CarriersQuiet
    BY <1>t, <2>1, <2>2, OneCarrier DEF Carries
  <2>7. ASSUME NEW u \in OrderIds, payment'[u].status = "PAID" PROVE Entitled(u)'
    BY <1>t, <2>1, <2>4, <2>5, <2>7 DEF Backed, TypeInv, RowInv, PaymentRow
  <2>8. ASSUME NEW v \in Workers, Carries(req'[v]) PROVE Entitled(req[v].order)'
    <3>1. Carries(req[v]) /\ req'[v].order = req[v].order
      BY <2>6, <2>8 DEF CarriersQuiet
    <3>2. req[v].order \in OrderIds /\ Entitled(req[v].order)
      BY <3>1, KnownOrders DEF Backed
    <3> QED BY <2>4, <3>1, <3>2
  <2> QED BY <2>3, <2>7, <2>8 DEF Backed
<1>7. CASE AckEvent(w)
  <2>1. ChargesKept /\ PaymentsQuiet
    BY <1>t, <1>7, SamePayments DEF AckEvent
  <2>2. EventsKept
    BY <1>t, <1>7 DEF AckEvent, EventsKept, TypeInv, RowInv, EventRow
  <2>3. req[w].pc = "ack" /\ req' = [req EXCEPT ![w] = [req[w] EXCEPT !.pc = "sync"]]
    BY <1>7 DEF AckEvent, At, Continue
  <2>4. CarriersQuiet
    <3>1. LET t == [req[w] EXCEPT !.pc = "sync"] IN
            Carries(t) => Carries(req[w]) /\ t.order = req[w].order
      BY <1>t, <2>3 DEF Carries, Task
    <3> QED BY <1>t, <2>3, <3>1, OneCarrier
  <2> QED BY <1>q, <2>1, <2>2, <2>4 DEF Quiet
<1> QED BY <1>1, <1>2, <1>3, <1>4, <1>5, <1>6, <1>7, <1>q DEF PaymentStep

\* The end of a delivery has the news from the order itself.
LEMMA DeliverReadBacked ==
    ASSUME FactsInv, PaidInv, NEW w \in Workers, NEW o \in OrderIds, DeliverRead(w, o)
    PROVE  Backed' /\ ChargesKept /\ EventsKept
<1> DEFINE t == [Idle EXCEPT !.pc = "complete", !.order = o, !.seen = order[o].status]
<1>t. TypeInv
  BY DEF FactsInv
<1>1. payment' = payment /\ event' = event /\ req' = [req EXCEPT ![w] = t]
  BY DEF DeliverRead, Start
<1>2. t.pc = "complete" /\ t.order = o /\ t.seen = order[o].status
  BY DEF Idle
<1>3. req'[w] = t /\ \A v \in Workers : v # w => req'[v] = req[v]
  BY <1>t, <1>1 DEF TypeInv, ReqInv
<1> HIDE DEF t
<1>4. \A u : Entitled(u) => Entitled(u)'
  BY <1>1 DEF Entitled, PaidByProvider
<1>5. Carries(t) => Entitled(o)
  BY <1>2 DEF Carries, PaidInv
<1>6. ASSUME NEW v \in Workers, Carries(req'[v]) PROVE Entitled(req[v].order)'
  BY <1>2, <1>3, <1>4, <1>5, <1>6 DEF PaidInv
<1>7. \A u \in OrderIds : payment'[u].status = "PAID" => Entitled(u)'
  BY <1>1, <1>4 DEF PaidInv
<1> QED BY <1>t, <1>1, <1>6, <1>7, SamePayments, SameEvents DEF Backed

LEMMA StepBacked ==
    ASSUME FactsInv, FactsInv', PaidInv, [Next]_vars
    PROVE  Backed' /\ ChargesKept /\ EventsKept
<1>t. TypeInv /\ Backed
  BY DEF FactsInv, PaidInv, Backed
<1>q. ASSUME Quiet PROVE Backed' /\ ChargesKept /\ EventsKept
  BY <1>t, <1>q, QuietBacked DEF Quiet
<1>s. ASSUME payment' = payment, event' = event, CarriersQuiet PROVE Quiet
  BY <1>s, <1>t, SamePayments, SameEvents DEF Quiet
<1>1. ASSUME CartStep \/ BusinessStep \/ UNCHANGED vars PROVE Quiet
  <2>1. payment' = payment /\ event' = event /\ req' = req
    BY <1>1 DEF CartStep, ClearCart, AddItem, RemoveItem, BusinessStep, vars
  <2>2. CarriersQuiet
    BY <2>1 DEF CarriersQuiet
  <2> QED BY <1>s, <2>1, <2>2
<1>2. ASSUME SweeperStep PROVE Quiet
  BY <1>2, SweeperQuiet
<1>3. ASSUME NEW w \in Requests, CheckoutStep(w) \/ RefundStep(w) PROVE Quiet
  BY <1>3, CheckoutQuiet, RefundQuiet DEF Workers
<1>6. ASSUME NEW w \in Requests, FulfillmentStep(w)
      PROVE  Backed' /\ ChargesKept /\ EventsKept
  <2>1. w \in Workers
    BY DEF Workers
  <2>2. CASE \E o \in OrderIds : DeliverRead(w, o)
    BY <2>1, <2>2, DeliverReadBacked
  <2>3. CASE \A o \in OrderIds : ~DeliverRead(w, o)
    BY <1>6, <2>1, <2>3, <1>q, FulfillmentQuiet
  <2> QED BY <2>2, <2>3
<1>4. ASSUME NEW w \in Workers, Fail(w) PROVE Quiet
  BY <1>4, <1>s, <1>t, FinishQuiet DEF Fail
<1>5. ASSUME NEW w \in Requests, PaymentStep(w) PROVE Backed' /\ ChargesKept /\ EventsKept
  BY <1>t, <1>5, PaymentStepBacked DEF Workers
<1> QED BY <1>q, <1>1, <1>2, <1>3, <1>4, <1>5, <1>6 DEF Next

---------------------------------------------------------------------------
(***************************************************************************)
(* Only MarkPaid, and the end of a delivery that read the order as past    *)
(* payment, take an order past it: the business moves on what is past it   *)
(* already (the guarded transition).                                       *)
(***************************************************************************)
LEMMA OnlyCarriersPay ==
    ASSUME FactsInv, [Next]_vars, NEW o \in OrderIds, PastPayment(order'[o].status)
    PROVE  \/ PastPayment(order[o].status)
           \/ \E w \in Workers : Carries(req[w]) /\ req[w].order = o
<1> DEFINE Paid == \/ PastPayment(order[o].status)
                   \/ \E w \in Workers : Carries(req[w]) /\ req[w].order = o
<1>t. /\ order \in [OrderIds -> OrderRow]
      /\ \A w \in Workers : WellFormed(req[w]) /\ TaskFacts(req[w], order)
  BY DEF FactsInv, TypeInv, RowInv, ReqInv
<1>m. \A s \in OrderStatuses : \A to \in BusinessSettable :
        CanTransition(s, to) => PastPayment(s)
  BY DEF CanTransition, Transitions, OrderStatuses, BusinessSettable, PastPayment, None
<1>1. CASE order' = order
  BY <1>1
<1>2. ASSUME NEW w \in Requests, ReserveAndCreate(w) PROVE Paid
  BY <1>2, <1>t DEF ReserveAndCreate, PastPayment
<1>3. ASSUME NEW w \in Requests, MarkPaid(w) PROVE Paid
  <2>1. CASE req[w].order = o
    BY <1>3, <2>1 DEF MarkPaid, At, Workers, Carries
  <2>2. CASE req[w].order # o
    BY <1>3, <1>t, <2>2 DEF MarkPaid, SetStatus
  <2> QED BY <2>1, <2>2
<1>4. ASSUME NEW w \in Requests, CancelUnpaid(w) \/ CancelCommit(w) PROVE Paid
  <2>1. order' = [order EXCEPT ![req[w].order].status = "CANCELLED"]
    BY <1>4 DEF CancelUnpaid, CancelCommit, SetStatus
  <2>2. CASE req[w].order = o
    BY <1>t, <2>1, <2>2 DEF PastPayment, OrderRow
  <2>3. CASE req[w].order # o
    BY <1>t, <2>1, <2>3
  <2> QED BY <2>2, <2>3
<1>5. ASSUME NEW w \in Requests, BusinessWrite(w) PROVE Paid
  <2>1. CASE order'[o] = order[o]
    BY <2>1
  <2>2. CASE order'[o] # order[o]
    <3>1. req[w].order = o /\ order[o].status = req[w].seen
      BY <1>5, <1>t, <2>2 DEF BusinessWrite, StillAsRead, SetStatus
    <3>2. req[w].target \in BusinessSettable /\ CanTransition(req[w].seen, req[w].target)
      BY <1>5, <1>t DEF BusinessWrite, At, TaskFacts, Workers
    <3>3. req[w].seen \in OrderStatuses
      BY <3>2 DEF CanTransition
    <3> QED BY <1>m, <3>1, <3>2, <3>3
  <2> QED BY <2>1, <2>2
<1>6. ASSUME NEW w \in Requests, DeliverCommit(w) PROVE Paid
  <2>1. CASE order'[o] = order[o]
    BY <2>1
  <2>2. CASE order'[o] # order[o]
    <3>1. req[w].order = o /\ CanTransition(req[w].seen, "COMPLETED")
      BY <1>6, <1>t, <2>2 DEF DeliverCommit, SetStatus
    <3>2. req[w].seen \in OrderStatuses /\ "COMPLETED" \in BusinessSettable
      BY <3>1 DEF CanTransition, BusinessSettable
    <3>3. PastPayment(req[w].seen)
      BY <1>m, <3>1, <3>2
    <3> QED BY <1>6, <3>1, <3>3 DEF DeliverCommit, At, Carries, Workers
  <2> QED BY <2>1, <2>2
<1>7. CASE CartStep \/ BusinessStep \/ SweeperStep \/ UNCHANGED vars \/ \E w \in Workers : Fail(w)
  BY <1>7, <1>1 DEF CartStep, BusinessStep, ClearCart, AddItem, RemoveItem, SweeperStep, SweepOrphan,
                    CheckEligible, InsertDelivery, vars, Fail
<1>8. ASSUME NEW w \in Requests, CheckoutStep(w) PROVE Paid
  BY <1>8, <1>1, <1>2, <1>3, <1>4 DEF CheckoutStep, CheckKey, LoadCart, RejectCheckout, SyncRead
<1>9. ASSUME NEW w \in Requests, PaymentStep(w) PROVE Paid
  BY <1>9, <1>1 DEF PaymentStep, ConfirmRead, ReadPayment, Charge, ReceiveEvent, RedeliverEvent,
                    ApplyEvent, AckEvent
<1>10. ASSUME NEW w \in Requests, RefundStep(w) PROVE Paid
  BY <1>10, <1>1, <1>4 DEF RefundStep, CancelRead, AdminRefund, RefundCheck, RefundSum,
                    RefundWrite, RefundCommit, ManualRead, ManualUpdate, ManualCommit
<1>11. ASSUME NEW w \in Requests, FulfillmentStep(w) PROVE Paid
  BY <1>11, <1>1, <1>5, <1>6
  DEF FulfillmentStep, BusinessRead, ReadyRead, PickUpRead, ReopenRead, CancelDeliveryRead,
      DeliverRead, CheckEligible, InsertDelivery, PickUpWrite, ReopenWrite, CancelDeliveryCommit
<1> QED BY <1>7, <1>8, <1>9, <1>10, <1>11 DEF Next

LEMMA InitPaid == Init => PaidInv
<1> SUFFICES ASSUME Init PROVE PaidInv
  OBVIOUS
<1>1. \A o \in OrderIds : payment[o].status = None /\ order[o].status = None
  BY DEF Init, NoPayment, NoOrder
<1>2. \A w \in Workers : req[w].pc = "idle"
  BY DEF Init, Idle
<1>3. \A w \in Workers : ~Carries(req[w])
  BY <1>2 DEF Carries
<1> QED BY <1>1, <1>3 DEF PaidInv, Backed, PastPayment, None

LEMMA StepPaid == ASSUME FactsInv, FactsInv', PaidInv, [Next]_vars PROVE PaidInv'
<1>1. Backed' /\ ChargesKept /\ EventsKept
  BY StepBacked
<1>2. ASSUME NEW o \in OrderIds, PastPayment(order'[o].status) PROVE Entitled(o)'
  <2>1. Entitled(o) /\ Exists(order[o])
    <3>1. CASE PastPayment(order[o].status)
      BY <3>1 DEF PaidInv, PastPayment, Exists
    <3>2. ASSUME NEW w \in Workers, Carries(req[w]), req[w].order = o
          PROVE  Entitled(o) /\ Exists(order[o])
      BY <3>2, KnownOrders DEF PaidInv
    <3> QED BY <1>2, <3>1, <3>2, OnlyCarriersPay
  <2> QED BY <1>1, <2>1, EntitledKept DEF FactsInv
<1> QED BY <1>1, <1>2 DEF PaidInv, Backed

(***************************************************************************)
(* Payments that read PAID, requests that carry PAID, and orders past      *)
(* payment have a charge or an event behind them.                          *)
(***************************************************************************)
THEOREM PaymentsBacked == Spec => []PaidInv
BY InitPaid, StepPaid, Facts, PTL DEF Spec

(***************************************************************************)
(* However confirmations, events, cancellations and failures interleave,   *)
(* the sync never runs ahead of the charge (syncOrderFromPaymentStatus).   *)
(***************************************************************************)
THEOREM PaidWasCharged == Spec => []PaidOrderWasCharged
<1>1. PaidInv => PaidOrderWasCharged
  BY DEF PaidInv, PastPayment, Entitled, PaidOrderWasCharged
<1> QED BY <1>1, PaymentsBacked, PTL

---------------------------------------------------------------------------
(***************************************************************************)
(* A payment that reads REFUNDED has been returned in full, or an event of *)
(* the provider says REFUNDED of it, however many administrators,          *)
(* cancellations and webhooks interleave.                                  *)
(*                                                                         *)
(* The sum a refund commits with was taken earlier, and other refunds may  *)
(* have committed since: what makes it safe is that money is only ever     *)
(* returned, never taken back, so that the sum is at most what will have   *)
(* been returned once this one commits.  A refund by hand adds its own     *)
(* amount only if its row is still PENDING: the row lock it holds keeps    *)
(* the answer from changing between its sum and its commit.                *)
(***************************************************************************)

\* What the commit of a refund by hand will add to what was returned.
ManualAmount(t) == IF refund[t.row].status = "PENDING" THEN t.amount ELSE 0

RefundSummed(t) == t.pc = "refundCommit" => t.sum <= payment[t.order].refunded + t.amount
ManualSummed(t) == t.pc = "manualCommit" => t.sum <= payment[t.order].refunded + ManualAmount(t)
NewsOfEvent(t) ==
    t.pc = "apply" =>
        /\ t.paid \in PaymentStatuses
        /\ t.paid = "REFUNDED" => RefundedByProvider(t.order)

\* refund.update of completeManual holds the row until its transaction commits.
RowsLocked ==
    \A v, w \in Workers :
        At(v, "manualCommit") /\ At(w, "manualCommit") /\ req[v].row = req[w].row => v = w

ReturnInv ==
    /\ RefundedMeansReturned
    /\ \A w \in Workers : RefundSummed(req[w]) /\ ManualSummed(req[w]) /\ NewsOfEvent(req[w])
    /\ RowsLocked

---------------------------------------------------------------------------
(* What a step does to payments, refunds by hand and events *)

\* One refund of order o commits, with what it summed.
Returned(o, amount, sum) ==
    payment' = [payment EXCEPT ![o].refunded = @ + amount, ![o].status = StatusAfterRefund(sum)]

\* What a step of w may do to the payments.
PaymentChange(w) ==
    \/ payment' = payment
    \/ \E o \in OrderIds : ~Exists(order[o]) /\ payment'[o].status = "PENDING"
                           /\ \A x \in OrderIds : x # o => payment'[x] = payment[x]
    \/ \E o \in OrderIds, s \in PaymentStatuses, n \in Nat :
            /\ payment' = [payment EXCEPT ![o].status = s, ![o].charged = n]
            /\ s = "REFUNDED" => RefundedByProvider(o)
    \/ At(w, "refundCommit") /\ Returned(req[w].order, req[w].amount, req[w].sum)
    \/ At(w, "manualCommit") /\ Returned(req[w].order, ManualAmount(req[w]), req[w].sum)

\* Only the commit of a refund by hand settles a PENDING row.
RefundChange(w) ==
    \A f \in Refunds : refund[f].status = "PENDING" =>
        refund'[f] = refund[f] \/ (At(w, "manualCommit") /\ f = req[w].row /\ req'[w] = Idle)

MoneyChange(w) == PaymentChange(w) /\ RefundChange(w) /\ EventsKept

LEMMA SameMoney ==
    ASSUME TypeInv, NEW w, UNCHANGED <<payment, refund, event>>
    PROVE  MoneyChange(w)
BY DEF MoneyChange, PaymentChange, RefundChange, EventsKept, TypeInv, RowInv

LEMMA CheckoutMoney ==
    ASSUME FactsInv, NEW w \in Workers, CheckoutStep(w)
    PROVE  MoneyChange(w)
<1>t. TypeInv
  BY DEF FactsInv
<1>1. CASE ReserveAndCreate(w)
  <2>1. PICK o \in OrderIds :
            /\ order[o].status = None
            /\ \/ payment' = payment
               \/ payment' = [payment EXCEPT ![o] =
                        [NoPayment EXCEPT !.status = "PENDING", !.key = req[w].key]]
    BY <1>1 DEF ReserveAndCreate
  <2>2. payment \in [OrderIds -> PaymentRow]
    BY <1>t DEF TypeInv, RowInv
  <2> DEFINE row == [NoPayment EXCEPT !.status = "PENDING", !.key = req[w].key]
  <2>3. PaymentChange(w)
    <3>1. CASE payment' = payment
      BY <3>1 DEF PaymentChange
    <3>2. CASE payment' = [payment EXCEPT ![o] = row]
      <4>1. row.status = "PENDING"
        BY DEF NoPayment
      <4> HIDE DEF row
      <4>2. payment'[o] = row /\ \A x \in OrderIds : x # o => payment'[x] = payment[x]
        BY <2>2, <3>2
      <4> QED BY <2>1, <4>1, <4>2 DEF PaymentChange, Exists
    <3> QED BY <2>1, <3>1, <3>2
  <2>4. RefundChange(w) /\ EventsKept
    BY <1>t, <1>1 DEF ReserveAndCreate, RefundChange, EventsKept
  <2> QED BY <2>3, <2>4 DEF MoneyChange
<1>2. CASE ~ReserveAndCreate(w)
  BY <1>t, <1>2, SameMoney
  DEF CheckoutStep, CheckKey, LoadCart, RejectCheckout, SyncRead, MarkPaid, CancelUnpaid
<1> QED BY <1>1, <1>2

LEMMA PaymentMoney ==
    ASSUME FactsInv, ReturnInv, NEW w \in Workers, PaymentStep(w)
    PROVE  MoneyChange(w)
<1>t. /\ TypeInv /\ req[w] \in Task /\ NewsOfEvent(req[w])
      /\ payment \in [OrderIds -> PaymentRow] /\ event \in [Events -> EventRow]
      /\ req[w].pc \notin BeforeOrder => req[w].order \in OrderIds
  BY DEF FactsInv, ReturnInv, TypeInv, ReqInv, RowInv, WellFormed
<1>1. CASE Charge(w)
  <2>1. PICK outcome \in {"PAID", "FAILED"} :
            payment' = [payment EXCEPT
                ![req[w].order].status  = outcome,
                ![req[w].order].charged = IF outcome = "PAID" THEN @ + 1 ELSE @]
    BY <1>1 DEF Charge
  <2>2. req[w].order \in OrderIds /\ payment[req[w].order].charged \in Nat
    BY <1>t, <1>1 DEF Charge, At, BeforeOrder, PaymentRow
  <2> DEFINE o == req[w].order
             n == IF outcome = "PAID" THEN payment[o].charged + 1 ELSE payment[o].charged
  <2>3. n \in Nat /\ payment' = [payment EXCEPT ![o].status = outcome, ![o].charged = n]
    <3>1. [payment EXCEPT ![o].status = outcome][o].charged = payment[o].charged
      BY <1>t, <2>2 DEF PaymentRow
    <3> QED BY <2>1, <2>2, <3>1
  <2> HIDE DEF n
  <2>4. PaymentChange(w)
    BY <2>2, <2>3 DEF PaymentChange, PaymentStatuses
  <2>5. RefundChange(w) /\ EventsKept
    BY <1>1 DEF Charge, RefundChange, EventsKept
  <2> QED BY <2>4, <2>5 DEF MoneyChange
<1>2. CASE ApplyEvent(w)
  <2>1. /\ req[w].order \in OrderIds /\ req[w].paid \in PaymentStatuses
        /\ req[w].paid = "REFUNDED" => RefundedByProvider(req[w].order)
    BY <1>t, <1>2 DEF ApplyEvent, At, BeforeOrder, NewsOfEvent
  <2>2. payment[req[w].order].charged \in Nat
    BY <1>t, <2>1 DEF PaymentRow
  <2>3. payment' = [payment EXCEPT ![req[w].order].status = req[w].paid,
                                   ![req[w].order].charged = payment[req[w].order].charged]
    BY <1>t, <1>2, <2>1 DEF ApplyEvent, PaymentRow
  <2>4. PaymentChange(w)
    BY <2>1, <2>2, <2>3 DEF PaymentChange
  <2>5. RefundChange(w) /\ EventsKept
    BY <1>2 DEF ApplyEvent, RefundChange, EventsKept
  <2> QED BY <2>4, <2>5 DEF MoneyChange
<1>3. ASSUME NEW e \in Events, NEW o \in OrderIds, NEW s \in EventStatuses,
             ReceiveEvent(w, e, o, s)
      PROVE  MoneyChange(w)
  <2>1. EventsKept
    BY <1>t, <1>3 DEF ReceiveEvent, EventsKept
  <2> QED BY <1>3, <2>1 DEF ReceiveEvent, MoneyChange, PaymentChange, RefundChange
<1>4. CASE AckEvent(w)
  <2>1. EventsKept
    BY <1>t, <1>4 DEF AckEvent, EventsKept, EventRow
  <2> QED BY <1>4, <2>1 DEF AckEvent, MoneyChange, PaymentChange, RefundChange
<1>5. ASSUME NEW o \in OrderIds, ConfirmRead(w, o) PROVE MoneyChange(w)
  BY <1>t, <1>5, SameMoney DEF ConfirmRead
<1>6. CASE ReadPayment(w)
  BY <1>t, <1>6, SameMoney DEF ReadPayment
<1>7. ASSUME NEW e \in Events, RedeliverEvent(w, e) PROVE MoneyChange(w)
  BY <1>t, <1>7, SameMoney DEF RedeliverEvent
<1> QED BY <1>1, <1>2, <1>3, <1>4, <1>5, <1>6, <1>7 DEF PaymentStep

LEMMA RefundMoney ==
    ASSUME FactsInv, NEW w \in Workers, RefundStep(w)
    PROVE  MoneyChange(w)
<1>t. /\ TypeInv /\ WellFormed(req[w])
      /\ payment \in [OrderIds -> PaymentRow] /\ refund \in [Refunds -> RefundRow]
  BY DEF FactsInv, TypeInv, ReqInv, RowInv
<1>1. CASE RefundCommit(w)
  <2>1. PaymentChange(w)
    BY <1>1 DEF RefundCommit, PaymentChange, Returned
  <2>2. RefundChange(w) /\ EventsKept
    BY <1>1 DEF RefundCommit, RefundChange, EventsKept
  <2> QED BY <2>1, <2>2 DEF MoneyChange
<1>2. CASE ManualCommit(w)
  <2>1. /\ req[w].order \in OrderIds /\ payment[req[w].order].refunded \in Nat
        /\ req[w].amount \in Nat /\ At(w, "manualCommit")
    BY <1>t, <1>2 DEF ManualCommit, At, WellFormed, BeforeOrder, PaymentRow, Task
  <2>2. Returned(req[w].order, ManualAmount(req[w]), req[w].sum)
    <3>1. CASE refund[req[w].row].status = "PENDING"
      BY <1>2, <3>1 DEF ManualCommit, Returned, ManualAmount
    <3>2. CASE refund[req[w].row].status # "PENDING"
      <4>1. payment' = [payment EXCEPT
                ![req[w].order].refunded = payment[req[w].order].refunded,
                ![req[w].order].status   = StatusAfterRefund(req[w].sum)]
        BY <1>2, <3>2 DEF ManualCommit
      <4>2. /\ ManualAmount(req[w]) = 0
            /\ payment[req[w].order].refunded + 0 = payment[req[w].order].refunded
        BY <2>1, <3>2 DEF ManualAmount
      <4> QED BY <4>1, <4>2 DEF Returned
    <3> QED BY <3>1, <3>2
  <2>3. PaymentChange(w)
    BY <2>1, <2>2 DEF PaymentChange
  <2>0. req'[w] = Idle
    BY <1>2 DEF ManualCommit, Finish, FactsInv, TypeInv, ReqInv
  <2>4. RefundChange(w)
    BY <1>t, <1>2, <2>0, <2>1 DEF ManualCommit, RefundChange
  <2>5. EventsKept
    BY SMTT(30), <1>2 DEF ManualCommit, EventsKept
  <2> QED BY <2>3, <2>4, <2>5 DEF MoneyChange
<1>3. CASE ~RefundCommit(w) /\ ~ManualCommit(w)
  BY <1>t, <1>3, SameMoney
  DEF RefundStep, CancelRead, CancelCommit, AdminRefund, RefundCheck, RefundSum, RefundWrite,
      ManualRead, ManualUpdate
<1> QED BY <1>1, <1>2, <1>3

LEMMA FulfillmentMoney ==
    ASSUME FactsInv, NEW w \in Workers, FulfillmentStep(w)
    PROVE  MoneyChange(w)
<1>t. TypeInv /\ refund \in [Refunds -> RefundRow]
  BY DEF FactsInv, TypeInv, RowInv
<1>1. CASE CancelDeliveryCommit(w)
  <2>1. RefundChange(w)
    BY <1>t, <1>1 DEF CancelDeliveryCommit, RefundChange, NoRefund, None
  <2> QED BY <1>1, <2>1 DEF CancelDeliveryCommit, MoneyChange, PaymentChange, EventsKept
<1>2. CASE ~CancelDeliveryCommit(w)
  BY <1>t, <1>2, SameMoney
  DEF FulfillmentStep, BusinessRead, ReadyRead, PickUpRead, ReopenRead, CancelDeliveryRead,
      DeliverRead, BusinessWrite, CheckEligible, InsertDelivery, PickUpWrite, ReopenWrite,
      DeliverCommit
<1> QED BY <1>1, <1>2

\* A step is quiet about money, or is the step of one request.
LEMMA StepMoney ==
    ASSUME FactsInv, ReturnInv, [Next]_vars
    PROVE  \E w \in Workers : MoneyChange(w) /\ \A v \in Workers : v # w => req'[v] = req[v]
<1>t. TypeInv /\ ReqInv /\ Sweeper \in Workers
  BY DEF FactsInv, TypeInv, Workers
<1>0. ASSUME UNCHANGED <<payment, refund, event, req>>
      PROVE  MoneyChange(Sweeper) /\ \A v \in Workers : v # Sweeper => req'[v] = req[v]
  BY <1>t, <1>0, SameMoney
<1>1. CASE CartStep
  BY <1>t, <1>0, <1>1 DEF CartStep, ClearCart, AddItem, RemoveItem
<1>2. CASE BusinessStep
  BY <1>t, <1>0, <1>2 DEF BusinessStep
<1>3. CASE SweeperStep
  <2>1. MoneyChange(Sweeper)
    BY <1>t, <1>3, SameMoney DEF SweeperStep, SweepOrphan, CheckEligible, InsertDelivery
  <2> QED BY <1>t, <1>3, <2>1, SweeperEnters DEF OwnTask
<1>4. ASSUME NEW w \in Requests,
             CheckoutStep(w) \/ PaymentStep(w) \/ RefundStep(w) \/ FulfillmentStep(w)
      PROVE  \E u \in Workers : MoneyChange(u) /\ \A v \in Workers : v # u => req'[v] = req[v]
  <2>1. w \in Workers
    BY DEF Workers
  <2>2. MoneyChange(w)
    BY <1>4, <2>1, CheckoutMoney, PaymentMoney, RefundMoney, FulfillmentMoney
  <2> QED BY <1>t, <1>4, <2>1, <2>2, RequestEnters DEF OwnTask
<1>5. ASSUME NEW w \in Workers, Fail(w)
      PROVE  \E u \in Workers : MoneyChange(u) /\ \A v \in Workers : v # u => req'[v] = req[v]
  <2>1. MoneyChange(w)
    BY <1>t, <1>5, SameMoney DEF Fail
  <2> QED BY <1>t, <1>5, <2>1, FinishOwn DEF Fail, OwnTask
<1>6. CASE UNCHANGED vars
  BY <1>t, <1>0, <1>6 DEF vars
<1> QED BY <1>1, <1>2, <1>3, <1>4, <1>5, <1>6 DEF Next

---------------------------------------------------------------------------
(* The invariant is inductive *)

StepOf(u) == MoneyChange(u) /\ \A v \in Workers : v # u => req'[v] = req[v]

\* Money that was returned stays returned.
LEMMA ReturnsKept ==
    ASSUME FactsInv, TypeInv', NEW u \in Workers, PaymentChange(u), NEW o \in OrderIds,
           Exists(order[o])
    PROVE  payment'[o].refunded >= payment[o].refunded
<1>t. /\ payment \in [OrderIds -> PaymentRow] /\ payment[o].refunded \in Nat
      /\ req[u] \in Task
  BY DEF FactsInv, TypeInv, RowInv, ReqInv, PaymentRow
<1>1. CASE payment' = payment
  BY <1>t, <1>1
<1>2. ASSUME NEW x \in OrderIds, ~Exists(order[x]),
             \A y \in OrderIds : y # x => payment'[y] = payment[y]
      PROVE  payment'[o].refunded >= payment[o].refunded
  BY <1>t, <1>2
<1>3. ASSUME NEW x \in OrderIds, NEW s, NEW n,
             payment' = [payment EXCEPT ![x].status = s, ![x].charged = n]
      PROVE  payment'[o].refunded >= payment[o].refunded
  BY <1>t, <1>3 DEF PaymentRow
<1>4. ASSUME NEW x, NEW amount \in Nat, NEW sum, Returned(x, amount, sum)
      PROVE  payment'[o].refunded >= payment[o].refunded
  <2>1. CASE x = o
    <3>1. payment'[o].refunded = payment[o].refunded + amount
      BY <1>t, <1>4, <2>1 DEF Returned, PaymentRow
    <3> QED BY <1>t, <3>1
  <2>2. CASE x # o
    BY <1>t, <1>4, <2>2 DEF Returned
  <2> QED BY <2>1, <2>2
<1>5. req[u].amount \in Nat /\ ManualAmount(req[u]) \in Nat
  BY <1>t DEF Task, ManualAmount
<1> QED BY <1>1, <1>2, <1>3, <1>4, <1>5 DEF PaymentChange

\* What the provider has said, it has said.
LEMMA ProviderKept ==
    ASSUME EventsKept, NEW o, RefundedByProvider(o)
    PROVE  RefundedByProvider(o)'
BY DEF EventsKept, RefundedByProvider, None

LEMMA RefundedKept ==
    ASSUME FactsInv, TypeInv', ReturnInv, NEW u \in Workers, PaymentChange(u), EventsKept
    PROVE  RefundedMeansReturned'
<1> SUFFICES ASSUME NEW o \in OrderIds, payment'[o].status = "REFUNDED",
                    ~RefundedByProvider(o)
             PROVE  payment'[o].refunded >= Amount
  BY ProviderKept DEF RefundedMeansReturned
<1>t. /\ payment \in [OrderIds -> PaymentRow] /\ payment[o].refunded \in Nat
      /\ WellFormed(req[u])
      /\ RefundSummed(req[u]) /\ ManualSummed(req[u])
      /\ payment[o].status = "REFUNDED" => payment[o].refunded >= Amount
      /\ Amount \in Nat
  BY AmountAssumption DEF FactsInv, TypeInv, RowInv, ReqInv, PaymentRow, ReturnInv,
                          RefundedMeansReturned
<1>1. CASE payment' = payment
  BY <1>t, <1>1
<1>2. ASSUME NEW x \in OrderIds, payment'[x].status = "PENDING",
             \A y \in OrderIds : y # x => payment'[y] = payment[y]
      PROVE  payment'[o].refunded >= Amount
  BY <1>t, <1>2
<1>3. ASSUME NEW x \in OrderIds, NEW s, NEW n,
             payment' = [payment EXCEPT ![x].status = s, ![x].charged = n],
             s = "REFUNDED" => RefundedByProvider(x)
      PROVE  payment'[o].refunded >= Amount
  BY <1>t, <1>3 DEF PaymentRow
<1>4. ASSUME NEW x \in OrderIds, NEW amount \in Nat, NEW sum \in Nat,
             Returned(x, amount, sum), sum <= payment[x].refunded + amount
      PROVE  payment'[o].refunded >= Amount
  <2>1. CASE x = o
    <3>1. /\ payment'[o].refunded = payment[o].refunded + amount
          /\ payment'[o].status = StatusAfterRefund(sum)
      BY <1>t, <1>4, <2>1 DEF Returned, PaymentRow
    <3>2. sum >= Amount
      BY <3>1 DEF StatusAfterRefund
    <3> QED BY <1>t, <1>4, <2>1, <3>1, <3>2
  <2>2. CASE x # o
    BY <1>t, <1>4, <2>2 DEF Returned
  <2> QED BY <2>1, <2>2
<1>5. /\ req[u].amount \in Nat /\ req[u].sum \in Nat /\ ManualAmount(req[u]) \in Nat
  BY <1>t DEF WellFormed, Task, ManualAmount
<1>6. CASE At(u, "refundCommit") /\ Returned(req[u].order, req[u].amount, req[u].sum)
  <2>1. req[u].order \in OrderIds /\ req[u].sum <= payment[req[u].order].refunded + req[u].amount
    BY <1>t, <1>6 DEF At, WellFormed, BeforeOrder, RefundSummed
  <2> QED BY <1>4, <1>5, <1>6, <2>1
<1>7. CASE At(u, "manualCommit") /\ Returned(req[u].order, ManualAmount(req[u]), req[u].sum)
  <2>1. /\ req[u].order \in OrderIds
        /\ req[u].sum <= payment[req[u].order].refunded + ManualAmount(req[u])
    BY <1>t, <1>7 DEF At, WellFormed, BeforeOrder, ManualSummed
  <2> QED BY <1>4, <1>5, <1>7, <2>1
<1> QED BY <1>1, <1>2, <1>3, <1>6, <1>7 DEF PaymentChange

LEMMA NewsKept ==
    ASSUME FactsInv, ReturnInv, [Next]_vars, EventsKept, NEW v \in Workers
    PROVE  NewsOfEvent(req[v])'
<1>t. ReqInv /\ event \in [Events -> EventRow]
  BY DEF FactsInv, TypeInv, RowInv
<1> DEFINE Said == /\ req'[v].paid \in PaymentStatuses
                   /\ req'[v].paid = "REFUNDED" => RefundedByProvider(req[v].order)'
<1> SUFFICES ASSUME req'[v].pc = "apply" PROVE Said
  BY DEF NewsOfEvent
<1>1. CASE req'[v] = req[v]
  BY <1>1, ProviderKept DEF ReturnInv, NewsOfEvent
<1>2. CASE req'[v] = Idle
  BY <1>2 DEF Idle
<1>3. ASSUME NEW e \in Events, NEW o \in OrderIds, NEW s \in EventStatuses,
             ReceiveEvent(v, e, o, s)
      PROVE  Said
  <2> DEFINE t == [Idle EXCEPT !.pc = "apply", !.order = o, !.paid = s, !.row = e]
  <2>1. t.paid = s /\ t.order = o
    BY DEF Idle
  <2>2. req'[v] = t
    BY <1>t, <1>3, OthersStay DEF ReceiveEvent, Start
  <2>3. event'[e].status = s /\ event'[e].order = o
    BY <1>t, <1>3 DEF ReceiveEvent
  <2> HIDE DEF t
  <2> QED BY <2>1, <2>2, <2>3 DEF RefundedByProvider, EventStatuses
<1>4. ASSUME NEW e \in Events, RedeliverEvent(v, e) PROVE Said
  <2> DEFINE t == [Idle EXCEPT !.pc = "apply", !.order = event[e].order,
                               !.paid = event[e].status, !.row = e]
  <2>1. t.paid = event[e].status /\ t.order = event[e].order
    BY DEF Idle
  <2>2. req'[v] = t /\ event' = event
    BY <1>t, <1>4, OthersStay DEF RedeliverEvent, Start
  <2>3. event[e].status \in PaymentStatuses
    BY <1>t, <1>4 DEF RedeliverEvent, EventRow
  <2> HIDE DEF t
  <2> QED BY <2>1, <2>2, <2>3 DEF RefundedByProvider
<1>5. CASE Enters(v)
  BY <1>3, <1>4, <1>5 DEF Enters, EntersCheckout, EntersPayment, EntersRefund, EntersFulfillment
<1> QED BY <1>t, <1>1, <1>2, <1>5, TaskHistory

LEMMA RefundSumKept ==
    ASSUME FactsInv, TypeInv', ReturnInv, [Next]_vars, NEW u \in Workers, PaymentChange(u),
           NEW v \in Workers
    PROVE  RefundSummed(req[v])'
<1>t. ReqInv /\ WellFormed(req[v]) /\ TaskFacts(req[v], order) /\ RefundSummed(req[v])
      /\ payment \in [OrderIds -> PaymentRow] /\ payment' \in [OrderIds -> PaymentRow]
  BY DEF FactsInv, TypeInv, ReqInv, RowInv, ReturnInv
<1> SUFFICES ASSUME req'[v].pc = "refundCommit"
             PROVE  req'[v].sum <= payment'[req'[v].order].refunded + req'[v].amount
  BY DEF RefundSummed
<1>1. CASE req'[v] = req[v]
  <2>1. /\ req[v].order \in OrderIds /\ Exists(order[req[v].order])
        /\ req[v].sum <= payment[req[v].order].refunded + req[v].amount
    BY <1>t, <1>1 DEF WellFormed, TaskFacts, BeforeOrder, RefundSummed
  <2>2. /\ payment[req[v].order].refunded \in Nat /\ payment'[req[v].order].refunded \in Nat
        /\ req[v].sum \in Nat /\ req[v].amount \in Nat
    BY <1>t, <2>1 DEF WellFormed, Task, PaymentRow
  <2>3. payment'[req[v].order].refunded >= payment[req[v].order].refunded
    BY <2>1, ReturnsKept
  <2> QED BY <1>1, <2>1, <2>2, <2>3
<1>2. CASE req'[v] = Idle
  BY <1>2 DEF Idle
<1>3. CASE RefundWrite(v)
  <2> DEFINE sum == SumWithOwn(req[v].order, req[v].amount)
             t == [req[v] EXCEPT !.pc = "refundCommit", !.sum = sum]
  <2>1. t.sum = sum /\ t.order = req[v].order /\ t.amount = req[v].amount
    BY <1>t DEF WellFormed, Task
  <2>2. req'[v] = t /\ payment' = payment
    BY <1>t, <1>3, OthersStay DEF RefundWrite, Continue
  <2>3. req[v].order \in OrderIds /\ req[v].amount \in Nat
    BY <1>t, <1>3 DEF RefundWrite, At, WellFormed, BeforeOrder, Task
  <2>4. payment[req[v].order].refunded + req[v].amount \in Nat
    BY <1>t, <2>3 DEF PaymentRow
  <2>5. sum = payment[req[v].order].refunded + req[v].amount
    BY DEF SumWithOwn
  <2> HIDE DEF sum, t
  <2> QED BY <2>1, <2>2, <2>4, <2>5
<1>4. CASE Enters(v)
  BY <1>3, <1>4 DEF Enters, EntersCheckout, EntersPayment, EntersRefund, EntersFulfillment
<1> QED BY <1>t, <1>1, <1>2, <1>4, TaskHistory

LEMMA ManualSumKept ==
    ASSUME FactsInv, TypeInv', ReturnInv, [Next]_vars, NEW u \in Workers, StepOf(u),
           NEW v \in Workers
    PROVE  ManualSummed(req[v])'
<1>t. ReqInv /\ WellFormed(req[v]) /\ TaskFacts(req[v], order) /\ ManualSummed(req[v])
      /\ payment \in [OrderIds -> PaymentRow] /\ payment' \in [OrderIds -> PaymentRow]
  BY DEF FactsInv, TypeInv, ReqInv, RowInv, ReturnInv
<1> SUFFICES ASSUME req'[v].pc = "manualCommit"
             PROVE  req'[v].sum <= payment'[req'[v].order].refunded + ManualAmount(req[v])'
  BY DEF ManualSummed
<1>1. CASE req'[v] = req[v]
  <2>1. /\ req[v].order \in OrderIds /\ Exists(order[req[v].order]) /\ req[v].row \in Refunds
        /\ req[v].sum <= payment[req[v].order].refunded + ManualAmount(req[v])
    BY <1>t, <1>1 DEF WellFormed, TaskFacts, BeforeOrder, ManualSummed
  <2>2. /\ payment[req[v].order].refunded \in Nat /\ payment'[req[v].order].refunded \in Nat
        /\ req[v].sum \in Nat /\ req[v].amount \in Nat
    BY <1>t, <2>1 DEF WellFormed, Task, PaymentRow
  <2>3. payment'[req[v].order].refunded >= payment[req[v].order].refunded
    BY <2>1, ReturnsKept DEF StepOf, MoneyChange
  <2>4. CASE refund[req[v].row].status # "PENDING"
    <3>1. req[v].sum <= payment[req[v].order].refunded
      BY <2>1, <2>2, <2>4 DEF ManualAmount
    <3>2. ManualAmount(req[v])' \in Nat
      BY <1>1, <2>2 DEF ManualAmount
    <3> QED BY <1>1, <2>2, <2>3, <3>1, <3>2
  <2>5. CASE refund[req[v].row].status = "PENDING"
    <3>1. refund'[req[v].row] = refund[req[v].row]
      <4>1. CASE At(u, "manualCommit") /\ req[v].row = req[u].row /\ req'[u] = Idle
        <5>1. u = v
          BY <1>1, <4>1 DEF ReturnInv, RowsLocked, At
        <5> QED BY <4>1, <5>1 DEF Idle
      <4> QED BY <2>1, <2>5, <4>1 DEF StepOf, MoneyChange, RefundChange
    <3>2. ManualAmount(req[v])' = ManualAmount(req[v]) /\ ManualAmount(req[v]) \in Nat
      BY <1>1, <2>2, <3>1 DEF ManualAmount
    <3> QED BY <1>1, <2>1, <2>2, <2>3, <3>2
  <2> QED BY <2>4, <2>5
<1>2. CASE req'[v] = Idle
  BY <1>2 DEF Idle
<1>3. CASE ManualUpdate(v)
  <2> DEFINE paid == payment[req[v].order].refunded
  <2>1. PICK sum : /\ req' = [req EXCEPT ![v] = [req[v] EXCEPT !.pc = "manualCommit", !.sum = sum]]
                   /\ sum = IF refund[req[v].row].status = "PENDING"
                            THEN paid + req[v].amount ELSE paid
    BY <1>3 DEF ManualUpdate, Continue
  <2>2. req[v].order \in OrderIds /\ req[v].amount \in Nat /\ paid \in Nat
    BY <1>t, <1>3 DEF ManualUpdate, At, WellFormed, BeforeOrder, Task, PaymentRow
  <2> HIDE DEF paid
  <2>3. sum = paid + ManualAmount(req[v]) /\ sum \in Nat
    BY <2>1, <2>2 DEF ManualAmount
  <2> DEFINE t == [req[v] EXCEPT !.pc = "manualCommit", !.sum = sum]
  <2>4. t.sum = sum /\ t.order = req[v].order /\ t.amount = req[v].amount /\ t.row = req[v].row
    BY <1>t DEF WellFormed, Task
  <2>5. req'[v] = t /\ payment' = payment /\ refund' = refund
    BY <1>t, <1>3, <2>1, OthersStay DEF ManualUpdate
  <2> HIDE DEF t
  <2>6. ManualAmount(req[v])' = ManualAmount(req[v])
    BY <2>4, <2>5 DEF ManualAmount
  <2>7. payment'[req'[v].order].refunded = paid /\ req'[v].sum = sum
    BY <2>4, <2>5 DEF paid
  <2> QED BY <2>3, <2>6, <2>7
<1>4. CASE Enters(v)
  BY <1>3, <1>4 DEF Enters, EntersCheckout, EntersPayment, EntersRefund, EntersFulfillment
<1> QED BY <1>t, <1>1, <1>2, <1>4, TaskHistory

LEMMA LocksKept ==
    ASSUME FactsInv, ReturnInv, [Next]_vars, NEW u \in Workers, StepOf(u)
    PROVE  RowsLocked'
<1>t. ReqInv
  BY DEF FactsInv, TypeInv
<1>1. ASSUME NEW v \in Workers, NEW w \in Workers, v # w,
             At(v, "manualCommit")', req'[v] # req[v]
      PROVE  /\ req'[w] = req[w]
             /\ At(w, "manualCommit") => req'[v].row # req[w].row
  <2>1. ManualUpdate(v)
    <3>1. Enters(v)
      BY <1>t, <1>1, TaskHistory DEF At, Idle
    <3> QED BY <1>1, <3>1
      DEF At, Enters, EntersCheckout, EntersPayment, EntersRefund, EntersFulfillment
  <2>2. PICK sum : req' = [req EXCEPT ![v] = [req[v] EXCEPT !.pc = "manualCommit", !.sum = sum]]
    BY <2>1 DEF ManualUpdate, Continue
  <2>3. [req[v] EXCEPT !.pc = "manualCommit", !.sum = sum].row = req[v].row
    BY <1>t DEF ReqInv, Task
  <2>4. req'[v].row = req[v].row /\ req'[w] = req[w]
    BY <1>t, <1>1, <2>2, <2>3, OthersStay
  <2> QED BY <2>1, <2>4 DEF ManualUpdate
<1> SUFFICES ASSUME NEW v \in Workers, NEW w \in Workers, v # w,
                    At(v, "manualCommit")', At(w, "manualCommit")', req'[v].row = req'[w].row
             PROVE  FALSE
  BY DEF RowsLocked
<1>2. CASE req'[v] # req[v]
  BY <1>1, <1>2 DEF At
<1>3. CASE req'[w] # req[w]
  BY <1>1, <1>3 DEF At
<1>4. CASE req'[v] = req[v] /\ req'[w] = req[w]
  BY <1>4 DEF ReturnInv, RowsLocked, At
<1> QED BY <1>2, <1>3, <1>4

LEMMA InitReturn == Init => ReturnInv
<1> SUFFICES ASSUME Init PROVE ReturnInv
  OBVIOUS
<1>1. RefundedMeansReturned
  BY DEF Init, NoPayment, RefundedMeansReturned, None
<1>3. \A w \in Workers : req[w].pc = "idle"
  BY DEF Init, Idle
<1> QED BY <1>1, <1>3 DEF ReturnInv, RefundSummed, ManualSummed, NewsOfEvent, RowsLocked, At

LEMMA NextReturn ==
    ASSUME FactsInv, FactsInv', ReturnInv, [Next]_vars
    PROVE  ReturnInv'
<1>1. PICK u \in Workers : StepOf(u)
  BY StepMoney DEF StepOf
<1>2. TypeInv'
  BY DEF FactsInv
<1>3. RefundedMeansReturned'
  BY <1>1, <1>2, RefundedKept DEF StepOf, MoneyChange
<1>5. \A v \in Workers : RefundSummed(req[v])'
  BY <1>1, <1>2, RefundSumKept DEF StepOf, MoneyChange
<1>6. \A v \in Workers : ManualSummed(req[v])'
  BY <1>1, <1>2, ManualSumKept
<1>7. \A v \in Workers : NewsOfEvent(req[v])'
  BY <1>1, NewsKept DEF StepOf, MoneyChange
<1>8. RowsLocked'
  BY <1>1, LocksKept
<1> QED BY <1>3, <1>5, <1>6, <1>7, <1>8 DEF ReturnInv

(***************************************************************************)
(* Whatever interleaves, what a refund is about to commit never says more  *)
(* than will have been returned (refundPayment, completeManual), and a     *)
(* webhook that is about to write REFUNDED has an event that says so.      *)
(***************************************************************************)
THEOREM ReturnsSummed == Spec => []ReturnInv
<1>1. FactsInv /\ FactsInv' /\ ReturnInv /\ [Next]_vars => ReturnInv'
  BY NextReturn
<1> QED BY <1>1, InitReturn, Facts, PTL DEF Spec

(***************************************************************************)
(* A payment reads REFUNDED only when everything paid was given back       *)
(* (RefundService: refundPayment, completeManual), or an event of the      *)
(* provider reported it so (processWebhook).                               *)
(***************************************************************************)
THEOREM RefundedReturned == Spec => []RefundedMeansReturned
<1>1. ReturnInv => RefundedMeansReturned
  BY DEF ReturnInv
<1> QED BY <1>1, ReturnsSummed, PTL
---------------------------------------------------------------------------
(* An order and its payment.  createPayment asks for the idempotency key   *)
(* first and inserts the payment last; what must not come in between is    *)
(* another checkout with that key.                                         *)

\* No two checkouts are in their transaction with one idempotency key.
Ordering(w) == req[w].pc \in {"loadCart", "reserve"}

KeysApart ==
    \A v, w \in Requests :
        Ordering(v) /\ Ordering(w) /\ req[v].key = req[w].key => v = w

OrderingIsNew == \A w \in Requests : Ordering(w) => ~KeyUsed(req[w].key)

CheckoutInv == EveryOrderHasPayment /\ OrderingIsNew

\* A key gets its first payment in the transaction of a checkout with that key.
LEMMA KeyComesWithOrder ==
    ASSUME FactsInv, ReturnInv, [Next]_vars, NEW k, ~KeyUsed(k), KeyUsed(k)'
    PROVE  \E w \in Requests : ReserveAndCreate(w) /\ req[w].key = k
<1>t. payment \in [OrderIds -> PaymentRow]
  BY DEF FactsInv, TypeInv, RowInv
<1>o. PICK o \in OrderIds : payment'[o].key = k /\ payment[o].key # k
  BY DEF KeyUsed
<1>n. payment' # payment
  BY <1>o
<1>1. ASSUME NEW w, ReserveAndCreate(w) PROVE req[w].key = k
  <2>1. PICK x \in OrderIds : payment' = [payment EXCEPT ![x] =
                                  [NoPayment EXCEPT !.status = "PENDING", !.key = req[w].key]]
    BY <1>1, <1>n DEF ReserveAndCreate
  <2>2. x = o /\ payment'[o].key = req[w].key
    BY <1>t, <1>o, <2>1 DEF NoPayment
  <2> QED BY <1>o, <2>2
<1>2. ASSUME NEW w \in Workers, Charge(w) PROVE FALSE
  BY <1>t, <1>o, <1>2 DEF Charge, PaymentRow
<1>3. ASSUME NEW w \in Workers, ApplyEvent(w) PROVE FALSE
  BY <1>t, <1>o, <1>3 DEF ApplyEvent, PaymentRow
<1>4. ASSUME NEW w \in Workers, RefundCommit(w) PROVE FALSE
  BY <1>t, <1>o, <1>4 DEF RefundCommit, PaymentRow
<1>5. ASSUME NEW w \in Workers, ManualCommit(w) PROVE FALSE
  BY <1>t, <1>o, <1>5 DEF ManualCommit, PaymentRow
<1>6. /\ ~CartStep /\ ~BusinessStep /\ ~SweeperStep /\ ~UNCHANGED vars
      /\ \A w \in Workers : ~Fail(w)
  BY <1>n DEF CartStep, ClearCart, AddItem, RemoveItem, BusinessStep, SweeperStep, SweepOrphan,
              CheckEligible, InsertDelivery, vars, Fail
<1>7. ASSUME NEW w \in Requests,
             CheckoutStep(w) \/ PaymentStep(w) \/ RefundStep(w) \/ FulfillmentStep(w)
      PROVE  ReserveAndCreate(w)
  <2>1. w \in Workers
    BY DEF Workers
  <2>2. CheckoutStep(w) => ReserveAndCreate(w)
    BY <1>n DEF CheckoutStep, CheckKey, LoadCart, RejectCheckout, SyncRead, MarkPaid, CancelUnpaid
  <2>3. PaymentStep(w) => Charge(w) \/ ApplyEvent(w)
    BY <1>n DEF PaymentStep, ConfirmRead, ReadPayment, ReceiveEvent, RedeliverEvent, AckEvent
  <2>4. RefundStep(w) => RefundCommit(w) \/ ManualCommit(w)
    BY <1>n DEF RefundStep, CancelRead, CancelCommit, AdminRefund, RefundCheck, RefundSum,
                RefundWrite, ManualRead, ManualUpdate
  <2>5. ~FulfillmentStep(w)
    BY <1>n DEF FulfillmentStep, BusinessRead, ReadyRead, PickUpRead, ReopenRead,
                CancelDeliveryRead, DeliverRead, BusinessWrite, CheckEligible, InsertDelivery,
                PickUpWrite, ReopenWrite, CancelDeliveryCommit, DeliverCommit
  <2> QED BY <1>2, <1>3, <1>4, <1>5, <1>7, <2>1, <2>2, <2>3, <2>4, <2>5
<1> QED BY <1>1, <1>6, <1>7 DEF Next

\* What a step does to a request slot: nothing, or what its own handler does.
LEMMA SlotMoves ==
    ASSUME FactsInv, [Next]_vars, NEW w \in Requests
    PROVE  req'[w] = req[w] \/ req'[w] = Idle \/ Enters(w)
<1>w. w \in Workers /\ w # Sweeper /\ ReqInv
  BY WorkersAssumption DEF Workers, FactsInv, TypeInv
<1>1. CASE CartStep \/ BusinessStep \/ UNCHANGED vars
  BY <1>1 DEF CartStep, ClearCart, AddItem, RemoveItem, BusinessStep, vars
<1>2. CASE SweeperStep
  BY <1>w, <1>2, SweeperEnters DEF OwnTask
<1>3. ASSUME NEW v \in Requests,
             CheckoutStep(v) \/ PaymentStep(v) \/ RefundStep(v) \/ FulfillmentStep(v)
      PROVE  req'[w] = req[w] \/ req'[w] = Idle \/ Enters(w)
  BY <1>w, <1>3, RequestEnters DEF OwnTask
<1>4. ASSUME NEW v \in Workers, Fail(v)
      PROVE  req'[w] = req[w] \/ req'[w] = Idle \/ Enters(w)
  BY <1>w, <1>4, FinishOwn DEF Fail, OwnTask
<1> QED BY <1>1, <1>2, <1>3, <1>4 DEF Next

LEMMA OrderingStaysNew ==
    ASSUME FactsInv, ReturnInv, KeysApart, OrderingIsNew, [Next]_vars
    PROVE  OrderingIsNew'
<1> SUFFICES ASSUME NEW w \in Requests, Ordering(w)', KeyUsed(req[w].key)'
             PROVE  FALSE
  BY DEF OrderingIsNew, KeyUsed
<1>w. w \in Workers /\ req[w] \in Task
  BY DEF Workers, FactsInv, TypeInv, ReqInv
<1>1. CASE req'[w] = req[w]
  <2>0. PICK k : k = req[w].key /\ k = req'[w].key
    BY <1>1
  <2>1. Ordering(w) /\ ~KeyUsed(k)
    BY <1>1, <2>0 DEF Ordering, OrderingIsNew
  <2>2. KeyUsed(k)'
    BY <2>0 DEF KeyUsed
  <2>3. PICK v \in Requests : ReserveAndCreate(v) /\ req[v].key = k
    BY <2>1, <2>2, KeyComesWithOrder
  <2>4. v = w
    BY <2>0, <2>1, <2>3 DEF KeysApart, Ordering, ReserveAndCreate, At
  <2>5. req'[w] = Idle
    BY <1>w, <2>3, <2>4, OthersStay DEF ReserveAndCreate, Finish, FactsInv, TypeInv
  <2> QED BY <2>5 DEF Ordering, Idle
<1>2. CASE req'[w] = Idle
  BY <1>2 DEF Ordering, Idle
<1>3. ASSUME NEW k \in Keys, NEW type \in FulfillmentTypes, CheckKey(w, k, type)
      PROVE  FALSE
  <2>1. [Idle EXCEPT !.pc = "loadCart", !.key = k, !.type = type].key = k
    BY DEF Idle
  <2>2. req'[w].key = k
    BY <1>w, <1>3, <2>1, OthersStay DEF CheckKey, Start, FactsInv, TypeInv
  <2> QED BY <1>3, <2>2 DEF CheckKey, KeyUsed
<1>4. CASE LoadCart(w)
  <2>1. [req[w] EXCEPT !.pc = "reserve", !.cart = cart.id, !.lines = cart.lines].key = req[w].key
    BY <1>w DEF Task
  <2>2. req'[w].key = req[w].key
    BY <1>w, <1>4, <2>1, OthersStay DEF LoadCart, Continue, FactsInv, TypeInv
  <2> QED BY <1>4, <2>2 DEF LoadCart, At, OrderingIsNew, Ordering, KeyUsed
<1>5. Enters(w) => EntersCheckout(w)
  BY DEF Ordering, Enters, EntersPayment, EntersRefund, EntersFulfillment
<1>6. EntersCheckout(w) => LoadCart(w) \/ \E k \in Keys, type \in FulfillmentTypes :
                                            CheckKey(w, k, type)
  BY DEF Ordering, EntersCheckout
<1> QED BY <1>1, <1>2, <1>3, <1>4, <1>5, <1>6, SlotMoves

\* A payment, once there, stays there.
LEMMA PaymentStays ==
    ASSUME FactsInv, ReturnInv, [Next]_vars, NEW o \in OrderIds, payment[o].status # None
    PROVE  payment'[o].status # None
<1>t. payment \in [OrderIds -> PaymentRow]
  BY DEF FactsInv, TypeInv, RowInv
<1>1. PICK u \in Workers : PaymentChange(u)
  BY StepMoney DEF MoneyChange
<1>2. ASSUME NEW x \in OrderIds, payment'[x].status = "PENDING",
             \A y \in OrderIds : y # x => payment'[y] = payment[y]
      PROVE  payment'[o].status # None
  BY <1>2 DEF None
<1>3. ASSUME NEW x, NEW s \in PaymentStatuses, NEW n,
             payment' = [payment EXCEPT ![x].status = s, ![x].charged = n]
      PROVE  payment'[o].status # None
  BY <1>t, <1>3 DEF PaymentRow, PaymentStatuses, None
<1>4. ASSUME NEW x, NEW amount, NEW sum, Returned(x, amount, sum)
      PROVE  payment'[o].status # None
  BY <1>t, <1>4 DEF Returned, StatusAfterRefund, PaymentRow, None
<1> QED BY <1>1, <1>2, <1>3, <1>4 DEF PaymentChange

\* Only a checkout makes an order, and makes its payment with it.
LEMMA CheckoutPays ==
    ASSUME FactsInv, NEW w \in Requests, ~KeyUsed(req[w].key), ReserveAndCreate(w), NEW o \in OrderIds,
           ~Exists(order[o]), Exists(order'[o])
    PROVE  payment'[o].status # None
<1>1. payment \in [OrderIds -> PaymentRow] /\ order \in [OrderIds -> OrderRow]
  BY DEF FactsInv, TypeInv, RowInv
<1>2. PICK x \in OrderIds : /\ order' = [order EXCEPT ![x] =
                                  [status |-> "PAYMENT_PENDING", type |-> req[w].type,
                                   lines |-> req[w].lines]]
                            /\ payment' = [payment EXCEPT ![x] =
                                  [NoPayment EXCEPT !.status = "PENDING", !.key = req[w].key]]
  BY DEF ReserveAndCreate
<1>3. x = o
  BY <1>1, <1>2 DEF Exists
<1> QED BY <1>1, <1>2, <1>3 DEF NoPayment, None

LEMMA PaymentsThere ==
    ASSUME FactsInv, ReturnInv, CheckoutInv, [Next]_vars
    PROVE  EveryOrderHasPayment'
<1> SUFFICES ASSUME NEW o \in OrderIds, Exists(order'[o])
             PROVE  payment'[o].status # None
  BY DEF EveryOrderHasPayment, Exists
<1>1. CASE Exists(order[o])
  BY <1>1, PaymentStays DEF CheckoutInv, EveryOrderHasPayment, Exists
<1>2. CASE ~Exists(order[o])
  <2>1. PICK w \in Requests : ReserveAndCreate(w)
    <3>t. order \in [OrderIds -> OrderRow]
      BY DEF FactsInv, TypeInv, RowInv
    <3>1. order' # order
      BY <1>2
    <3>2. ASSUME NEW x \in OrderIds, Exists(order[x]), NEW s,
                 order' = [order EXCEPT ![x].status = s]
          PROVE  FALSE
      BY <1>2, <3>t, <3>2 DEF Exists
    <3>3. ASSUME NEW w \in Workers,
                 \/ MarkPaid(w) \/ CancelUnpaid(w) \/ CancelCommit(w)
                 \/ BusinessWrite(w) \/ DeliverCommit(w)
          PROVE  FALSE
      <4>1. req[w].order \in OrderIds /\ Exists(order[req[w].order])
        BY <3>3 DEF MarkPaid, CancelUnpaid, CancelCommit, BusinessWrite, DeliverCommit, At,
                    FactsInv, TypeInv, ReqInv, WellFormed, TaskFacts, BeforeOrder
      <4>2. \E s : order' = [order EXCEPT ![req[w].order].status = s]
        BY <3>1, <3>3 DEF MarkPaid, CancelUnpaid, CancelCommit, BusinessWrite, DeliverCommit,
                         SetStatus
      <4> QED BY <3>2, <4>1, <4>2
    <3>4. /\ ~CartStep /\ ~BusinessStep /\ ~SweeperStep /\ ~UNCHANGED vars
          /\ \A w \in Workers : ~Fail(w)
      BY <3>1 DEF CartStep, ClearCart, AddItem, RemoveItem, BusinessStep, SweeperStep,
                  SweepOrphan, CheckEligible, InsertDelivery, vars, Fail
    <3>5. ASSUME NEW w \in Requests,
                 CheckoutStep(w) \/ PaymentStep(w) \/ RefundStep(w) \/ FulfillmentStep(w)
          PROVE  ReserveAndCreate(w)
      <4>1. w \in Workers
        BY DEF Workers
      <4>2. ~PaymentStep(w)
        BY <3>1 DEF PaymentStep, ConfirmRead, ReadPayment, Charge, ReceiveEvent, RedeliverEvent,
                    ApplyEvent, AckEvent
      <4>3. RefundStep(w) => CancelCommit(w)
        BY <3>1 DEF RefundStep, CancelRead, AdminRefund, RefundCheck, RefundSum, RefundWrite,
                    RefundCommit, ManualRead, ManualUpdate, ManualCommit
      <4>4. FulfillmentStep(w) => BusinessWrite(w) \/ DeliverCommit(w)
        BY <3>1 DEF FulfillmentStep, BusinessRead, ReadyRead, PickUpRead, ReopenRead,
                    CancelDeliveryRead, DeliverRead, CheckEligible, InsertDelivery,
                    PickUpWrite, ReopenWrite, CancelDeliveryCommit
      <4>5. CheckoutStep(w) => ReserveAndCreate(w) \/ MarkPaid(w) \/ CancelUnpaid(w)
        BY <3>1 DEF CheckoutStep, CheckKey, LoadCart, RejectCheckout, SyncRead
      <4> QED BY <3>3, <3>5, <4>1, <4>2, <4>3, <4>4, <4>5
    <3> QED BY <3>4, <3>5 DEF Next
  <2>2. ~KeyUsed(req[w].key)
    BY <2>1 DEF CheckoutInv, OrderingIsNew, Ordering, ReserveAndCreate, At
  <2> QED BY <1>2, <2>1, <2>2, CheckoutPays
<1> QED BY <1>1, <1>2

(***************************************************************************)
(* createPayment leaves no order without its payment, whatever overlaps    *)
(* it: other checkouts, confirmations, events, refunds, deliveries and     *)
(* failures.  Only two checkouts that are in their transactions with one   *)
(* idempotency key can, the key being asked for before and not again.      *)
(***************************************************************************)
THEOREM OrdersHavePayments == Spec /\ []KeysApart => []EveryOrderHasPayment
<1>1. Init => CheckoutInv
  <2> SUFFICES ASSUME Init PROVE CheckoutInv
    OBVIOUS
  <2>1. \A o \in OrderIds : order[o].status = None
    BY DEF Init, NoOrder
  <2>2. \A w \in Requests : req[w].pc = "idle"
    BY DEF Init, Workers, Idle
  <2> QED BY <2>1, <2>2 DEF CheckoutInv, EveryOrderHasPayment, OrderingIsNew, Ordering
<1>2. FactsInv /\ ReturnInv /\ KeysApart /\ CheckoutInv /\ [Next]_vars => CheckoutInv'
  BY OrderingStaysNew, PaymentsThere DEF CheckoutInv
<1>3. CheckoutInv => EveryOrderHasPayment
  BY DEF CheckoutInv
<1> QED BY <1>1, <1>2, <1>3, Facts, ReturnsSummed, PTL DEF Spec
=============================================================================
