--------------------------- MODULE OrdersSerialProofs ------------------------
(***************************************************************************)
(* What holds of Orders when its requests do not overlap.  A request slot  *)
(* serves one request after the other, so a single slot is any number of   *)
(* them, one at a time; the sweeper and failures still interleave.  The    *)
(* service methods check what they read and, but for two compare-and-swaps,*)
(* write without checking again: this is what they promise on those terms. *)
(*                                                                         *)
(* The argument: with no other request about, what a request read is still *)
(* so when it writes (Timely); and what the sweeper saw stays so whatever  *)
(* the request does, because a readied order can only complete.            *)
(***************************************************************************)
EXTENDS OrdersPaymentProofs

OneRequest == \A v, w \in Requests : v = w

\* An order the business has readied for a courier.
Readied(o) ==
    order[o].type = "DELIVERY" /\ order[o].status \in {"READY_FOR_PICKUP", "COMPLETED"}

(***************************************************************************)
(* Timely: what task t still knows of the rows it read.                    *)
(***************************************************************************)
MayStillPay(t)    == t.pc = "markPaid" => CanTransition(order[t.order].status, "PAID")
MayStillCancel(t) ==
    t.pc \in {"cancel", "cancelUnpaid"} => CanTransition(order[t.order].status, "CANCELLED")
MayStillSet(t) ==
    t.pc = "setStatus" /\ order[t.order].type = "DELIVERY" => t.target # "COMPLETED"
StillReadied(t)   == t.pc \in {"eligible", "insertDelivery"} => Readied(t.order)
StillCompletes(t) == t.pc = "complete" => t.seen = order[t.order].status
StillOut(t) ==
    /\ t.pc = "pickUp" => delivery[t.order] \in {"OPEN", "ON_ROAD"}
    /\ t.pc \in {"reopen", "cancelDelivery"} => delivery[t.order] = "OPEN"

Timely(t) ==
    /\ MayStillPay(t) /\ MayStillCancel(t) /\ MayStillSet(t)
    /\ StillReadied(t) /\ StillOut(t) /\ StillCompletes(t)

SweeperKnows ==
    /\ req[Sweeper].pc \in {"idle", "eligible", "insertDelivery"}
    /\ req[Sweeper].pc # "idle" => Readied(req[Sweeper].order)

CompletedWasDelivered ==
    \A o \in OrderIds : Readied(o) /\ order[o].status = "COMPLETED" => delivery[o] = "DELIVERED"

SerialInv ==
    /\ DeliveryFollowsReadiness
    /\ CompletedWasDelivered
    /\ SweeperKnows
    /\ \A w \in Requests : Timely(req[w])

LEMMA IdleTimely == Timely(Idle) /\ Timely(Idle)'
BY DEF Timely, MayStillPay, MayStillCancel, MayStillSet, StillReadied, StillOut, StillCompletes, Idle

\* A readied order has one move left.
LEMMA ReadyMoves ==
    ASSUME NEW from \in {"READY_FOR_PICKUP", "COMPLETED"}, NEW to, CanTransition(from, to)
    PROVE  from = "READY_FOR_PICKUP" /\ to = "COMPLETED"
BY DEF CanTransition, Transitions, OrderStatuses

---------------------------------------------------------------------------
(* What a step does to orders, stock and deliveries *)

Advanced ==
    \E o \in OrderIds, s \in OrderStatuses :
        /\ Exists(order[o])
        /\ CanTransition(order[o].status, s)
        /\ s # "CANCELLED"
        /\ order[o].type = "DELIVERY" /\ s = "COMPLETED" => delivery'[o] = "DELIVERED"
        /\ order' = [order EXCEPT ![o].status = s]
        /\ stock' = stock

Withdrawn ==
    \E o \in OrderIds :
        /\ Exists(order[o])
        /\ CanTransition(order[o].status, "CANCELLED")
        /\ order' = [order EXCEPT ![o].status = "CANCELLED"]
        /\ stock' = StockReleased(order[o].lines)

OrderMove == Untouched \/ Placed \/ Advanced \/ Withdrawn

\* A delivery is carried on, short of its end.
Carried(o) ==
    /\ Readied(o)
    /\ order' = order
    /\ delivery[o] # "DELIVERED"
    /\ delivery'[o] \in {"OPEN", "ON_ROAD", "CANCELLED"}

Handed(o) ==
    /\ Readied(o)
    /\ delivery'[o] = "DELIVERED"
    /\ order'[o].status = "COMPLETED"

DeliveryMove == \A o \in OrderIds : delivery'[o] = delivery[o] \/ Carried(o) \/ Handed(o)

RowsMove == OrderMove /\ DeliveryMove

LEMMA SameRowsMove ==
    ASSUME UNCHANGED <<order, stock, delivery>>
    PROVE  RowsMove
BY DEF RowsMove, OrderMove, DeliveryMove, Untouched

LEMMA InsertMove ==
    ASSUME FactsInv, SerialInv, NEW w \in Workers, InsertDelivery(w), Readied(req[w].order)
    PROVE  RowsMove
<1>1. /\ delivery \in [OrderIds -> DeliveryStatuses \cup {None}]
      /\ delivery' = [delivery EXCEPT ![req[w].order] = IF @ = None THEN "OPEN" ELSE @]
  BY DEF FactsInv, TypeInv, RowInv, InsertDelivery
<1>2. DeliveryMove
  BY <1>1 DEF DeliveryMove, Carried, InsertDelivery, None
<1> QED BY <1>2 DEF RowsMove, OrderMove, Untouched, InsertDelivery

LEMMA CheckoutMoves ==
    ASSUME FactsInv, NEW w \in Workers, CheckoutStep(w), Timely(req[w])
    PROVE  RowsMove
<1>t. WellFormed(req[w]) /\ TaskFacts(req[w], order)
  BY DEF FactsInv, TypeInv, ReqInv
<1>1. CASE ReserveAndCreate(w)
  <2>1. req[w].type \in FulfillmentTypes /\ req[w].lines \in SUBSET Products
    BY <1>t, <1>1 DEF ReserveAndCreate, At, WellFormed, Task
  <2>2. Placed
    BY <1>1, <2>1 DEF ReserveAndCreate, Placed, Exists
  <2> QED BY <1>1, <2>2 DEF ReserveAndCreate, RowsMove, OrderMove, DeliveryMove
<1>2. CASE MarkPaid(w)
  <2>1. /\ req[w].order \in OrderIds /\ Exists(order[req[w].order])
        /\ CanTransition(order[req[w].order].status, "PAID")
    BY <1>t, <1>2 DEF MarkPaid, At, WellFormed, TaskFacts, BeforeOrder, Timely, MayStillPay
  <2>2. Advanced
    BY <1>2, <2>1 DEF MarkPaid, SetStatus, Advanced, OrderStatuses
  <2> QED BY <1>2, <2>2 DEF MarkPaid, RowsMove, OrderMove, DeliveryMove
<1>3. CASE CancelUnpaid(w)
  <2>1. /\ req[w].order \in OrderIds /\ Exists(order[req[w].order])
        /\ CanTransition(order[req[w].order].status, "CANCELLED")
    BY <1>t, <1>3 DEF CancelUnpaid, At, WellFormed, TaskFacts, BeforeOrder, Timely, MayStillCancel
  <2>2. Withdrawn
    BY <1>3, <2>1 DEF CancelUnpaid, SetStatus, Withdrawn
  <2> QED BY <1>3, <2>2 DEF CancelUnpaid, RowsMove, OrderMove, DeliveryMove
<1>4. CASE ~ReserveAndCreate(w) /\ ~MarkPaid(w) /\ ~CancelUnpaid(w)
  BY <1>4, SameRowsMove DEF CheckoutStep, CheckKey, LoadCart, RejectCheckout, SyncRead
<1> QED BY <1>1, <1>2, <1>3, <1>4

LEMMA PaymentMoves == ASSUME NEW w \in Workers, PaymentStep(w) PROVE RowsMove
BY SameRowsMove
DEF PaymentStep, ConfirmRead, ReadPayment, Charge, ReceiveEvent, RedeliverEvent, ApplyEvent, AckEvent

LEMMA RefundMoves ==
    ASSUME FactsInv, NEW w \in Workers, RefundStep(w), Timely(req[w])
    PROVE  RowsMove
<1>1. CASE CancelCommit(w)
  <2>1. WellFormed(req[w]) /\ TaskFacts(req[w], order)
    BY DEF FactsInv, TypeInv, ReqInv
  <2>2. /\ req[w].order \in OrderIds /\ Exists(order[req[w].order])
        /\ req[w].lines = order[req[w].order].lines
        /\ CanTransition(order[req[w].order].status, "CANCELLED")
    BY <1>1, <2>1 DEF CancelCommit, At, WellFormed, TaskFacts, BeforeOrder, Timely, MayStillCancel
  <2>3. Withdrawn
    BY <1>1, <2>2 DEF CancelCommit, SetStatus, Withdrawn
  <2> QED BY <1>1, <2>3 DEF CancelCommit, RowsMove, OrderMove, DeliveryMove
<1>2. CASE ~CancelCommit(w)
  BY <1>2, SameRowsMove
  DEF RefundStep, CancelRead, AdminRefund, RefundCheck, RefundSum, RefundWrite, RefundCommit,
      ManualRead, ManualUpdate, ManualCommit
<1> QED BY <1>1, <1>2

LEMMA FulfillmentMoves ==
    ASSUME FactsInv, SerialInv, NEW w \in Workers, FulfillmentStep(w), Timely(req[w])
    PROVE  RowsMove
<1> DEFINE o == req[w].order
<1>t. /\ WellFormed(req[w]) /\ TaskFacts(req[w], order)
      /\ order \in [OrderIds -> OrderRow]
      /\ delivery \in [OrderIds -> DeliveryStatuses \cup {None}]
  BY DEF FactsInv, TypeInv, ReqInv, RowInv
<1>o. req[w].pc \notin BeforeOrder => o \in OrderIds /\ Exists(order[o])
  BY <1>t DEF WellFormed, TaskFacts
<1>r. ASSUME o \in OrderIds, delivery[o] \in {"OPEN", "ON_ROAD"}
      PROVE  Readied(o)
  BY <1>r DEF SerialInv, DeliveryFollowsReadiness, Readied, None
<1>1. CASE BusinessWrite(w)
  <2>1. /\ o \in OrderIds /\ Exists(order[o])
        /\ req[w].target \in BusinessSettable /\ CanTransition(req[w].seen, req[w].target)
        /\ order[o].type = "DELIVERY" => req[w].target # "COMPLETED"
    BY <1>t, <1>o, <1>1 DEF BusinessWrite, At, TaskFacts, BeforeOrder, Timely, MayStillSet
  <2>2. CASE StillAsRead(req[w])
    <3>1. order' = [order EXCEPT ![o].status = req[w].target] /\ stock' = stock
      BY <1>1, <2>2 DEF BusinessWrite, SetStatus
    <3>2. req[w].target \in OrderStatuses /\ req[w].target # "CANCELLED"
      BY <2>1 DEF BusinessSettable, OrderStatuses
    <3>3. CanTransition(order[o].status, req[w].target)
      BY <2>1, <2>2 DEF StillAsRead
    <3>4. Advanced
      BY <2>1, <3>1, <3>2, <3>3 DEF Advanced
    <3> QED BY <1>1, <3>4 DEF BusinessWrite, RowsMove, OrderMove, DeliveryMove
  <2>3. CASE ~StillAsRead(req[w])
    BY <1>1, <2>3, SameRowsMove DEF BusinessWrite
  <2> QED BY <2>2, <2>3
<1>2. CASE InsertDelivery(w)
  BY <1>2, InsertMove DEF InsertDelivery, At, Timely, StillReadied
<1>3. CASE PickUpWrite(w)
  <2>1. o \in OrderIds /\ delivery[o] \in {"OPEN", "ON_ROAD"} /\ Readied(o)
    BY <1>o, <1>r, <1>3 DEF PickUpWrite, At, BeforeOrder, Timely, StillOut
  <2>2. DeliveryMove
    BY <1>t, <1>3, <2>1 DEF PickUpWrite, DeliveryMove, Carried
  <2> QED BY <1>3, <2>2 DEF PickUpWrite, RowsMove, OrderMove, Untouched
<1>4. CASE ReopenWrite(w)
  <2>1. o \in OrderIds /\ delivery[o] \in {"OPEN", "ON_ROAD"} /\ Readied(o)
    BY <1>o, <1>r, <1>4 DEF ReopenWrite, At, BeforeOrder, Timely, StillOut
  <2>2. DeliveryMove
    BY <1>t, <1>4, <2>1 DEF ReopenWrite, DeliveryMove, Carried
  <2> QED BY <1>4, <2>2 DEF ReopenWrite, RowsMove, OrderMove, Untouched
<1>5. CASE CancelDeliveryCommit(w)
  <2>1. o \in OrderIds /\ delivery[o] \in {"OPEN", "ON_ROAD"} /\ Readied(o)
    BY <1>o, <1>r, <1>5 DEF CancelDeliveryCommit, At, BeforeOrder, Timely, StillOut
  <2>2. DeliveryMove
    BY <1>t, <1>5, <2>1 DEF CancelDeliveryCommit, DeliveryMove, Carried
  <2> QED BY <1>5, <2>2 DEF CancelDeliveryCommit, RowsMove, OrderMove, Untouched
<1>6. CASE DeliverCommit(w)
  <2>1. o \in OrderIds /\ delivery[o] = "ON_ROAD" /\ Readied(o)
    BY <1>o, <1>r, <1>6 DEF DeliverCommit, At, BeforeOrder, FactsInv, LockFacts, Workers
  <2>2. /\ order[o].status = "READY_FOR_PICKUP" /\ req[w].seen = "READY_FOR_PICKUP"
        /\ order[o].type = "DELIVERY"
    BY <1>6, <2>1
    DEF DeliverCommit, At, Timely, StillCompletes, SerialInv, DeliveryFollowsReadiness, None
  <2>3. CanTransition("READY_FOR_PICKUP", "COMPLETED") /\ Exists(order[o])
    BY <2>2 DEF CanTransition, Transitions, OrderStatuses, Exists, None
  <2>4. /\ order' = [order EXCEPT ![o].status = "COMPLETED"] /\ stock' = stock
        /\ delivery' = [delivery EXCEPT ![o] = "DELIVERED"]
    BY <1>6, <2>2, <2>3 DEF DeliverCommit, SetStatus
  <2>5. delivery'[o] = "DELIVERED" /\ order'[o].status = "COMPLETED"
    BY <1>t, <2>1, <2>4 DEF OrderRow
  <2>6. Advanced
    BY <2>1, <2>2, <2>3, <2>4, <2>5 DEF Advanced, OrderStatuses
  <2>7. DeliveryMove
    BY <1>t, <2>1, <2>4, <2>5 DEF DeliveryMove, Handed
  <2> QED BY <2>6, <2>7 DEF RowsMove, OrderMove
<1>7. CASE ~BusinessWrite(w) /\ ~InsertDelivery(w) /\ ~PickUpWrite(w) /\ ~ReopenWrite(w)
           /\ ~CancelDeliveryCommit(w) /\ ~DeliverCommit(w)
  BY <1>7, SameRowsMove
  DEF FulfillmentStep, BusinessRead, ReadyRead, PickUpRead, ReopenRead, CancelDeliveryRead,
      CheckEligible, DeliverRead
<1> QED BY <1>1, <1>2, <1>3, <1>4, <1>5, <1>6, <1>7

LEMMA SweeperMoves == ASSUME FactsInv, SerialInv, SweeperStep PROVE RowsMove
<1>1. CASE InsertDelivery(Sweeper)
  BY <1>1, InsertMove DEF InsertDelivery, At, Workers, SerialInv, SweeperKnows
<1>2. CASE ~InsertDelivery(Sweeper)
  BY <1>2, SameRowsMove DEF SweeperStep, SweepOrphan, CheckEligible
<1> QED BY <1>1, <1>2

LEMMA StepMoves == ASSUME FactsInv, SerialInv, [Next]_vars PROVE RowsMove
<1>1. CASE CartStep \/ BusinessStep
  BY <1>1, SameRowsMove DEF CartStep, ClearCart, AddItem, RemoveItem, BusinessStep
<1>2. ASSUME NEW w \in Requests,
             CheckoutStep(w) \/ PaymentStep(w) \/ RefundStep(w) \/ FulfillmentStep(w)
      PROVE  RowsMove
  <2>1. w \in Workers /\ Timely(req[w])
    BY DEF Workers, SerialInv
  <2> QED BY <1>2, <2>1, CheckoutMoves, PaymentMoves, RefundMoves, FulfillmentMoves
<1>3. ASSUME NEW w \in Workers, Fail(w) PROVE RowsMove
  BY <1>3, SameRowsMove DEF Fail
<1>4. CASE UNCHANGED vars
  BY <1>4, SameRowsMove DEF vars
<1> QED BY <1>1, <1>2, <1>3, <1>4, SweeperMoves DEF Next

---------------------------------------------------------------------------
(* The rows keep their promise *)

\* An order that has been readied stays so.
LEMMA ReadiedKept ==
    ASSUME FactsInv, RowsMove, NEW o \in OrderIds, Readied(o)
    PROVE  Readied(o)'
<1>t. order \in [OrderIds -> OrderRow]
  BY DEF FactsInv, TypeInv, RowInv
<1>1. CASE Untouched
  BY <1>1 DEF Untouched, Readied
<1>2. CASE Placed
  BY <1>t, <1>2 DEF Placed, Readied, Exists, None
<1>3. CASE Advanced
  <2>1. PICK x \in OrderIds, s \in OrderStatuses :
            CanTransition(order[x].status, s) /\ order' = [order EXCEPT ![x].status = s]
    BY <1>3 DEF Advanced
  <2>2. CASE x = o
    <3>1. s = "COMPLETED"
      BY <2>1, <2>2, ReadyMoves DEF Readied
    <3> QED BY <1>t, <2>1, <2>2, <3>1 DEF Readied, OrderRow
  <2>3. CASE x # o
    BY <1>t, <2>1, <2>3 DEF Readied
  <2> QED BY <2>2, <2>3
<1>4. CASE Withdrawn
  <2>1. PICK x \in OrderIds : /\ CanTransition(order[x].status, "CANCELLED")
                              /\ order' = [order EXCEPT ![x].status = "CANCELLED"]
    BY <1>4 DEF Withdrawn
  <2>2. x # o
    BY <2>1, ReadyMoves DEF Readied
  <2> QED BY <1>t, <2>1, <2>2 DEF Readied
<1> QED BY <1>1, <1>2, <1>3, <1>4 DEF RowsMove, OrderMove

\* An order reads COMPLETED after a step only if it did, or its delivery was handed over.
LEMMA CompletedBy ==
    ASSUME FactsInv, RowsMove, NEW o \in OrderIds, Readied(o)', order'[o].status = "COMPLETED"
    PROVE  (order[o].status = "COMPLETED" /\ Readied(o)) \/ delivery'[o] = "DELIVERED"
<1>t. order \in [OrderIds -> OrderRow]
  BY DEF FactsInv, TypeInv, RowInv
<1>1. CASE Untouched
  BY <1>1 DEF Untouched, Readied
<1>2. CASE Placed
  BY <1>t, <1>2 DEF Placed, Readied
<1>3. CASE Advanced
  <2>1. PICK x \in OrderIds, s \in OrderStatuses :
            /\ order[x].type = "DELIVERY" /\ s = "COMPLETED" => delivery'[x] = "DELIVERED"
            /\ order' = [order EXCEPT ![x].status = s]
    BY <1>3 DEF Advanced
  <2>2. CASE x = o
    BY <1>t, <2>1, <2>2 DEF Readied, OrderRow
  <2>3. CASE x # o
    BY <1>t, <2>1, <2>3 DEF Readied
  <2> QED BY <2>2, <2>3
<1>4. CASE Withdrawn
  BY <1>t, <1>4 DEF Withdrawn, Readied, OrderRow
<1> QED BY <1>1, <1>2, <1>3, <1>4 DEF RowsMove, OrderMove

LEMMA StepKeepsCompleted ==
    ASSUME FactsInv, RowsMove, NEW o \in OrderIds, Readied(o), order[o].status = "COMPLETED"
    PROVE  order'[o].status = "COMPLETED"
<1>t. order \in [OrderIds -> OrderRow]
  BY DEF FactsInv, TypeInv, RowInv
<1>1. \A s : ~CanTransition("COMPLETED", s)
  BY DEF CanTransition, Transitions, OrderStatuses
<1> QED BY <1>t, <1>1 DEF RowsMove, OrderMove, Untouched, Placed, Advanced, Withdrawn, Exists, None

LEMMA DeliveriesKept ==
    ASSUME FactsInv, SerialInv, RowsMove
    PROVE  DeliveryFollowsReadiness' /\ CompletedWasDelivered'
<1>1. ASSUME NEW o \in OrderIds, delivery'[o] # None
      PROVE  Readied(o)' /\ (order'[o].status = "COMPLETED" <=> delivery'[o] = "DELIVERED")
  <2>1. CASE delivery'[o] = delivery[o]
    <3>1. Readied(o) /\ (order[o].status = "COMPLETED" <=> delivery[o] = "DELIVERED")
      BY <1>1, <2>1 DEF SerialInv, DeliveryFollowsReadiness, Readied
    <3>2. Readied(o)'
      BY <3>1, ReadiedKept
    <3>3. order[o].status = "COMPLETED" => order'[o].status = "COMPLETED"
      BY <3>1, StepKeepsCompleted
    <3>4. order'[o].status = "COMPLETED" => delivery'[o] = "DELIVERED"
      BY <2>1, <3>1, <3>2, CompletedBy
    <3> QED BY <2>1, <3>1, <3>2, <3>3, <3>4
  <2>2. CASE Carried(o)
    <3>1. order[o].status # "COMPLETED"
      BY <2>2 DEF Carried, SerialInv, CompletedWasDelivered
    <3> QED BY <2>2, <3>1 DEF Carried, Readied
  <2>3. CASE Handed(o)
    BY <2>3, ReadiedKept DEF Handed
  <2> QED BY <2>1, <2>2, <2>3 DEF RowsMove, DeliveryMove
<1>2. ASSUME NEW o \in OrderIds, Readied(o)', order'[o].status = "COMPLETED"
      PROVE  delivery'[o] = "DELIVERED"
  <2>1. CASE order[o].status = "COMPLETED" /\ Readied(o)
    <3>1. delivery[o] = "DELIVERED"
      BY <2>1 DEF SerialInv, CompletedWasDelivered
    <3> QED BY <3>1 DEF RowsMove, DeliveryMove, Carried, Handed
  <2> QED BY <1>2, <2>1, CompletedBy
<1>3. DeliveryFollowsReadiness'
  BY <1>1 DEF DeliveryFollowsReadiness, Readied
<1>4. CompletedWasDelivered'
  BY <1>2 DEF CompletedWasDelivered
<1> QED BY <1>3, <1>4

---------------------------------------------------------------------------
(* The sweeper and the request still know what they know *)

LEMMA SweeperStillKnows ==
    ASSUME FactsInv, SerialInv, [Next]_vars, RowsMove
    PROVE  SweeperKnows'
<1>t. /\ ReqInv /\ Sweeper \in Workers
      /\ req[Sweeper].pc \notin BeforeOrder => req[Sweeper].order \in OrderIds
  BY DEF FactsInv, TypeInv, ReqInv, WellFormed, Workers
<1>1. ASSUME req'[Sweeper] = req[Sweeper] PROVE SweeperKnows'
  <2>1. CASE req[Sweeper].pc = "idle"
    BY <1>1, <2>1 DEF SweeperKnows
  <2>2. CASE req[Sweeper].pc # "idle"
    <3>1. req[Sweeper].order \in OrderIds /\ Readied(req[Sweeper].order)
          /\ req[Sweeper].pc \in {"eligible", "insertDelivery"}
      BY <1>t, <2>2 DEF SerialInv, SweeperKnows, BeforeOrder
    <3> DEFINE o == req[Sweeper].order
    <3>2. Readied(o)'
      <4>1. ASSUME NEW x \in OrderIds, Readied(x) PROVE Readied(x)'
        BY <4>1, ReadiedKept
      <4> QED BY <1>1, <3>1, <4>1 DEF Readied
    <3> QED BY <1>1, <3>1, <3>2 DEF SweeperKnows
  <2> QED BY <2>1, <2>2
<1>2. ASSUME req'[Sweeper] = Idle PROVE SweeperKnows'
  BY <1>2 DEF SweeperKnows, Idle
<1>3. CASE SweeperStep
  <2>1. ASSUME NEW o \in OrderIds, SweepOrphan(o) PROVE SweeperKnows'
    <3>1. /\ [Idle EXCEPT !.pc = "eligible", !.order = o].pc = "eligible"
          /\ [Idle EXCEPT !.pc = "eligible", !.order = o].order = o
      BY DEF Idle
    <3>2. req'[Sweeper].pc = "eligible" /\ req'[Sweeper].order = o /\ order' = order
      BY <1>t, <2>1, <3>1, OthersStay DEF SweepOrphan, Start
    <3> QED BY <2>1, <3>2 DEF SweepOrphan, Sweeps, SweeperKnows, Readied
  <2>2. CASE CheckEligible(Sweeper)
    <3> DEFINE t == [req[Sweeper] EXCEPT !.pc = "insertDelivery"]
    <3>1. t.pc = "insertDelivery" /\ t.order = req[Sweeper].order
      BY <1>t DEF ReqInv, Task
    <3>2. req'[Sweeper] = t \/ req'[Sweeper] = Idle
      BY <1>t, <2>2, OthersStay DEF CheckEligible, Continue, Finish
    <3>3. Readied(req[Sweeper].order) /\ order' = order
      BY <2>2 DEF CheckEligible, At, SerialInv, SweeperKnows
    <3> HIDE DEF t
    <3> QED BY <1>2, <3>1, <3>2, <3>3 DEF SweeperKnows, Readied
  <2>3. CASE InsertDelivery(Sweeper)
    BY <1>t, <1>2, <2>3, OthersStay DEF InsertDelivery, Finish
  <2> QED BY <1>3, <2>1, <2>2, <2>3 DEF SweeperStep
<1>4. CASE CartStep \/ BusinessStep \/ UNCHANGED vars
  BY <1>1, <1>4 DEF CartStep, ClearCart, AddItem, RemoveItem, BusinessStep, vars
<1>5. ASSUME NEW w \in Requests,
             CheckoutStep(w) \/ PaymentStep(w) \/ RefundStep(w) \/ FulfillmentStep(w)
      PROVE  SweeperKnows'
  BY <1>t, <1>1, <1>5, RequestEnters, WorkersAssumption DEF OwnTask
<1>6. ASSUME NEW w \in Workers, Fail(w) PROVE SweeperKnows'
  <2>1. CASE w = Sweeper
    BY <1>t, <1>2, <1>6, <2>1, OthersStay DEF Fail, Finish
  <2>2. CASE w # Sweeper
    BY <1>t, <1>1, <1>6, <2>2, FinishOwn DEF Fail, OwnTask
  <2> QED BY <2>1, <2>2
<1> QED BY <1>3, <1>4, <1>5, <1>6 DEF Next

\* Nothing is entered by w that relies on rows, but what these actions read.
LEMMA RequestStillKnows ==
    ASSUME FactsInv, SerialInv, NEW w \in Requests,
           CheckoutStep(w) \/ PaymentStep(w) \/ RefundStep(w) \/ FulfillmentStep(w)
    PROVE  Timely(req[w])'
<1>w. w \in Workers /\ w # Sweeper
  BY WorkersAssumption DEF Workers
<1>t. /\ ReqInv /\ WellFormed(req[w]) /\ req[w] \in Task /\ Timely(req[w])
      /\ order \in [OrderIds -> OrderRow]
      /\ delivery \in [OrderIds -> DeliveryStatuses \cup {None}]
  BY <1>w DEF FactsInv, TypeInv, RowInv, ReqInv, WellFormed, SerialInv
<1>u. ASSUME NEW t, req' = [req EXCEPT ![w] = t] PROVE req'[w] = t
  BY <1>t, <1>u, <1>w, OthersStay
<1>s. ASSUME NEW t, Start(w, t) PROVE req'[w] = t
  BY <1>u, <1>s DEF Start
<1>c. ASSUME NEW t, Continue(w, t) PROVE req'[w] = t
  BY <1>u, <1>c DEF Continue
<1>f. ASSUME Finish(w) PROVE Timely(req[w])'
  <2>1. req'[w] = Idle
    BY <1>u, <1>f DEF Finish
  <2> QED BY <2>1, IdleTimely
    DEF Timely, MayStillPay, MayStillCancel, MayStillSet, StillReadied, StillOut, StillCompletes, Idle
<1> DEFINE Free == {"idle", "loadCart", "reserve", "readPayment", "charge", "apply", "ack",
                    "sync", "refundCheck",
                    "refundSum", "refundWrite", "refundCommit", "manualUpdate", "manualCommit"}
<1>0. ASSUME req'[w].pc \in Free PROVE Timely(req[w])'
  BY <1>0
  DEF Timely, MayStillPay, MayStillCancel, MayStillSet, StillReadied, StillOut, StillCompletes
<1>3. CASE SyncRead(w)
  <2>1. order' = order
    BY <1>3 DEF SyncRead
  <2>2. ASSUME Settles(req[w].paid, order[req[w].order].status),
               Continue(w, [req[w] EXCEPT !.pc = "markPaid"])
        PROVE  Timely(req[w])'
    <3> DEFINE t == [req[w] EXCEPT !.pc = "markPaid"]
    <3>1. t.pc = "markPaid" /\ t.order = req[w].order
      BY <1>t DEF Task
    <3> HIDE DEF t
    <3>2. req'[w] = t
      BY <2>2, <1>c DEF t
    <3> QED BY <2>1, <2>2, <3>1, <3>2 DEF Timely, MayStillPay, MayStillCancel,
                                MayStillSet, StillReadied, StillOut, StillCompletes, Settles
  <2>3. ASSUME Cancels(req[w].paid, order[req[w].order].status),
               Continue(w, [req[w] EXCEPT !.pc = "cancelUnpaid"])
        PROVE  Timely(req[w])'
    <3> DEFINE t == [req[w] EXCEPT !.pc = "cancelUnpaid"]
    <3>1. t.pc = "cancelUnpaid" /\ t.order = req[w].order
      BY <1>t DEF Task
    <3> HIDE DEF t
    <3>2. req'[w] = t
      BY <2>3, <1>c DEF t
    <3> QED BY <2>1, <2>3, <3>1, <3>2 DEF Timely, MayStillPay, MayStillCancel,
                                MayStillSet, StillReadied, StillOut, StillCompletes, Cancels
  <2> QED BY <1>3, <1>f, <2>2, <2>3 DEF SyncRead
<1>4. ASSUME NEW o \in OrderIds, NEW actor, CancelRead(w, o, actor) PROVE Timely(req[w])'
  <2> DEFINE t == [Idle EXCEPT !.pc = "cancel", !.order = o, !.lines = order[o].lines,
                               !.paid = payment[o].status]
  <2>1. t.pc = "cancel" /\ t.order = o
    BY DEF Idle
  <2> HIDE DEF t
  <2>2. req'[w] = t /\ order' = order /\ CanTransition(order[o].status, "CANCELLED")
    BY <1>4, <1>s DEF CancelRead, t
  <2> QED BY <2>1, <2>2 DEF Timely, MayStillPay, MayStillCancel, MayStillSet,
                            StillReadied, StillOut, StillCompletes
<1>5. ASSUME NEW o \in OrderIds,
             ReadyRead(w, o) \/ \E target \in OrderStatuses : BusinessRead(w, o, target)
      PROVE  Timely(req[w])'
  <2>1. PICK s : /\ Start(w, [Idle EXCEPT !.pc = "setStatus", !.order = o,
                                          !.seen = order[o].status, !.target = s])
                 /\ order[o].type = "DELIVERY" => s # "COMPLETED"
                 /\ order' = order
    <3>1. ASSUME ReadyRead(w, o)
          PROVE  /\ Start(w, [Idle EXCEPT !.pc = "setStatus", !.order = o,
                                          !.seen = order[o].status,
                                          !.target = "READY_FOR_PICKUP"])
                 /\ "READY_FOR_PICKUP" # "COMPLETED"
                 /\ order' = order
      BY <3>1 DEF ReadyRead
    <3>2. ASSUME NEW target \in OrderStatuses, BusinessRead(w, o, target)
          PROVE  /\ Start(w, [Idle EXCEPT !.pc = "setStatus", !.order = o,
                                          !.seen = order[o].status, !.target = target])
                 /\ order[o].type = "DELIVERY" => target # "COMPLETED"
                 /\ order' = order
      BY <3>2 DEF BusinessRead, BusinessMaySet
    <3> QED BY <1>5, <3>1, <3>2
  <2> DEFINE t == [Idle EXCEPT !.pc = "setStatus", !.order = o, !.seen = order[o].status,
                               !.target = s]
  <2>2. t.pc = "setStatus" /\ t.order = o /\ t.target = s
    BY DEF Idle
  <2> HIDE DEF t
  <2>3. req'[w] = t
    BY <2>1, <1>s DEF t
  <2> QED BY <2>1, <2>2, <2>3 DEF Timely, MayStillPay, MayStillCancel, MayStillSet,
                                  StillReadied, StillOut, StillCompletes
<1>6. CASE BusinessWrite(w)
  <2> DEFINE o == req[w].order
             t == [Idle EXCEPT !.pc = "eligible", !.order = o]
  <2>1. t.pc = "eligible" /\ t.order = o
    BY DEF Idle
  <2>2. o \in OrderIds
    BY <1>t, <1>6 DEF BusinessWrite, At, WellFormed, BeforeOrder
  <2> HIDE DEF t
  <2>3. ASSUME Continue(w, t), SetStatus(o, req[w].target),
               order[o].type = "DELIVERY", req[w].target = "READY_FOR_PICKUP"
        PROVE  Timely(req[w])'
    <3>1. req'[w] = t
      BY <2>3, <1>c
    <3>2. Readied(o)'
      <4>1. order' = [order EXCEPT ![o].status = "READY_FOR_PICKUP"]
        BY <2>3 DEF SetStatus
      <4>2. order'[o].type = "DELIVERY" /\ order'[o].status = "READY_FOR_PICKUP"
        BY <1>t, <2>2, <2>3, <4>1 DEF OrderRow
      <4>3. o' = req'[w].order
        OBVIOUS
      <4> QED BY <2>1, <3>1, <4>2, <4>3 DEF Readied
    <3> QED BY <2>1, <3>1, <3>2 DEF Timely, MayStillPay, MayStillCancel, MayStillSet,
                                    StillReadied, StillOut, StillCompletes
  <2> QED BY <1>6, <1>f, <2>3 DEF BusinessWrite, t
<1>7. CASE CheckEligible(w)
  <2> DEFINE t == [req[w] EXCEPT !.pc = "insertDelivery"]
  <2>1. t.pc = "insertDelivery" /\ t.order = req[w].order
    BY <1>t DEF Task
  <2> HIDE DEF t
  <2>2. Readied(req[w].order) /\ order' = order
    BY <1>t, <1>7 DEF CheckEligible, At, Timely, StillReadied
  <2>3. ASSUME Continue(w, t) PROVE Timely(req[w])'
    <3>1. req'[w] = t
      BY <2>3, <1>c
    <3> QED BY <2>1, <2>2, <3>1 DEF Timely, MayStillPay, MayStillCancel,
                                MayStillSet, StillReadied, StillOut, StillCompletes, Readied
  <2> QED BY <1>7, <1>f, <2>3 DEF CheckEligible, t
<1>8. ASSUME NEW o \in OrderIds,
             PickUpRead(w, o) \/ ReopenRead(w, o) \/ CancelDeliveryRead(w, o)
      PROVE  Timely(req[w])'
  <2>1. PICK pc : /\ Start(w, [Idle EXCEPT !.pc = pc, !.order = o])
                  /\ \/ pc = "pickUp" /\ delivery[o] \in {"OPEN", "ON_ROAD"}
                     \/ pc \in {"reopen", "cancelDelivery"} /\ delivery[o] = "OPEN"
                  /\ delivery' = delivery
    BY <1>8 DEF PickUpRead, ReopenRead, CancelDeliveryRead
  <2> DEFINE t == [Idle EXCEPT !.pc = pc, !.order = o]
  <2>2. t.pc = pc /\ t.order = o
    BY DEF Idle
  <2> HIDE DEF t
  <2>3. req'[w] = t
    BY <2>1, <1>s DEF t
  <2> QED BY <2>1, <2>2, <2>3 DEF Timely, MayStillPay, MayStillCancel, MayStillSet,
                                  StillReadied, StillOut, StillCompletes
<1>15. ASSUME NEW o \in OrderIds, DeliverRead(w, o) PROVE Timely(req[w])'
  <2> DEFINE t == [Idle EXCEPT !.pc = "complete", !.order = o, !.seen = order[o].status]
  <2>1. t.pc = "complete" /\ t.order = o /\ t.seen = order[o].status
    BY DEF Idle
  <2> HIDE DEF t
  <2>2. req'[w] = t /\ order' = order
    BY <1>15, <1>s DEF DeliverRead, t
  <2> QED BY <2>1, <2>2 DEF Timely, MayStillPay, MayStillCancel, MayStillSet,
                            StillReadied, StillOut, StillCompletes
<1>9. req'[w] = Idle \/ Enters(w)
  BY RequestEnters, <1>t DEF OwnTask
<1>10. CASE req'[w] = Idle
  BY <1>0, <1>10 DEF Idle
<1>11. CASE EntersCheckout(w)
  BY <1>0, <1>3, <1>11 DEF EntersCheckout
<1>12. CASE EntersPayment(w)
  BY <1>0, <1>12 DEF EntersPayment
<1>13. CASE EntersRefund(w)
  <2>1. CASE req'[w].pc = "cancel"
    BY <1>4, <1>13, <2>1 DEF EntersRefund
  <2>2. CASE req'[w].pc # "cancel"
    BY <1>0, <1>13, <2>2 DEF EntersRefund
  <2> QED BY <2>1, <2>2
<1>14. CASE EntersFulfillment(w)
  BY <1>5, <1>6, <1>7, <1>8, <1>15, <1>w, <1>14 DEF EntersFulfillment
<1> QED BY <1>9, <1>10, <1>11, <1>12, <1>13, <1>14 DEF Enters

\* What others do (the sweeper, a failure, the cart) leaves a request knowing what it knew.
LEMMA BystanderStillKnows ==
    ASSUME FactsInv, SerialInv, NEW w \in Requests, req'[w] = req[w],
           order' = order, RowsMove,
           \A o \in OrderIds : delivery[o] # None => delivery'[o] = delivery[o]
    PROVE  Timely(req[w])'
<1>1. Timely(req[w]) /\ WellFormed(req[w])
  BY DEF SerialInv, FactsInv, TypeInv, ReqInv, Workers
<1>2. req[w].pc \in {"pickUp", "reopen", "cancelDelivery"} => req[w].order \in OrderIds
  BY <1>1 DEF WellFormed, BeforeOrder
<1>3. MayStillPay(req[w])' /\ MayStillCancel(req[w])' /\ StillCompletes(req[w])'
  BY <1>1 DEF Timely, MayStillPay, MayStillCancel, StillCompletes
<1>4. MayStillSet(req[w])' /\ StillReadied(req[w])'
  BY <1>1 DEF Timely, MayStillSet, StillReadied, Readied
<1>5. StillOut(req[w])'
  BY <1>1, <1>2 DEF Timely, StillOut, None
<1> QED BY <1>3, <1>4, <1>5 DEF Timely

LEMMA InsertAdds ==
    ASSUME FactsInv, NEW w, InsertDelivery(w), NEW o \in OrderIds, delivery[o] # None
    PROVE  delivery'[o] = delivery[o]
BY DEF InsertDelivery, FactsInv, TypeInv, RowInv

LEMMA RequestsStillKnow ==
    ASSUME FactsInv, SerialInv, OneRequest, [Next]_vars, RowsMove, NEW w \in Requests
    PROVE  Timely(req[w])'
<1>w. w \in Workers /\ w # Sweeper /\ ReqInv
  BY WorkersAssumption DEF Workers, FactsInv, TypeInv
<1>1. CASE CartStep
  BY <1>1, BystanderStillKnows DEF CartStep, ClearCart, AddItem, RemoveItem
<1>2. CASE BusinessStep
  BY <1>2, BystanderStillKnows DEF BusinessStep
<1>3. CASE SweeperStep
  <2>1. req'[w] = req[w]
    BY <1>w, <1>3, SweeperEnters DEF OwnTask
  <2>2. \A o \in OrderIds : delivery[o] # None => delivery'[o] = delivery[o]
    BY <1>3, InsertAdds DEF SweeperStep, SweepOrphan, CheckEligible
  <2>3. order' = order
    BY <1>3 DEF SweeperStep, SweepOrphan, CheckEligible, InsertDelivery
  <2> QED BY <2>1, <2>2, <2>3, BystanderStillKnows
<1>4. ASSUME NEW v \in Requests,
             CheckoutStep(v) \/ PaymentStep(v) \/ RefundStep(v) \/ FulfillmentStep(v)
      PROVE  Timely(req[w])'
  <2>1. v = w
    BY DEF OneRequest
  <2> QED BY <1>4, <2>1, RequestStillKnows
<1>5. ASSUME NEW v \in Workers, Fail(v) PROVE Timely(req[w])'
  <2>1. CASE v = w
    <3>1. req'[w] = Idle
      BY <1>w, <1>5, <2>1, OthersStay DEF Fail, Finish
    <3> QED BY <3>1, IdleTimely
      DEF Timely, MayStillPay, MayStillCancel, MayStillSet, StillReadied, StillOut, StillCompletes,
          Idle
  <2>2. CASE v # w
    <3>1. req'[w] = req[w]
      BY <1>w, <1>5, <2>2, FinishOwn DEF Fail, OwnTask
    <3> QED BY <1>5, <3>1, BystanderStillKnows DEF Fail
  <2> QED BY <2>1, <2>2
<1>6. CASE UNCHANGED vars
  BY <1>6, BystanderStillKnows DEF vars
<1> QED BY <1>1, <1>2, <1>3, <1>4, <1>5, <1>6 DEF Next

---------------------------------------------------------------------------
LEMMA InitSerial == Init => SerialInv
<1> SUFFICES ASSUME Init PROVE SerialInv
  OBVIOUS
<1>1. \A o \in OrderIds : order[o].status = None /\ delivery[o] = None
  BY DEF Init, NoOrder
<1>2. \A w \in Workers : req[w] = Idle
  BY DEF Init
<1>3. DeliveryFollowsReadiness /\ CompletedWasDelivered
  BY <1>1 DEF DeliveryFollowsReadiness, CompletedWasDelivered, None
<1>4. SweeperKnows
  BY <1>2 DEF SweeperKnows, Workers, Idle
<1>5. \A w \in Requests : Timely(req[w])
  BY <1>2, IdleTimely DEF Workers
<1> QED BY <1>3, <1>4, <1>5 DEF SerialInv

LEMMA NextSerial ==
    ASSUME OneRequest, FactsInv, SerialInv, [Next]_vars
    PROVE  SerialInv'
<1>1. RowsMove
  BY StepMoves
<1>2. DeliveryFollowsReadiness' /\ CompletedWasDelivered'
  BY <1>1, DeliveriesKept
<1>3. SweeperKnows'
  BY <1>1, SweeperStillKnows
<1>4. \A w \in Requests : Timely(req[w])'
  BY <1>1, RequestsStillKnow
<1> QED BY <1>2, <1>3, <1>4 DEF SerialInv

(***************************************************************************)
(* Without overlapping requests, what a request read is still true when it *)
(* writes, whatever the sweeper and failures do in between.                *)
(***************************************************************************)
THEOREM ReadsStayTrue ==
    ASSUME OneRequest
    PROVE  Spec => []SerialInv
<1>1. FactsInv /\ SerialInv /\ [Next]_vars => SerialInv'
  BY NextSerial
<1> QED BY <1>1, InitSerial, Facts, PTL DEF Spec

(***************************************************************************)
(* A Delivery exists only for an order that was readied, and the two       *)
(* complete together (createForOrder, DeliverySyncService).                *)
(***************************************************************************)
THEOREM DeliveriesFollow ==
    ASSUME OneRequest
    PROVE  Spec => []DeliveryFollowsReadiness
<1>1. SerialInv => DeliveryFollowsReadiness
  BY DEF SerialInv
<1> QED BY <1>1, ReadsStayTrue, PTL

---------------------------------------------------------------------------
(* Stock *)

\* Neither an order that does not exist nor a cancelled one moves on.
LEMMA OnlyLiveMove ==
    ASSUME NEW o \in OrderIds, NEW s, CanTransition(order[o].status, s)
    PROVE  Live(o)
BY DEF CanTransition, Transitions, OrderStatuses, Live, None

LEMMA MoveConservesStock ==
    ASSUME TypeInv, TypeInv', OrderMove, StockConserved
    PROVE  StockConserved'
<1> SUFFICES ASSUME NEW p \in Products
             PROVE  stock'[p] + Cardinality(Holders(p)') <= InitialStock
    BY DEF StockConserved
<1> DEFINE H == Holders(p)
           K == Holders(p)'
<1>1. /\ order \in [OrderIds -> OrderRow]
      /\ stock \in [Products -> Nat] /\ stock'[p] \in Nat
  BY DEF TypeInv, RowInv
<1>2. H \in SUBSET OrderIds /\ K \in SUBSET OrderIds
  BY DEF Holders
<1>3. IsFiniteSet(H) /\ IsFiniteSet(K)
  BY <1>2, OrderIdsAssumption, FS_Subset
<1>4. Cardinality(H) \in Nat /\ Cardinality(K) \in Nat
  BY <1>3, FS_CardinalityType
<1>5. stock[p] + Cardinality(H) <= InitialStock
  BY DEF StockConserved
<1>6. ASSUME stock'[p] = stock[p], K = H
      PROVE  stock'[p] + Cardinality(K) <= InitialStock
  BY <1>5, <1>6
<1>7. CASE Untouched
  <2>1. K = H
    BY <1>7 DEF Untouched, Holders, Live
  <2> QED BY <1>6, <1>7, <2>1 DEF Untouched
<1>8. CASE Placed
  <2>1. PICK o \in OrderIds, lines \in SUBSET Products, type \in FulfillmentTypes :
            /\ ~Exists(order[o])
            /\ order' = [order EXCEPT ![o] =
                            [status |-> "PAYMENT_PENDING", type |-> type, lines |-> lines]]
            /\ stock' = StockReserved(lines)
            /\ InStock(lines)
    BY <1>8 DEF Placed
  <2>2. o \notin H
    BY <2>1 DEF Holders, Live, Exists
  <2>3. CASE p \in lines
    <3>1. K = H \cup {o}
      BY <1>1, <2>1, <2>3 DEF Holders, Live, Exists, None
    <3>2. stock'[p] = stock[p] - 1 /\ stock[p] >= 1
      BY <2>1, <2>3 DEF StockReserved, InStock
    <3> HIDE DEF H, K
    <3>3. Cardinality(K) = Cardinality(H) + 1
      BY <1>3, <2>2, <3>1, FS_AddElement
    <3>4. stock'[p] + Cardinality(K) <= InitialStock
      BY <1>1, <1>4, <1>5, <3>2, <3>3, StockAssumption
    <3> QED BY <3>4 DEF K
  <2>4. CASE p \notin lines
    <3>1. K = H
      BY <1>1, <2>1, <2>4 DEF Holders, Live, Exists, None
    <3> QED BY <1>6, <2>1, <2>4, <3>1 DEF StockReserved
  <2> QED BY <2>3, <2>4
<1>9. CASE Advanced
  <2>1. PICK o \in OrderIds, s \in OrderStatuses :
            /\ CanTransition(order[o].status, s) /\ s # "CANCELLED"
            /\ order' = [order EXCEPT ![o].status = s]
            /\ stock' = stock
    BY <1>9 DEF Advanced
  <2>2. Live(o) /\ s # None
    BY <2>1, OnlyLiveMove DEF OrderStatuses, None
  <2>3. K = H
    BY <1>1, <2>1, <2>2 DEF Holders, Live, OrderRow
  <2> QED BY <1>6, <2>1, <2>3
<1>10. CASE Withdrawn
  <2>1. PICK o \in OrderIds : /\ CanTransition(order[o].status, "CANCELLED")
                              /\ order' = [order EXCEPT ![o].status = "CANCELLED"]
                              /\ stock' = StockReleased(order[o].lines)
    BY <1>10 DEF Withdrawn
  <2>2. K = H \ {o}
    BY <1>1, <2>1 DEF Holders, Live, OrderRow
  <2>3. CASE p \in order[o].lines
    <3>1. stock'[p] = stock[p] + 1
      BY <2>1, <2>3 DEF StockReleased
    <3>2. o \in H
      BY <2>1, <2>3, OnlyLiveMove DEF Holders
    <3> HIDE DEF H, K
    <3>3. Cardinality(K) = Cardinality(H) - 1
      BY <1>3, <1>4, <2>2, <3>2, FS_RemoveElement
    <3>4. stock'[p] + Cardinality(K) <= InitialStock
      BY <1>1, <1>4, <1>5, <3>1, <3>3, StockAssumption
    <3> QED BY <3>4 DEF K
  <2>4. CASE p \notin order[o].lines
    <3>1. K = H
      BY <2>2, <2>4 DEF Holders
    <3> QED BY <1>6, <2>1, <2>4, <3>1 DEF StockReleased
  <2> QED BY <2>3, <2>4
<1> QED BY <1>7, <1>8, <1>9, <1>10 DEF OrderMove

(***************************************************************************)
(* releaseStock gives back exactly what reserveStock took, once: without   *)
(* overlapping requests no cancellation releases an order's units twice.   *)
(* With NoUnitLost, each unit is in exactly one place.                     *)
(***************************************************************************)
THEOREM StockKept ==
    ASSUME OneRequest
    PROVE  Spec => []StockConserved
<1>1. Init => StockConserved
  <2> SUFFICES ASSUME Init, NEW p \in Products
               PROVE  stock[p] + Cardinality(Holders(p)) <= InitialStock
    BY DEF StockConserved
  <2>1. Holders(p) = {} /\ stock[p] = InitialStock
    BY DEF Init, NoOrder, Holders, Live
  <2>2. Cardinality({}) = 0
    BY FS_EmptySet
  <2> QED BY <2>1, <2>2, StockAssumption
<1>2. FactsInv /\ FactsInv' /\ SerialInv /\ StockConserved /\ [Next]_vars => StockConserved'
  BY StepMoves, MoveConservesStock DEF FactsInv, RowsMove
<1> QED BY <1>1, <1>2, Facts, ReadsStayTrue, PTL DEF Spec

---------------------------------------------------------------------------
(* The lifecycle of an order *)

Status == [o \in OrderIds |-> order[o].status]
Lines  == [o \in OrderIds |-> order[o].lines]

LEMMA MoveIsLifecycle ==
    ASSUME TypeInv, OrderMove
    PROVE  Lifecycle!Next \/ UNCHANGED <<Status, Lines, stock>>
<1>t. /\ order \in [OrderIds -> OrderRow] /\ stock \in [Products -> Nat]
  BY DEF TypeInv, RowInv
<1>1. CASE Untouched
  BY <1>1 DEF Untouched, Status, Lines
<1>2. CASE Placed
  <2>1. PICK o \in OrderIds, lines \in SUBSET Products, type \in FulfillmentTypes :
            /\ ~Exists(order[o])
            /\ order' = [order EXCEPT ![o] =
                            [status |-> "PAYMENT_PENDING", type |-> type, lines |-> lines]]
            /\ stock' = StockReserved(lines)
            /\ InStock(lines)
    BY <1>2 DEF Placed
  <2>2. Status[o] = "NONE"
    BY <2>1 DEF Exists, Status, None
  <2>3. \A p \in lines : stock[p] > 0
    BY <1>t, <2>1 DEF InStock
  <2>4. Status' = [Status EXCEPT ![o] = "PAYMENT_PENDING"] /\ Lines' = [Lines EXCEPT ![o] = lines]
    BY <1>t, <2>1 DEF Status, Lines
  <2>5. stock' = [p \in Products |-> IF p \in lines THEN stock[p] - 1 ELSE stock[p]]
    BY <2>1 DEF StockReserved
  <2>6. Lifecycle!Place(o, lines)
    BY <2>2, <2>3, <2>4, <2>5 DEF Lifecycle!Place, Status, Lines
  <2> QED BY <2>6 DEF Lifecycle!Next
<1>3. CASE Advanced
  <2>1. PICK o \in OrderIds, s \in OrderStatuses :
            /\ CanTransition(order[o].status, s) /\ s # "CANCELLED"
            /\ order' = [order EXCEPT ![o].status = s]
            /\ stock' = stock
    BY <1>3 DEF Advanced
  <2>2. Status' = [Status EXCEPT ![o] = s] /\ Lines' = Lines
    BY <1>t, <2>1 DEF Status, Lines, OrderRow
  <2>3. Lifecycle!CanTransition(Status[o], s)
    BY <2>1 DEF Status, CanTransition, Transitions, OrderStatuses, Lifecycle!CanTransition,
                Lifecycle!Transitions, Lifecycle!OrderStatuses
  <2>4. Lifecycle!Advance(o, s)
    BY <2>1, <2>2, <2>3 DEF Lifecycle!Advance, Status, Lines
  <2>5. s \in Lifecycle!OrderStatuses
    BY DEF OrderStatuses, Lifecycle!OrderStatuses
  <2> QED BY <2>4, <2>5 DEF Lifecycle!Next
<1>4. CASE Withdrawn
  <2>1. PICK o \in OrderIds : /\ CanTransition(order[o].status, "CANCELLED")
                              /\ order' = [order EXCEPT ![o].status = "CANCELLED"]
                              /\ stock' = StockReleased(order[o].lines)
    BY <1>4 DEF Withdrawn
  <2>2. Status' = [Status EXCEPT ![o] = "CANCELLED"] /\ Lines' = Lines
    BY <1>t, <2>1 DEF Status, Lines, OrderRow
  <2>3. Lifecycle!CanTransition(Status[o], "CANCELLED")
    BY <2>1 DEF Status, CanTransition, Transitions, OrderStatuses, Lifecycle!CanTransition,
                Lifecycle!Transitions, Lifecycle!OrderStatuses
  <2>4. stock' = [p \in Products |-> IF p \in Lines[o] THEN stock[p] + 1 ELSE stock[p]]
    BY <2>1 DEF StockReleased, Lines
  <2>5. Lifecycle!Cancel(o)
    BY <2>2, <2>3, <2>4 DEF Lifecycle!Cancel, Status, Lines
  <2> QED BY <2>5 DEF Lifecycle!Next
<1> QED BY <1>1, <1>2, <1>3, <1>4 DEF OrderMove

(***************************************************************************)
(* Every step of Orders is a step of OrderLifecycle or none: an order is   *)
(* placed with its units, moves only along the transition map, and gives   *)
(* its units back when, and only when, it is cancelled.                    *)
(***************************************************************************)
THEOREM LifecycleImplemented ==
    ASSUME OneRequest
    PROVE  Spec => LifecycleRefined
<1>1. Init => Lifecycle!Init
  BY DEF Init, Lifecycle!Init, NoOrder, None
<1>2. FactsInv /\ SerialInv /\ [Next]_vars => [Lifecycle!Next]_<<Status, Lines, stock>>
  BY StepMoves, MoveIsLifecycle DEF FactsInv, RowsMove
<1> QED BY <1>1, <1>2, Facts, ReadsStayTrue, PTL
        DEF Spec, LifecycleRefined, Lifecycle!Spec, Lifecycle!lifecycleVars, Status, Lines
=============================================================================
