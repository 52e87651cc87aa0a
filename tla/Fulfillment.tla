---------------------------- MODULE Fulfillment ----------------------------
(***************************************************************************)
(* OrdersService and the order's side of the delivery module: the business *)
(* moves the order forward, readiness creates the Delivery in a second     *)
(* step, and the courier's delivery completes the order.  What the         *)
(* business may sell and deliver changes meanwhile.                        *)
(***************************************************************************)
EXTENDS OrderRows

\* A DELIVERY order is readied and completed elsewhere (mutant: only readied).
MayCompleteDelivery(type, target) == type = "DELIVERY" => target # "READY_FOR_PICKUP"
BusinessMaySet(type, target) ==
    /\ target \in BusinessSettable
    /\ type = "DELIVERY" => target \notin {"READY_FOR_PICKUP", "COMPLETED"}

\* updateStatusForBusiness
BusinessRead(w, o, target) ==
    /\ BusinessMaySet(order[o].type, target)
    /\ CanTransition(order[o].status, target)
    /\ Start(w, [Idle EXCEPT !.pc = "setStatus", !.order = o, !.seen = order[o].status,
                             !.target = target])
    /\ UNCHANGED <<cart, stock, order, payment, event, refund, delivery, business>>

\* readyForPickup -> setReadyForPickup, for either type of order.
ReadyRead(w, o) ==
    /\ CanTransition(order[o].status, "READY_FOR_PICKUP")
    /\ Start(w, [Idle EXCEPT !.pc = "setStatus", !.order = o, !.seen = order[o].status,
                             !.target = "READY_FOR_PICKUP"])
    /\ UNCHANGED <<cart, stock, order, payment, event, refund, delivery, business>>

\* Mutant: a plain read-then-write, the update not guarded by the status.
WriteUnguarded(task) == TRUE
StillAsRead(task) == order[task.order].status = task.seen

\* applyGuardedTransition: a compare-and-swap on the status that was read.
BusinessWrite(w) ==
    /\ At(w, "setStatus")
    /\ LET task == req[w]
           o    == task.order
       IN  IF StillAsRead(task)
           THEN /\ SetStatus(o, task.target)
                /\ IF order[o].type = "DELIVERY" /\ task.target = "READY_FOR_PICKUP"
                   THEN Continue(w, [Idle EXCEPT !.pc = "eligible", !.order = o])
                   ELSE Finish(w)
           ELSE Finish(w) /\ UNCHANGED order
    /\ UNCHANGED <<cart, stock, payment, event, refund, delivery, business>>

---------------------------------------------------------------------------
(* createForOrder *)

\* OrphanedOrderRetrySweeper: a ready DELIVERY order without a Delivery.
\* (mutant: it looks for them one status too early).
SweepsPreparing(o) ==
    order[o].type = "DELIVERY" /\ order[o].status = "PREPARING" /\ delivery[o] = None
Sweeps(o) ==
    order[o].type = "DELIVERY" /\ order[o].status = "READY_FOR_PICKUP" /\ delivery[o] = None

SweepOrphan(o) ==
    /\ Sweeps(o)
    /\ Start(Sweeper, [Idle EXCEPT !.pc = "eligible", !.order = o])
    /\ UNCHANGED <<cart, stock, order, payment, event, refund, delivery, business>>

(***************************************************************************)
(* The administrator suspends the business or switches what it sells, the  *)
(* owner switches DELIVERY; and back.                                      *)
(***************************************************************************)
BusinessStep ==
    /\ business' \in BusinessStates \ {business}
    /\ UNCHANGED <<cart, stock, order, payment, event, refund, delivery, req>>

\* assertEligible, then geocoding and routing before the insert.
CheckEligible(w) ==
    /\ At(w, "eligible")
    /\ LET o == req[w].order IN
        IF /\ order[o].status = "READY_FOR_PICKUP"
           /\ delivery[o] = None
           /\ CanDispatch
        THEN Continue(w, [req[w] EXCEPT !.pc = "insertDelivery"])
        ELSE Finish(w)
    /\ UNCHANGED <<cart, stock, order, payment, event, refund, delivery, business>>

\* Delivery.orderId is unique: a second insert fails.
InsertDelivery(w) ==
    /\ At(w, "insertDelivery")
    /\ delivery' = [delivery EXCEPT ![req[w].order] = IF @ = None THEN "OPEN" ELSE @]
    /\ Finish(w)
    /\ UNCHANGED <<cart, stock, order, payment, event, refund, business>>

---------------------------------------------------------------------------
(* The courier and the end of the delivery *)

\* complete() holds the Delivery row from its guarded update to its commit.
Locked(o) == \E v \in Workers : At(v, "complete") /\ req[v].order = o

\* The moves of transition() from pick-up on: read, check, then an unguarded write.
PickUpRead(w, o) ==
    /\ delivery[o] \in {"OPEN", "ON_ROAD"}
    /\ Start(w, [Idle EXCEPT !.pc = "pickUp", !.order = o])
    /\ UNCHANGED <<cart, stock, order, payment, event, refund, delivery, business>>

PickUpWrite(w) ==
    /\ At(w, "pickUp")
    /\ ~Locked(req[w].order)
    /\ delivery' = [delivery EXCEPT ![req[w].order] = "ON_ROAD"]
    /\ Finish(w)
    /\ UNCHANGED <<cart, stock, order, payment, event, refund, business>>

\* arrivedAtPickup, adminAssign: the same, between two statuses that are both OPEN.
ReopenRead(w, o) ==
    /\ delivery[o] = "OPEN"
    /\ Start(w, [Idle EXCEPT !.pc = "reopen", !.order = o])
    /\ UNCHANGED <<cart, stock, order, payment, event, refund, delivery, business>>

ReopenWrite(w) ==
    /\ At(w, "reopen")
    /\ ~Locked(req[w].order)
    /\ delivery' = [delivery EXCEPT ![req[w].order] = "OPEN"]
    /\ Finish(w)
    /\ UNCHANGED <<cart, stock, order, payment, event, refund, business>>

(***************************************************************************)
(* complete(), one transaction: the guarded update of the delivery, then   *)
(* DeliverySyncService reads the order ...                                 *)
(***************************************************************************)
DeliverRead(w, o) ==
    /\ delivery[o] = "ON_ROAD"
    /\ ~Locked(o)
    /\ Start(w, [Idle EXCEPT !.pc = "complete", !.order = o, !.seen = order[o].status])
    /\ UNCHANGED <<cart, stock, order, payment, event, refund, delivery, business>>

\* ... and writes it by its id alone: what it read may be stale by now.
DeliverCommit(w) ==
    /\ At(w, "complete")
    /\ LET o == req[w].order IN
        /\ delivery' = [delivery EXCEPT ![o] = "DELIVERED"]
        /\ IF CanTransition(req[w].seen, "COMPLETED")
           THEN SetStatus(o, "COMPLETED")
           ELSE UNCHANGED order
    /\ Finish(w)
    /\ UNCHANGED <<cart, stock, payment, event, refund, business>>

CancelDeliveryRead(w, o) ==
    /\ delivery[o] = "OPEN"
    /\ Start(w, [Idle EXCEPT !.pc = "cancelDelivery", !.order = o])
    /\ UNCHANGED <<cart, stock, order, payment, event, refund, delivery, business>>

\* DeliveryCancellationService: what is still owed becomes a PENDING refund.
CancelDeliveryCommit(w) ==
    /\ At(w, "cancelDelivery")
    /\ ~Locked(req[w].order)
    /\ LET o           == req[w].order
           outstanding == Amount - payment[o].refunded
       IN  /\ delivery' = [delivery EXCEPT ![o] = "CANCELLED"]
           /\ IF payment[o].status \in {"PAID", "PARTIALLY_REFUNDED"} /\ outstanding > 0
              THEN \E f \in Refunds :
                    /\ refund[f] = NoRefund
                    /\ refund' = [refund EXCEPT ![f] =
                            [status |-> "PENDING", order |-> o, amount |-> outstanding]]
              ELSE UNCHANGED refund
    /\ Finish(w)
    /\ UNCHANGED <<cart, stock, order, payment, event, business>>

FulfillmentStep(w) ==
    \/ \E o \in OrderIds :
        \/ \E target \in OrderStatuses : BusinessRead(w, o, target)
        \/ ReadyRead(w, o)
        \/ PickUpRead(w, o)
        \/ ReopenRead(w, o)
        \/ CancelDeliveryRead(w, o)
        \/ DeliverRead(w, o)
    \/ BusinessWrite(w) \/ CheckEligible(w) \/ InsertDelivery(w)
    \/ PickUpWrite(w) \/ ReopenWrite(w) \/ CancelDeliveryCommit(w) \/ DeliverCommit(w)

SweeperStep ==
    \/ \E o \in OrderIds : SweepOrphan(o)
    \/ CheckEligible(Sweeper) \/ InsertDelivery(Sweeper)
=============================================================================
