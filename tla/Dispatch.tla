------------------------------ MODULE Dispatch ------------------------------
(***************************************************************************)
(* Finding a rider for a delivery: DispatchService and its orchestrator,   *)
(* DeliveryReassignmentService, the two sweepers, and the administrator's  *)
(* overrides (assign, cancel).                                             *)
(***************************************************************************)
EXTENDS DeliveryRows

\* Delivery statuses in which the rider is taken.
Active == { "RIDER_ASSIGNED", "RIDER_ACCEPTED", "GOING_TO_PICKUP", "ARRIVED_AT_PICKUP",
            "PICKED_UP", "IN_TRANSIT", "ARRIVED_AT_CUSTOMER" }

\* Mutant: an offer the rider has not answered does not count.
HasAccepted(r) == \E d \in Deliveries :
    delivery[d].rider = r /\ delivery[d].status \in Active \ {"RIDER_ASSIGNED"}
HasActive(r) == \E d \in Deliveries :
    delivery[d].rider = r /\ delivery[d].status \in Active

(***************************************************************************)
(* findCandidates, over all the radius steps.  It runs on a connection of  *)
(* its own, outside the transaction it is called from.                     *)
(***************************************************************************)
Candidates(excluded) ==
    { r \in Riders \ excluded :
        rider[r].active /\ rider[r].status = "AVAILABLE" /\ rider[r].near /\ ~HasActive(r) }

\* The best candidate is any of them (the ranking is left open), or there is none.
Picks(excluded) == IF Candidates(excluded) = {} THEN {None} ELSE Candidates(excluded)

Assigned(r, source) == [status |-> "RIDER_ASSIGNED", rider |-> r, source |-> source]

---------------------------------------------------------------------------
(* createForOrder *)

\* assertEligible; the search happens inside the transaction.
CreateRead(w, d) ==
    /\ delivery[d] = NoDelivery
    /\ \E r \in Picks({}) : Start(w, [Idle EXCEPT !.pc = "create", !.delivery = d, !.rider = r])
    /\ UNCHANGED <<rider, delivery, history, proven, earned>>

\* Delivery.orderId is unique: the second of two inserts fails.
CreateCommit(w) ==
    /\ At(w, "create")
    /\ LET d == req[w].delivery
           r == req[w].rider
       IN  IF delivery[d] # NoDelivery THEN UNCHANGED <<delivery, history>>
           ELSE IF r = None
           THEN /\ delivery' = [delivery EXCEPT ![d].status = "SEARCHING_RIDER"]
                /\ UNCHANGED history
           ELSE /\ delivery' = [delivery EXCEPT ![d] = Assigned(r, "AUTO")]
                /\ history' = [history EXCEPT ![d] = Logged(@, "ASSIGNED", r)]
    /\ Finish(w)
    /\ UNCHANGED <<rider, proven, earned>>

---------------------------------------------------------------------------
(* SearchingRiderRetrySweeper, and assign() *)

\* Mutant: the sweep looks for deliveries one status too early.
RetriesPending(d) == delivery[d].status = "PENDING" /\ history[d].attempts < MaxDispatchAttempts
Retries(d) ==
    delivery[d].status = "SEARCHING_RIDER" /\ history[d].attempts < MaxDispatchAttempts

\* Mutant: nobody is excluded.
ExcludedNone(d) == {}
Excluded(d) == history[d].offered

RetryRead(w, d) ==
    /\ Retries(d)
    /\ \E r \in Candidates(Excluded(d)) :
        Start(w, [Idle EXCEPT !.pc = "assign", !.delivery = d, !.rider = r, !.source = "AUTO"])
    /\ UNCHANGED <<rider, delivery, history, proven, earned>>

AssignRead(w) ==
    /\ At(w, "assign")
    /\ IF CanTransition(delivery[req[w].delivery].status, "RIDER_ASSIGNED")
       THEN Continue(w, [req[w] EXCEPT !.pc = "assignWrite"])
       ELSE Finish(w)
    /\ UNCHANGED <<rider, delivery, history, proven, earned>>

\* The update is not guarded by the status that was checked.
AssignWrite(w) ==
    /\ At(w, "assignWrite")
    /\ LET d == req[w].delivery
           r == req[w].rider
       IN  /\ LockFree(d)
           /\ delivery' = [delivery EXCEPT ![d] = Assigned(r, req[w].source)]
           /\ history' = [history EXCEPT ![d] = Logged(@, "ASSIGNED", r)]
    /\ Finish(w)
    /\ UNCHANGED <<rider, proven, earned>>

---------------------------------------------------------------------------
(* Reassignment: a rider rejects an offer, or OfferTimeoutSweeper ends it *)

RejectRead(w, d) ==
    /\ delivery[d].status = "RIDER_ASSIGNED"
    /\ Start(w, [Idle EXCEPT !.pc = "reassign", !.delivery = d, !.action = "REJECTED"])
    /\ UNCHANGED <<rider, delivery, history, proven, earned>>

\* Mutant: the sweep ends offers that were accepted.
ExpiresAccepted(d) == delivery[d].status = "RIDER_ACCEPTED"
Expires(d) == delivery[d].status = "RIDER_ASSIGNED"

\* Any offer may be older than assignmentTimeoutSeconds.
TimeoutRead(w, d) ==
    /\ Expires(d)
    /\ Start(w, [Idle EXCEPT !.pc = "reassign", !.delivery = d, !.action = "TIMED_OUT"])
    /\ UNCHANGED <<rider, delivery, history, proven, earned>>

\* Mutant: the update inside the transaction is not guarded.
EndsAnyway(d) == delivery[d].rider # None
StillOpen(d) == delivery[d].status = "RIDER_ASSIGNED"

(***************************************************************************)
(* reassign reads the delivery again, and swaps it from the offer it finds *)
(* there to SEARCHING_RIDER; the search that follows, still inside the     *)
(* transaction, excludes everyone in the history and the rider just freed. *)
(***************************************************************************)
Reassign(w) ==
    /\ At(w, "reassign")
    /\ LET d    == req[w].delivery
           prev == delivery[d].rider
       IN  IF StillOpen(d)
           THEN /\ LockFree(d)
                /\ \E r \in IF history[d].attempts < MaxOffers
                            THEN Picks(Excluded(d) \cup {prev})
                            ELSE {None} :
                    Continue(w, [req[w] EXCEPT !.pc = "rematch", !.prev = prev, !.rider = r])
           ELSE Finish(w)
    /\ UNCHANGED <<rider, delivery, history, proven, earned>>

\* What a reassignment logs (mutant: in the wrong order).
RematchedFirst(h, action, prev, r) == Logged(Logged(h, "ASSIGNED", r), action, prev)
Rematched(h, action, prev, r) == Logged(Logged(h, action, prev), "ASSIGNED", r)

RematchCommit(w) ==
    /\ At(w, "rematch")
    /\ LET d      == req[w].delivery
           r      == req[w].rider
           action == req[w].action
           prev   == req[w].prev
       IN  /\ rider' = Freed(prev)
           /\ IF r = None
              THEN /\ delivery' = [delivery EXCEPT ![d].status = "SEARCHING_RIDER",
                                                   ![d].rider  = None]
                   /\ history' = [history EXCEPT ![d] = Logged(@, action, prev)]
              ELSE /\ delivery' = [delivery EXCEPT ![d] = Assigned(r, "AUTO")]
                   /\ history' = [history EXCEPT ![d] = Rematched(@, action, prev, r)]
    /\ Finish(w)
    /\ UNCHANGED <<proven, earned>>

---------------------------------------------------------------------------
(* Administrator: adminAssign, and DeliveryCancellationService *)

\* Any rider will do; with no previous rider, assign() follows directly.
AdminRead(w, d, r) ==
    /\ delivery[d].status \in Cancellable
    /\ history[d].attempts < MaxOffers
    /\ Start(w, [Idle EXCEPT !.pc       = IF delivery[d].rider = None THEN "assign" ELSE "replace",
                             !.delivery = d, !.rider  = r,
                             !.prev     = delivery[d].rider, !.source = "ADMIN"])
    /\ UNCHANGED <<rider, delivery, history, proven, earned>>

\* One transaction, which writes whatever the delivery has become since it was read.
ReplaceCommit(w) ==
    /\ At(w, "replace")
    /\ LET d == req[w].delivery
           r == req[w].rider
       IN  /\ LockFree(d)
           /\ rider' = Freed(req[w].prev)
           /\ delivery' = [delivery EXCEPT ![d] = Assigned(r, "ADMIN")]
           /\ history' = [history EXCEPT ![d] =
                            Logged(Logged(@, "REASSIGNED", req[w].prev), "ASSIGNED", r)]
    /\ Finish(w)
    /\ UNCHANGED <<proven, earned>>

CancelRead(w, d) ==
    /\ delivery[d].status \in Cancellable
    /\ Start(w, [Idle EXCEPT !.pc = "cancel", !.delivery = d, !.prev = delivery[d].rider])
    /\ UNCHANGED <<rider, delivery, history, proven, earned>>

CancelCommit(w) ==
    /\ At(w, "cancel")
    /\ LET d == req[w].delivery IN
        /\ LockFree(d)
        /\ delivery' = [delivery EXCEPT ![d].status = "CANCELLED"]
        /\ history' = [history EXCEPT ![d] = Logged(@, "CANCELLED", req[w].prev)]
        /\ rider' = Freed(req[w].prev)
    /\ Finish(w)
    /\ UNCHANGED <<proven, earned>>

DispatchRequest(w) ==
    \/ \E d \in Deliveries :
        \/ CreateRead(w, d) \/ RejectRead(w, d) \/ CancelRead(w, d)
        \/ \E r \in Riders : AdminRead(w, d, r)
    \/ CreateCommit(w) \/ ReplaceCommit(w) \/ CancelCommit(w)

Sweep(w) == \E d \in Deliveries : RetryRead(w, d) \/ TimeoutRead(w, d)

\* Steps a request and a sweep have in common.
DispatchStep(w) == AssignRead(w) \/ AssignWrite(w) \/ Reassign(w) \/ RematchCommit(w)
=============================================================================
