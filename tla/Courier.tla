------------------------------ MODULE Courier -------------------------------
(***************************************************************************)
(* What a rider does with a delivery (DeliveryService), and what becomes   *)
(* of the Rider row itself (RidersService, RiderProfileService).           *)
(***************************************************************************)
EXTENDS DeliveryRows

\* getForRider: the caller must be the rider of the delivery.
Owns(r, d) == r # None /\ delivery[d].rider = r

---------------------------------------------------------------------------
(* accept *)

\* The delivery is checked, then the account of the rider.
AcceptRead(w, d, r) ==
    /\ Owns(r, d)
    /\ CanTransition(delivery[d].status, "RIDER_ACCEPTED")
    /\ rider[r].active
    /\ Start(w, [Idle EXCEPT !.pc = "accept", !.delivery = d, !.rider = r])
    /\ UNCHANGED <<rider, delivery, history, proven, earned>>

StillOffered(d, r) == delivery[d].status = "RIDER_ASSIGNED" /\ delivery[d].rider = r

\* The compare-and-swap; RIDER_ACCEPTED becomes GOING_TO_PICKUP before the commit.
AcceptCommit(w) ==
    /\ At(w, "accept")
    /\ LET d == req[w].delivery
           r == req[w].rider
       IN  /\ LockFree(d)
           /\ IF StillOffered(d, r)
              THEN /\ delivery' = [delivery EXCEPT ![d].status = "GOING_TO_PICKUP"]
                   /\ history' = [history EXCEPT ![d] = Logged(@, "ACCEPTED", r)]
                   /\ rider' = [rider EXCEPT ![r].status = "BUSY"]
              ELSE UNCHANGED <<rider, delivery, history>>
    /\ Finish(w)
    /\ UNCHANGED <<proven, earned>>

---------------------------------------------------------------------------
(* arrivedAtPickup, pickedUp, start, arrivedAtCustomer *)

TransitionTargets ==
    {"ARRIVED_AT_PICKUP", "PICKED_UP", "IN_TRANSIT", "ARRIVED_AT_CUSTOMER"}

\* Mutant: one may always arrive.
ArrivesAnyway(from, to) == CanTransition(from, to) \/ to = "ARRIVED_AT_CUSTOMER"
MayMove(from, to) == CanTransition(from, to)

TransitionRead(w, d, target) ==
    /\ delivery[d].rider # None
    /\ MayMove(delivery[d].status, target)
    /\ Start(w, [Idle EXCEPT !.pc = "transition", !.delivery = d, !.target = target])
    /\ UNCHANGED <<rider, delivery, history, proven, earned>>

\* The update is not guarded by the status or the rider that was checked.
TransitionWrite(w) ==
    /\ At(w, "transition")
    /\ LockFree(req[w].delivery)
    /\ delivery' = [delivery EXCEPT ![req[w].delivery].status = req[w].target]
    /\ Finish(w)
    /\ UNCHANGED <<rider, history, proven, earned>>

---------------------------------------------------------------------------
(* complete *)

CompleteRead(w, d, r) ==
    /\ Owns(r, d)
    /\ CanTransition(delivery[d].status, "DELIVERED")
    /\ earned[d] < MaxEarnings
    /\ Start(w, [Idle EXCEPT !.pc = "verify", !.delivery = d, !.rider = r])
    /\ UNCHANGED <<rider, delivery, history, proven, earned>>

\* DeliveryProofService.verify: once verified, any code will do (a wrong one is Fail).
Verify(w) ==
    /\ At(w, "verify")
    /\ proven' = [proven EXCEPT ![req[w].delivery] = TRUE]
    /\ Continue(w, [req[w] EXCEPT !.pc = "complete"])
    /\ UNCHANGED <<rider, delivery, history, earned>>

AtCustomer(d) == delivery[d].status = "ARRIVED_AT_CUSTOMER"

\* The compare-and-swap: whoever wins it earns, and becomes available.
CompleteCommit(w) ==
    /\ At(w, "complete")
    /\ LET d == req[w].delivery
           r == req[w].rider
       IN  /\ LockFree(d)
           /\ IF AtCustomer(d)
              THEN /\ delivery' = [delivery EXCEPT ![d].status = "DELIVERED"]
                   /\ earned' = [earned EXCEPT ![d] = @ + 1]
                   /\ rider' = Freed(r)
              ELSE UNCHANGED <<rider, delivery, earned>>
    /\ Finish(w)
    /\ UNCHANGED <<history, proven>>

---------------------------------------------------------------------------
(* The Rider row *)

\* setAvailability: the account is read, then the row is written.
AvailabilityRead(w, r, status) ==
    /\ rider[r].active
    /\ Start(w, [Idle EXCEPT !.pc = "availability", !.rider = r, !.status = status])
    /\ UNCHANGED <<rider, delivery, history, proven, earned>>

AvailabilityWrite(w) ==
    /\ At(w, "availability")
    /\ rider' = [rider EXCEPT ![req[w].rider].status = req[w].status]
    /\ Finish(w)
    /\ UNCHANGED <<delivery, history, proven, earned>>

\* suspend, and setStatus to anything but ACTIVE.
Suspend(w, r) ==
    /\ req[w] = Idle
    /\ rider' = [rider EXCEPT ![r].active = FALSE, ![r].status = "OFFLINE"]
    /\ UNCHANGED <<delivery, history, proven, earned, req>>

Reactivate(w, r) ==
    /\ req[w] = Idle
    /\ ~rider[r].active
    /\ rider' = [rider EXCEPT ![r].active = TRUE]
    /\ UNCHANGED <<delivery, history, proven, earned, req>>

\* A rider comes within reach of the search, or drops out of it.
Roam(r) ==
    /\ r \in Roaming
    /\ rider' = [rider EXCEPT ![r].near = ~@]
    /\ UNCHANGED <<delivery, history, proven, earned, req>>

CourierStep(w) ==
    \/ \E d \in Deliveries :
        \/ \E r \in Riders : AcceptRead(w, d, r) \/ CompleteRead(w, d, r)
        \/ \E target \in TransitionTargets : TransitionRead(w, d, target)
    \/ AcceptCommit(w) \/ TransitionWrite(w) \/ Verify(w) \/ CompleteCommit(w)

RiderStep(w) ==
    \/ \E r \in Riders :
        \/ \E status \in Availabilities : AvailabilityRead(w, r, status)
        \/ Suspend(w, r) \/ Reactivate(w, r)
    \/ AvailabilityWrite(w)
=============================================================================
