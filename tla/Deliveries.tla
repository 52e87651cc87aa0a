----------------------------- MODULE Deliveries -----------------------------
(***************************************************************************)
(* Dispatch, couriers and administrators over the same deliveries.         *)
(***************************************************************************)
EXTENDS Dispatch, Courier

Next ==
    \/ \E w \in Requests : DispatchRequest(w) \/ CourierStep(w) \/ RiderStep(w)
    \/ \E w \in Sweepers : Sweep(w)
    \/ \E w \in Workers : DispatchStep(w) \/ Fail(w)
    \/ \E r \in Riders : Roam(r)

Spec == Init /\ [][Next]_vars

\* A transaction that holds a row lock ends: Prisma rolls it back after five seconds.
EndTransaction(w) == At(w, "rematch") /\ (RematchCommit(w) \/ Fail(w))

(***************************************************************************)
(* The code schedules its sweepers by cron, every 10 and 15 seconds, and   *)
(* nothing else: a step of a sweep that can be taken again and again is    *)
(* taken.  A sweep may fail, any number of times, but the cause passes.    *)
(* No rider has to answer, and requests may fail for ever.                 *)
(***************************************************************************)
SweepFairness ==
    /\ \A w \in Sweepers :
        /\ \A d \in Deliveries : SF_vars(RetryRead(w, d)) /\ SF_vars(TimeoutRead(w, d))
        /\ SF_vars(DispatchStep(w))
        /\ <>[][~Fail(w)]_vars
    /\ \A w \in Requests : WF_vars(EndTransaction(w))

FairSpec == Spec /\ SweepFairness

---------------------------------------------------------------------------
(* For any number of concurrent requests and sweeps *)

(***************************************************************************)
(* An offer is answered at most once: a row that says ACCEPTED, REJECTED   *)
(* or TIMED_OUT answers the offer of the same rider that is the last row   *)
(* of the history, so no offer is both accepted and timed out (the two     *)
(* compare-and-swaps of accept and reassign).                              *)
(***************************************************************************)
Answers == {"ACCEPTED", "REJECTED", "TIMED_OUT"}

OfferAnsweredOnce ==
    [][\A d \in Deliveries :
        LET last == history[d].last
            next == history'[d].last
        IN  next # last /\ next.action \in Answers =>
                last.action = "ASSIGNED" /\ last.rider = next.rider]_vars

(***************************************************************************)
(* While a delivery is offered, the last row of its history says so and    *)
(* names its rider: whatever overwrote whatever, the audit trail and the   *)
(* Delivery row never disagree about an open offer.                        *)
(***************************************************************************)
OfferIsOnRecord ==
    \A d \in Deliveries :
        delivery[d].status = "RIDER_ASSIGNED" =>
            history[d].last = [action |-> "ASSIGNED", rider |-> delivery[d].rider]

(***************************************************************************)
(* A rider who does not answer does not keep the delivery: some sweep      *)
(* takes it back, if nobody else changes it first (OfferTimeoutSweeper).   *)
(***************************************************************************)
OfferEnds ==
    \A d \in Deliveries, r \in Riders :
        LET offered == delivery[d].status = "RIDER_ASSIGNED" /\ delivery[d].rider = r
        IN  []<>~offered

(***************************************************************************)
(* A delivery does not go on searching for ever while there is someone it  *)
(* could be offered to (SearchingRiderRetrySweeper, up to its attempts).   *)
(***************************************************************************)
CouldBeOffered(d) ==
    /\ delivery[d].status = "SEARCHING_RIDER"
    /\ history[d].attempts < MaxDispatchAttempts
    /\ Candidates(history[d].offered) # {}

SearchGoesOn == \A d \in Deliveries : []<>~CouldBeOffered(d)

---------------------------------------------------------------------------
(* What holds when requests and sweeps do not overlap (one worker) *)

(***************************************************************************)
(* A new offer made by the dispatcher, not by an administrator.            *)
(***************************************************************************)
AutoOffer(d) ==
    history'[d].attempts > history[d].attempts /\ delivery'[d].source = "AUTO"

(***************************************************************************)
(* The dispatcher only offers to riders who are ACTIVE, AVAILABLE, within  *)
(* reach and free of other deliveries.                                     *)
(***************************************************************************)
OffersGoToFreeRiders ==
    [][\A d \in Deliveries : AutoOffer(d) =>
        LET r == delivery'[d].rider IN
            /\ rider[r].active /\ rider[r].status = "AVAILABLE" /\ rider[r].near
            /\ \A e \in Deliveries \ {d} :
                delivery[e].rider = r => delivery[e].status \notin Active]_vars

(***************************************************************************)
(* "so the same rider is never re-offered": the dispatcher never offers a  *)
(* delivery to someone its history names.                                  *)
(***************************************************************************)
NeverReoffered ==
    [][\A d \in Deliveries : AutoOffer(d) => delivery'[d].rider \notin history[d].offered]_vars

(***************************************************************************)
(* Every delivery is then a DeliveryJob: one holder at a time, the stages  *)
(* in order, proof before delivery, and earned by who accepted it.         *)
(***************************************************************************)
CarrierOf(last) == IF last.action = "ACCEPTED" THEN last.rider ELSE None

Job == INSTANCE DeliveryJob WITH
    status   <- [d \in Deliveries |-> delivery[d].status],
    holder   <- [d \in Deliveries |-> delivery[d].rider],
    carrier  <- [d \in Deliveries |-> CarrierOf(history[d].last)],
    proof    <- proven,
    earnings <- earned

JobRefined == Job!Spec

---------------------------------------------------------------------------
(* What comments say and the code does not keep *)

(***************************************************************************)
(* The comment of suspend(): "SUSPENDED+AVAILABLE must never be a          *)
(* reachable state".                                                       *)
(***************************************************************************)
SuspendedIsNotAvailable == \A r \in Riders : rider[r].active \/ rider[r].status # "AVAILABLE"

(***************************************************************************)
(* The comment of complete(): "race-safe against two completions".         *)
(* Violated with two requests, one rider and MaxEarnings = 2; no run of its *)
(* own (README).                                                           *)
(***************************************************************************)
EarnedOnce == \A d \in Deliveries : earned[d] <= 1
=============================================================================
