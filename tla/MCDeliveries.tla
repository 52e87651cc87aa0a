---------------------------- MODULE MCDeliveries ----------------------------
(***************************************************************************)
(* Instances of Deliveries for TLC.                                        *)
(***************************************************************************)
EXTENDS Deliveries, TLC

Symmetry ==
    Permutations(Requests) \cup Permutations(Riders) \cup Permutations(Deliveries)

(***************************************************************************)
(* For the instance with sweepers: no rider is suspended, and none says to *)
(* be BUSY without a delivery.                                             *)
(***************************************************************************)
CalmNext ==
    \/ \E w \in Requests :
        \/ DispatchRequest(w) \/ CourierStep(w) \/ AvailabilityWrite(w)
        \/ \E r \in Riders, s \in {"AVAILABLE", "OFFLINE"} : AvailabilityRead(w, r, s)
    \/ \E w \in Sweepers : Sweep(w)
    \/ \E w \in Workers : DispatchStep(w) \/ Fail(w)
    \/ \E r \in Riders : Roam(r)

CalmSpec == Init /\ [][CalmNext]_vars /\ SweepFairness
=============================================================================
