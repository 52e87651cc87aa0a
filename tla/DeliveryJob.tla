---------------------------- MODULE DeliveryJob -----------------------------
(***************************************************************************)
(* What dispatch promises about deliveries, with no requests, no sweepers  *)
(* and no availability: a delivery is offered to one rider at a time; the  *)
(* rider who accepts carries it through the stages in order, unless it is  *)
(* taken away or cancelled before the goods are picked up; it is delivered *)
(* with the customer's proof, and earned once, by who carried it.          *)
(***************************************************************************)
EXTENDS DeliveryStateMachine, Integers

CONSTANTS Deliveries, Riders

VARIABLES status, holder, carrier, proof, earnings

jobVars == <<status, holder, carrier, proof, earnings>>

Nobody == "NONE"

Init ==
    /\ status = [d \in Deliveries |-> "NONE"]
    /\ holder = [d \in Deliveries |-> Nobody]
    /\ carrier = [d \in Deliveries |-> Nobody]
    /\ proof = [d \in Deliveries |-> FALSE]
    /\ earnings = [d \in Deliveries |-> 0]

Moves(d, to) == status' = [status EXCEPT ![d] = to]

Open(d) ==
    /\ status[d] = "NONE"
    /\ Moves(d, "SEARCHING_RIDER")
    /\ UNCHANGED <<holder, carrier, proof, earnings>>

\* A new job may be offered at once; an open one may be taken from its rider.
Offer(d, r) ==
    /\ status[d] \in {"NONE"} \cup Cancellable
    /\ Moves(d, "RIDER_ASSIGNED")
    /\ holder' = [holder EXCEPT ![d] = r]
    /\ carrier' = [carrier EXCEPT ![d] = Nobody]
    /\ UNCHANGED <<proof, earnings>>

Withdraw(d) ==
    /\ status[d] = "RIDER_ASSIGNED"
    /\ Moves(d, "SEARCHING_RIDER")
    /\ holder' = [holder EXCEPT ![d] = Nobody]
    /\ UNCHANGED <<carrier, proof, earnings>>

Accept(d) ==
    /\ status[d] = "RIDER_ASSIGNED"
    /\ Moves(d, "GOING_TO_PICKUP")
    /\ carrier' = [carrier EXCEPT ![d] = holder[d]]
    /\ UNCHANGED <<holder, proof, earnings>>

Advance(d) ==
    /\ carrier[d] # Nobody
    /\ \E to \in {"ARRIVED_AT_PICKUP", "PICKED_UP", "IN_TRANSIT", "ARRIVED_AT_CUSTOMER"} :
        CanTransition(status[d], to) /\ Moves(d, to)
    /\ UNCHANGED <<holder, carrier, proof, earnings>>

Prove(d) ==
    /\ status[d] = "ARRIVED_AT_CUSTOMER"
    /\ proof' = [proof EXCEPT ![d] = TRUE]
    /\ UNCHANGED <<status, holder, carrier, earnings>>

Deliver(d) ==
    /\ status[d] = "ARRIVED_AT_CUSTOMER" /\ proof[d] /\ carrier[d] = holder[d]
    /\ Moves(d, "DELIVERED")
    /\ earnings' = [earnings EXCEPT ![d] = @ + 1]
    /\ UNCHANGED <<holder, carrier, proof>>

Cancel(d) ==
    /\ status[d] \in Cancellable
    /\ Moves(d, "CANCELLED")
    /\ carrier' = [carrier EXCEPT ![d] = Nobody]
    /\ UNCHANGED <<holder, proof, earnings>>

Next ==
    \E d \in Deliveries :
        \/ Open(d) \/ Withdraw(d) \/ Accept(d) \/ Advance(d)
        \/ Prove(d) \/ Deliver(d) \/ Cancel(d)
        \/ \E r \in Riders : Offer(d, r)

Spec == Init /\ [][Next]_jobVars
=============================================================================
