------------------------ MODULE DeliveryStateMachine ------------------------
(***************************************************************************)
(* The statuses of a Delivery and the legal moves between them.  A pure    *)
(* module, like the class it is named after.  "NONE" stands for a row that *)
(* does not exist yet.                                                     *)
(***************************************************************************)

DeliveryStatuses ==
    { "PENDING", "SEARCHING_RIDER", "RIDER_ASSIGNED", "RIDER_ACCEPTED",
      "GOING_TO_PICKUP", "ARRIVED_AT_PICKUP", "PICKED_UP", "IN_TRANSIT",
      "ARRIVED_AT_CUSTOMER", "DELIVERED", "CANCELLED", "FAILED" }

Transitions ==
    [ s \in DeliveryStatuses |->
        CASE s = "PENDING"             -> {"SEARCHING_RIDER", "CANCELLED"}
          [] s = "SEARCHING_RIDER"     -> {"RIDER_ASSIGNED", "CANCELLED", "FAILED"}
          [] s = "RIDER_ASSIGNED"      -> {"RIDER_ACCEPTED", "SEARCHING_RIDER", "CANCELLED"}
          [] s = "RIDER_ACCEPTED"      -> {"GOING_TO_PICKUP", "CANCELLED"}
          [] s = "GOING_TO_PICKUP"     -> {"ARRIVED_AT_PICKUP", "CANCELLED"}
          [] s = "ARRIVED_AT_PICKUP"   -> {"PICKED_UP", "CANCELLED"}
          [] s = "PICKED_UP"           -> {"IN_TRANSIT"}
          [] s = "IN_TRANSIT"          -> {"ARRIVED_AT_CUSTOMER"}
          [] s = "ARRIVED_AT_CUSTOMER" -> {"DELIVERED"}
          [] OTHER                     -> {} ]

CanTransition(from, to) == from \in DeliveryStatuses /\ to \in Transitions[from]

\* Until the goods are physically picked up.
Cancellable == { "PENDING", "SEARCHING_RIDER", "RIDER_ASSIGNED", "RIDER_ACCEPTED",
                 "GOING_TO_PICKUP", "ARRIVED_AT_PICKUP" }
=============================================================================
