------------------------- MODULE OrderStateMachine -------------------------
(***************************************************************************)
(* The vocabulary of a Marketplace order: its statuses, the legal moves    *)
(* between them, and the statuses of the Payment that settles it.  A pure  *)
(* module, like the class it is named after: it keeps no state.            *)
(*                                                                         *)
(* "NONE" stands for a row that does not exist yet.                        *)
(***************************************************************************)

OrderStatuses ==
    { "CREATED", "PAYMENT_PENDING", "PAID", "CONFIRMED", "PREPARING",
      "READY_FOR_PICKUP", "COMPLETED", "CANCELLED" }

PaymentStatuses ==
    { "PENDING", "PAID", "FAILED", "REFUNDED", "PARTIALLY_REFUNDED" }

(***************************************************************************)
(* The exhaustive transition map: Transitions[s] is what s may move to.    *)
(***************************************************************************)
Transitions ==
    [ s \in OrderStatuses |->
        CASE s = "CREATED"          -> {"PAYMENT_PENDING", "CANCELLED"}
          [] s = "PAYMENT_PENDING"  -> {"PAID", "CANCELLED"}
          [] s = "PAID"             -> {"CONFIRMED", "CANCELLED"}
          [] s = "CONFIRMED"        -> {"PREPARING", "CANCELLED"}
          [] s = "PREPARING"        -> {"READY_FOR_PICKUP"}
          [] s = "READY_FOR_PICKUP" -> {"COMPLETED"}
          [] OTHER                  -> {} ]

CanTransition(from, to) == from \in OrderStatuses /\ to \in Transitions[from]

CustomerCancellable == {"CREATED", "PAYMENT_PENDING", "PAID", "CONFIRMED"}

\* What a business may set directly (payment-driven and terminal states are not).
BusinessSettable == {"CONFIRMED", "PREPARING", "READY_FOR_PICKUP", "COMPLETED"}
=============================================================================
