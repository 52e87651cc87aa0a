---------------------------- MODULE DeliveryRows ----------------------------
(***************************************************************************)
(* The rows dispatch and couriers work on, and the workers that do it:     *)
(* HTTP requests and the cron sweepers.  As in OrderRows, every action is  *)
(* one round trip to the database (or a run of reads that nothing else in  *)
(* the request depends on), and req[w] holds what worker w has read, which *)
(* may be stale when it is used.                                           *)
(***************************************************************************)
EXTENDS DeliveryStateMachine, Integers, FiniteSets

CONSTANTS
    Requests,             \* HTTP requests the API can be serving at one time
    Sweepers,             \* sweeps running: OfferTimeout-, SearchingRiderRetrySweeper
    Riders,               \* couriers
    Deliveries,           \* ids of Delivery rows, one for each order
    Roaming,              \* riders that may leave the search radius, or stop sending GPS
    MaxDispatchAttempts,  \* RiderDispatchConfig.maxDispatchAttempts
    MaxOffers,            \* bound: after so many offers of a delivery no other one starts
    MaxEarnings           \* bound: after so many earnings of a delivery no completion starts

ASSUME RoamingAssumption == Roaming \subseteq Riders
ASSUME AttemptsAssumption == /\ MaxDispatchAttempts \in Nat
                             /\ MaxOffers \in Nat
                             /\ MaxEarnings \in Nat

Workers == Requests \cup Sweepers

None == "NONE"

VARIABLES
    rider,     \* Rider rows: account, availability, and whether the search sees them
    delivery,  \* Delivery rows
    history,   \* DeliveryAssignmentHistory: who was ever named, the offers, the last row
    proven,    \* DeliveryProof.verifiedAt is set
    earned,    \* number of RiderEarning rows of each delivery
    req        \* what each worker is doing

vars == <<rider, delivery, history, proven, earned, req>>

Availabilities == {"AVAILABLE", "BUSY", "OFFLINE"}

RiderRow == [ active : BOOLEAN,  \* accountStatus = ACTIVE (otherwise SUSPENDED)
              status : Availabilities,
              near   : BOOLEAN ] \* a fresh location within the search radius

DeliveryRow == [ status : DeliveryStatuses \cup {None},
                 rider  : Riders \cup {None},
                 source : {"AUTO", "ADMIN", None} ]

HistoryActions ==
    {"ASSIGNED", "ACCEPTED", "REJECTED", "TIMED_OUT", "REASSIGNED", "CANCELLED"}

HistoryRow == [action : HistoryActions \cup {None}, rider : Riders \cup {None}]

History == [offered : SUBSET Riders, attempts : Nat, last : HistoryRow]

Steps == { "idle", "create", "assign", "assignWrite", "reassign", "rematch",
           "replace", "cancel", "accept", "transition", "verify", "complete",
           "availability" }

Task == [ pc       : Steps,
          delivery : Deliveries \cup {None},
          rider    : Riders \cup {None},    \* the rider to assign, or who is calling
          prev     : Riders \cup {None},    \* Delivery.riderId as read
          target   : DeliveryStatuses \cup {None},
          action   : HistoryActions \cup {None},
          source   : {"AUTO", "ADMIN", None},
          status   : Availabilities \cup {None} ]

Idle == [ pc |-> "idle", delivery |-> None, rider |-> None, prev |-> None,
          target |-> None, action |-> None, source |-> None, status |-> None ]

NoDelivery == [status |-> None, rider |-> None, source |-> None]
NoRow      == [action |-> None, rider |-> None]
NoHistory  == [offered |-> {}, attempts |-> 0, last |-> NoRow]

TypeOK ==
    /\ rider \in [Riders -> RiderRow]
    /\ delivery \in [Deliveries -> DeliveryRow]
    /\ history \in [Deliveries -> History]
    /\ proven \in [Deliveries -> BOOLEAN]
    /\ earned \in [Deliveries -> Nat]
    /\ req \in [Workers -> Task]

Init ==
    /\ rider = [r \in Riders |-> [active |-> TRUE, status |-> "OFFLINE", near |-> TRUE]]
    /\ delivery = [d \in Deliveries |-> NoDelivery]
    /\ history = [d \in Deliveries |-> NoHistory]
    /\ proven = [d \in Deliveries |-> FALSE]
    /\ earned = [d \in Deliveries |-> 0]
    /\ req = [w \in Workers |-> Idle]

At(w, step) == req[w].pc = step

Start(w, task) == req[w] = Idle /\ req' = [req EXCEPT ![w] = task]
Continue(w, task) == req' = [req EXCEPT ![w] = task]
Finish(w) == req' = [req EXCEPT ![w] = Idle]

(***************************************************************************)
(* Rows are appended to the history and never change.  Of the rows, the    *)
(* code only asks who is named in one and how many are ASSIGNED.           *)
(***************************************************************************)
LoggedWithNull(h, action, r) ==  \* mutant: a row without a rider counts as one
    [ offered  |-> h.offered \cup {r},
      attempts |-> IF action = "ASSIGNED" THEN h.attempts + 1 ELSE h.attempts,
      last     |-> [action |-> action, rider |-> r] ]
Logged(h, action, r) ==
    [ offered  |-> h.offered \cup ({r} \ {None}),
      attempts |-> IF action = "ASSIGNED" THEN h.attempts + 1 ELSE h.attempts,
      last     |-> [action |-> action, rider |-> r] ]

Freed(r) == IF r = None THEN rider ELSE [rider EXCEPT ![r].status = "AVAILABLE"]

(***************************************************************************)
(* Between its compare-and-swap and its commit, a reassignment holds the   *)
(* lock of the Delivery row: another write of the row waits.               *)
(***************************************************************************)
LockFree(d) == \A v \in Workers : At(v, "rematch") => req[v].delivery # d

\* A request or a sweep dies between two round trips; its open transaction rolls back.
Fail(w) ==
    /\ ~At(w, "idle")
    /\ Finish(w)
    /\ UNCHANGED <<rider, delivery, history, proven, earned>>
=============================================================================
