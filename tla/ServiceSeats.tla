--------------------------- MODULE ServiceSeats ----------------------------
(***************************************************************************)
(* What the capacity of a service promises: Capacity seats in every hour.  *)
(* An occupant takes one seat in each hour of its span, if all are free,   *)
(* and gives them up once, for good.                                       *)
(***************************************************************************)
EXTENDS Integers, FiniteSets

CONSTANTS Occupants, Hours, Capacity

VARIABLE seated     \* the hours each occupant has a seat in

TakenIn(h) == Cardinality({p \in Occupants : h \in seated[p]})

Init == seated = [p \in Occupants |-> {}]

TakeSeats(p, span) ==
    /\ seated[p] = {}
    /\ span # {}
    /\ \A h \in span : TakenIn(h) < Capacity
    /\ seated' = [seated EXCEPT ![p] = span]

GiveUp(p) ==
    /\ seated[p] # {}
    /\ seated' = [seated EXCEPT ![p] = {}]

Next ==
    \E p \in Occupants :
        \/ \E span \in SUBSET Hours : TakeSeats(p, span)
        \/ GiveUp(p)

Spec == Init /\ [][Next]_seated
=============================================================================
