-------------------------- MODULE OrderLifecycle ---------------------------
(***************************************************************************)
(* What the marketplace promises about an order, with no requests, no      *)
(* payments and no couriers: it is placed with its units taken off the     *)
(* shelf all together, it then moves only along the transition map of      *)
(* OrderStateMachine, and when it is cancelled its units go back, once.    *)
(***************************************************************************)
EXTENDS OrderStateMachine, Integers

CONSTANTS OrderIds, Products, InitialStock

VARIABLES status, lines, shelf

lifecycleVars == <<status, lines, shelf>>

Init ==
    /\ status = [o \in OrderIds |-> "NONE"]
    /\ lines = [o \in OrderIds |-> {}]
    /\ shelf = [p \in Products |-> InitialStock]

Place(o, items) ==
    /\ status[o] = "NONE"
    /\ \A p \in items : shelf[p] > 0
    /\ status' = [status EXCEPT ![o] = "PAYMENT_PENDING"]
    /\ lines' = [lines EXCEPT ![o] = items]
    /\ shelf' = [p \in Products |-> IF p \in items THEN shelf[p] - 1 ELSE shelf[p]]

Advance(o, to) ==
    /\ CanTransition(status[o], to)
    /\ to # "CANCELLED"
    /\ status' = [status EXCEPT ![o] = to]
    /\ UNCHANGED <<lines, shelf>>

Cancel(o) ==
    /\ CanTransition(status[o], "CANCELLED")
    /\ status' = [status EXCEPT ![o] = "CANCELLED"]
    /\ shelf' = [p \in Products |-> IF p \in lines[o] THEN shelf[p] + 1 ELSE shelf[p]]
    /\ UNCHANGED lines

Next ==
    \E o \in OrderIds :
        \/ \E items \in SUBSET Products : Place(o, items)
        \/ \E to \in OrderStatuses : Advance(o, to)
        \/ Cancel(o)

Spec == Init /\ [][Next]_lifecycleVars
=============================================================================
