--------------------------- MODULE BookingsProofs --------------------------
(***************************************************************************)
(* What holds of Bookings for every set of requests, bookings, hours and   *)
(* keys, and every capacity.                                               *)
(***************************************************************************)
EXTENDS Bookings, FiniteSetTheorems, TLAPS

(***************************************************************************)
(* TypeOK is inductive once what a task carries is known to be what its    *)
(* step writes.                                                            *)
(***************************************************************************)
RowInv ==
    /\ booking \in [BookingIds -> BookingRow]
    /\ payment \in [BookingIds -> PaymentRow]
    /\ left \subseteq BookingIds

Booking == {"lock", "count", "insert"}
Locked == {"count", "insert"}
Choosing == {"createCard", "createCash"}
OnBooking == {"decide", "charge", "markCash"} \cup Choosing

WellFormed(t) ==
    /\ t \in Task
    /\ t.pc \in Booking => t.source \in Sources /\ t.span \in Spans /\ t.key \in Keys \cup {None}
    /\ t.pc \in OnBooking => t.id \in BookingIds
    /\ t.pc = "decide" => t.target \in BookingStatuses \ {"PENDING"}
    /\ t.pc = "createCard" => t.key \in PayKeys

ReqInv == req \in [Requests -> Task] /\ \A w \in Requests : WellFormed(req[w])

TypeInv == RowInv /\ ReqInv

LEMMA IdleWellFormed == WellFormed(Idle) /\ Idle.pc = "idle"
BY DEF Idle, Task, Steps, WellFormed, Booking, OnBooking, Choosing

LEMMA TaskMove ==
    ASSUME ReqInv, NEW w \in Requests, NEW t, WellFormed(t), req' = [req EXCEPT ![w] = t]
    PROVE  ReqInv'
BY DEF ReqInv, WellFormed

LEMMA TaskEnd == ASSUME ReqInv, NEW w \in Requests, Finish(w) PROVE ReqInv'
BY TaskMove, IdleWellFormed DEF Finish

LEMMA TaskKept == ASSUME ReqInv, UNCHANGED req PROVE ReqInv'
BY DEF ReqInv, WellFormed

LEMMA TypeInit == Init => TypeInv
<1> SUFFICES ASSUME Init PROVE TypeInv
  OBVIOUS
<1>1. RowInv
  BY DEF Init, RowInv, NoBooking, BookingRow, NoPayment, PaymentRow
<1>2. ReqInv
  BY IdleWellFormed DEF Init, ReqInv, WellFormed
<1> QED BY <1>1, <1>2 DEF TypeInv

(***************************************************************************)
(* The tasks a request starts with are well formed.                        *)
(***************************************************************************)
LEMMA LockTask ==
    ASSUME NEW source \in Sources, NEW span \in Spans, NEW k \in Keys \cup {None},
           NEW t \in Task, t.pc \in Booking, t.source = source, t.span = span, t.key = k
    PROVE  WellFormed(t)
BY DEF WellFormed, Booking, OnBooking, Choosing

LEMMA AppTask ==
    ASSUME NEW k \in Keys, NEW span \in Spans
    PROVE  WellFormed([Idle EXCEPT !.pc = "lock", !.source = "APP", !.span = span, !.key = k])
<1> DEFINE t == [Idle EXCEPT !.pc = "lock", !.source = "APP", !.span = span, !.key = k]
<1>1. t \in Task /\ t.pc = "lock" /\ t.source = "APP" /\ t.span = span /\ t.key = k
  BY SpansAssumption DEF Idle, Task, Steps, Sources
<1> QED BY <1>1, LockTask DEF Booking, Sources

LEMMA BlockTask ==
    ASSUME NEW span \in Spans
    PROVE  WellFormed([Idle EXCEPT !.pc = "lock", !.source = "MANUAL", !.span = span])
<1> DEFINE t == [Idle EXCEPT !.pc = "lock", !.source = "MANUAL", !.span = span]
<1>1. t \in Task /\ t.pc = "lock" /\ t.source = "MANUAL" /\ t.span = span /\ t.key = None
  BY SpansAssumption DEF Idle, Task, Steps, Sources
<1> QED BY <1>1, LockTask DEF Booking, Sources

LEMMA DecideTask ==
    ASSUME NEW b \in BookingIds, NEW status \in BookingStatuses, MayBecome(b, status)
    PROVE  WellFormed([Idle EXCEPT !.pc = "decide", !.id = b, !.target = status])
<1> DEFINE t == [Idle EXCEPT !.pc = "decide", !.id = b, !.target = status]
<1>1. t \in Task /\ t.pc = "decide" /\ t.id = b /\ t.target = status
  BY DEF Idle, Task, Steps
<1>2. status # "PENDING"
  BY DEF MayBecome
<1> QED BY <1>1, <1>2 DEF WellFormed, Booking, OnBooking, Choosing

LEMMA MethodTask ==
    ASSUME NEW b \in BookingIds, NEW step, NEW k,
           (step = "createCard" /\ k \in PayKeys) \/ (step = "createCash" /\ k = None)
    PROVE  WellFormed([Idle EXCEPT !.pc = step, !.id = b, !.key = k])
<1> DEFINE t == [Idle EXCEPT !.pc = step, !.id = b, !.key = k]
<1>1. t \in Task /\ t.pc = step /\ t.id = b /\ t.key = k
  BY DEF Idle, Task, Steps
<1> QED BY <1>1 DEF WellFormed, Booking, OnBooking, Choosing

LEMMA PayTask ==
    ASSUME NEW b \in BookingIds, NEW step \in {"charge", "markCash"}
    PROVE  WellFormed([Idle EXCEPT !.pc = step, !.id = b])
<1> DEFINE t == [Idle EXCEPT !.pc = step, !.id = b]
<1>1. t \in Task /\ t.pc = step /\ t.id = b
  BY DEF Idle, Task, Steps
<1> QED BY <1>1 DEF WellFormed, Booking, OnBooking, Choosing

LEMMA NextLockTask ==
    ASSUME ReqInv, NEW w \in Requests, NEW step \in Locked, req[w].pc \in Booking, GoTo(w, step)
    PROVE  ReqInv'
<1> DEFINE t == [req[w] EXCEPT !.pc = step]
<1>1. t \in Task /\ t.pc = step /\ t.source = req[w].source /\ t.span = req[w].span
      /\ t.key = req[w].key
  BY DEF ReqInv, WellFormed, Task, Steps, Locked
<1>2. WellFormed(t)
  BY <1>1, LockTask DEF ReqInv, WellFormed, Locked, Booking
<1> QED BY <1>2, TaskMove DEF GoTo, ReqInv

LEMMA ReqStep == ASSUME TypeInv, [Next]_vars PROVE ReqInv'
<1> USE DEF TypeInv
<1>1. ASSUME NEW w \in Requests, NEW k \in Keys, NEW span \in Spans, CreateRead(w, k, span)
      PROVE  ReqInv'
  BY <1>1, AppTask, TaskMove DEF CreateRead, Start
<1>2. ASSUME NEW w \in Requests, NEW span \in Spans, BlockRead(w, span) PROVE ReqInv'
  BY <1>2, BlockTask, TaskMove DEF BlockRead, Start
<1>3. ASSUME NEW w \in Requests, LockService(w) PROVE ReqInv'
  BY <1>3, NextLockTask DEF LockService, At, Locked, Booking
<1>4. ASSUME NEW w \in Requests, CountOverlapping(w) PROVE ReqInv'
  BY <1>4, NextLockTask, TaskEnd DEF CountOverlapping, At, Locked, Booking
<1>5. ASSUME NEW w \in Requests, NEW b \in BookingIds, NEW status \in BookingStatuses,
             DecisionRead(w, b, status)
      PROVE  ReqInv'
  BY <1>5, DecideTask, TaskMove DEF DecisionRead, Start
<1>6. ASSUME NEW w \in Requests, NEW b \in BookingIds, NEW k \in PayKeys,
             MethodRead(w, b, "createCard", k)
      PROVE  ReqInv'
  BY <1>6, MethodTask, TaskMove DEF MethodRead, Start
<1>7. ASSUME NEW w \in Requests, NEW b \in BookingIds, MethodRead(w, b, "createCash", None)
      PROVE  ReqInv'
  BY <1>7, MethodTask, TaskMove DEF MethodRead, Start
<1>8. ASSUME NEW w \in Requests, NEW b \in BookingIds, ConfirmRead(w, b) \/ MarkCashRead(w, b)
      PROVE  ReqInv'
  BY <1>8, PayTask, TaskMove DEF ConfirmRead, MarkCashRead, Start
<1>9. ASSUME NEW w \in Requests, Finish(w) PROVE ReqInv'
  BY <1>9, TaskEnd
<1>10. ASSUME UNCHANGED req PROVE ReqInv'
  BY <1>10, TaskKept
<1> QED BY <1>1, <1>2, <1>3, <1>4, <1>5, <1>6, <1>7, <1>8, <1>9, <1>10
        DEF Next, BookingStep, DecisionStep, PaymentStep, InsertBooking, InsertRejected,
            DecisionWrite, CreateCard, CreateCash, Charge, MarkCash, Fail, ProviderReports, vars

LEMMA MoneyRow ==
    ASSUME RowInv, NEW b \in BookingIds, NEW status \in Outcomes, NEW n \in Nat,
           payment' = [payment EXCEPT ![b].status = status, ![b].charged = n]
    PROVE  /\ payment' \in [BookingIds -> PaymentRow]
           /\ payment'[b] = [payment[b] EXCEPT !.status = status, !.charged = n]
           /\ \A c \in BookingIds \ {b} : payment'[c] = payment[c]
<1>1. payment[b] \in PaymentRow
  BY DEF RowInv
<1>2. [payment[b] EXCEPT !.status = status, !.charged = n] \in PaymentRow
  BY <1>1 DEF PaymentRow, PaymentStatuses
<1> QED BY <1>1, <1>2 DEF RowInv

LEMMA ChargeEffect ==
    ASSUME TypeInv, NEW w \in Requests, Charge(w) \/ MarkCash(w)
    PROVE  \E status \in Outcomes, n \in Nat :
                /\ payment' = [payment EXCEPT ![req[w].id].status = status,
                                              ![req[w].id].charged = n]
                /\ status = "PAID" => n > 0
<1> DEFINE b == req[w].id
<1>1. b \in BookingIds /\ payment[b].charged \in Nat
  BY DEF Charge, MarkCash, At, TypeInv, ReqInv, WellFormed, OnBooking, RowInv, PaymentRow
<1>2. CASE MarkCash(w)
  <2>1. "PAID" \in Outcomes /\ payment[b].charged + 1 \in Nat /\ payment[b].charged + 1 > 0
    BY <1>1 DEF Outcomes
  <2>2. payment' = [payment EXCEPT ![b].status = "PAID", ![b].charged = payment[b].charged + 1]
    BY <1>2 DEF MarkCash
  <2> QED BY <2>1, <2>2
<1>3. CASE Charge(w)
  <2>1. PICK outcome \in Outcomes :
            payment' = [payment EXCEPT
                    ![b].status  = outcome,
                    ![b].charged = IF outcome = "PAID" THEN payment[b].charged + 1
                                                       ELSE payment[b].charged]
    BY <1>3 DEF Charge, Recorded
  <2> DEFINE n == IF outcome = "PAID" THEN payment[b].charged + 1 ELSE payment[b].charged
  <2>2. n \in Nat /\ (outcome = "PAID" => n > 0)
    BY <1>1
  <2> QED BY <2>1, <2>2
<1> QED BY <1>2, <1>3

LEMMA RowStep == ASSUME TypeInv, [Next]_vars PROVE RowInv'
<1> USE DEF TypeInv
<1>1. ASSUME NEW w \in Requests, NEW b \in BookingIds, InsertBooking(w, b) PROVE RowInv'
  <2>1. [ status |-> FirstStatus(req[w].source), source |-> req[w].source,
          span   |-> req[w].span,                key    |-> req[w].key ] \in BookingRow
    BY <1>1, SpansAssumption
       DEF InsertBooking, At, ReqInv, WellFormed, Booking, Task, BookingRow, FirstStatus,
           BookingStatuses, ACTIVE_STATUSES
  <2> QED BY <1>1, <2>1 DEF InsertBooking, RowInv
<1>2. ASSUME NEW w \in Requests, DecisionWrite(w) PROVE RowInv'
  BY <1>2 DEF DecisionWrite, At, ReqInv, WellFormed, OnBooking, RowInv, BookingRow
<1>3. ASSUME NEW w \in Requests, CreateCard(w) \/ CreateCash(w) PROVE RowInv'
  <2> DEFINE cardRow == [NoPayment EXCEPT !.method = "CARD", !.status = "PENDING", !.key = req[w].key]
             cashRow == [NoPayment EXCEPT !.method = "CASH", !.status = "PENDING"]
  <2>1. CASE UNCHANGED <<booking, payment, left>>
    BY <2>1 DEF RowInv
  <2>2. CASE CreateCard(w) /\ payment' = [payment EXCEPT ![req[w].id] = cardRow]
    <3>1. cardRow \in PaymentRow
      BY <2>2 DEF CreateCard, At, ReqInv, WellFormed, NoPayment, PaymentRow, Methods, PaymentStatuses
    <3> QED BY <2>2, <3>1 DEF CreateCard, RowInv
  <2>3. CASE CreateCash(w) /\ payment' = [payment EXCEPT ![req[w].id] = cashRow]
    <3>1. cashRow \in PaymentRow
      BY DEF NoPayment, PaymentRow, Methods, PaymentStatuses
    <3> QED BY <2>3, <3>1 DEF CreateCash, RowInv
  <2> QED BY <1>3, <2>1, <2>2, <2>3 DEF CreateCard, CreateCash
<1>4. ASSUME NEW w \in Requests, Charge(w) \/ MarkCash(w) PROVE RowInv'
  <2>1. req[w].id \in BookingIds
    BY <1>4 DEF Charge, MarkCash, At, ReqInv, WellFormed, OnBooking
  <2>2. payment' \in [BookingIds -> PaymentRow]
    BY <1>4, <2>1, ChargeEffect, MoneyRow
  <2> QED BY <1>4, <2>2 DEF Charge, MarkCash, RowInv
<1>5. ASSUME NEW b \in BookingIds, NEW status \in PaymentStatuses, ProviderReports(b, status)
      PROVE  RowInv'
  BY <1>5 DEF ProviderReports, RowInv, PaymentRow, PaymentStatuses
<1>6. ASSUME UNCHANGED <<booking, payment, left>> PROVE RowInv'
  BY <1>6 DEF RowInv
<1> QED BY <1>1, <1>2, <1>3, <1>4, <1>5, <1>6
        DEF Next, BookingStep, DecisionStep, PaymentStep, CreateRead, BlockRead, LockService,
            CountOverlapping, InsertRejected, DecisionRead, MethodRead, ConfirmRead, MarkCashRead,
            Fail, vars

(***************************************************************************)
(* The strengthened type invariant.                                        *)
(***************************************************************************)
THEOREM TypeInvariant == Spec => []TypeInv
<1>1. TypeInv /\ [Next]_vars => TypeInv'
  BY ReqStep, RowStep DEF TypeInv
<1> QED BY <1>1, TypeInit, PTL DEF Spec

(***************************************************************************)
(* Every reachable state is well typed.                                    *)
(***************************************************************************)
THEOREM TypeCorrect == Spec => []TypeOK
<1>1. TypeInv => TypeOK
  BY DEF TypeInv, RowInv, ReqInv, TypeOK
<1> QED BY <1>1, TypeInvariant, PTL

---------------------------------------------------------------------------
(***************************************************************************)
(* Payments.  What a request read of its booking or payment and relies on  *)
(* is never undone: a booking does not become PENDING again, and a method  *)
(* that was chosen stays.                                                  *)
(***************************************************************************)
Agreed(b) == booking[b].source = "APP" /\ booking[b].status # "PENDING"

MoneyInv ==
    /\ PaymentAfterConfirmation
    /\ \A w \in Requests :
        /\ req[w].pc \in Choosing => Agreed(req[w].id)
        /\ At(w, "charge") => payment[req[w].id].method = "CARD"
        /\ At(w, "markCash") => payment[req[w].id].method = "CASH"

\* What a step may do to a payment: choose its method, or leave it.
MethodStep ==
    \A b \in BookingIds :
        payment[b] # NoPayment =>
            /\ payment'[b].method = payment[b].method
            /\ payment'[b].key = payment[b].key

LEMMA CreateEffect ==
    ASSUME TypeInv, NEW w \in Requests, CreateCard(w) \/ CreateCash(w)
    PROVE  \A b \in BookingIds :
                \/ payment'[b] = payment[b]
                \/ /\ b = req[w].id
                   /\ payment[b] = NoPayment
                   /\ payment'[b].status = "PENDING"
<1>1. req[w].id \in BookingIds
  BY DEF CreateCard, CreateCash, At, TypeInv, ReqInv, WellFormed, OnBooking, Choosing
<1>2. CASE CreateCard(w)
  BY <1>1, <1>2 DEF CreateCard, NoRowYet, TypeInv, RowInv, NoPayment
<1>3. CASE CreateCash(w)
  BY <1>1, <1>3 DEF CreateCash, NoRowYet, TypeInv, RowInv, NoPayment
<1> QED BY <1>2, <1>3

\* Charges, cash and reports change neither the method nor the key.
LEMMA CollectEffect ==
    ASSUME TypeInv,
           \/ \E w \in Requests : Charge(w) \/ MarkCash(w)
           \/ \E b \in BookingIds, status \in PaymentStatuses : ProviderReports(b, status)
    PROVE  \A b \in BookingIds :
                /\ payment'[b].method = payment[b].method
                /\ payment'[b].key = payment[b].key
<1>1. ASSUME NEW w \in Requests, Charge(w) \/ MarkCash(w), NEW b \in BookingIds
      PROVE  payment'[b].method = payment[b].method /\ payment'[b].key = payment[b].key
  <2>1. PICK status \in Outcomes, n \in Nat :
            payment' = [payment EXCEPT ![req[w].id].status = status, ![req[w].id].charged = n]
    BY <1>1, ChargeEffect
  <2> QED BY <2>1 DEF TypeInv, RowInv, PaymentRow
<1>2. ASSUME NEW c \in BookingIds, NEW status \in PaymentStatuses, ProviderReports(c, status),
             NEW b \in BookingIds
      PROVE  payment'[b].method = payment[b].method /\ payment'[b].key = payment[b].key
  BY <1>2 DEF ProviderReports, TypeInv, RowInv, PaymentRow
<1> QED BY <1>1, <1>2

LEMMA PaymentSteps ==
    ASSUME [Next]_vars
    PROVE  \/ \E w \in Requests : CreateCard(w) \/ CreateCash(w)
           \/ \E w \in Requests : Charge(w) \/ MarkCash(w)
           \/ \E b \in BookingIds, status \in PaymentStatuses : ProviderReports(b, status)
           \/ UNCHANGED payment
BY ZenonT(40) DEF Next, BookingStep, DecisionStep, PaymentStep, CreateRead, BlockRead, LockService,
       CountOverlapping, InsertBooking, InsertRejected, DecisionRead, DecisionWrite, MethodRead,
       ConfirmRead, MarkCashRead, Fail, vars

LEMMA MethodKept == ASSUME TypeInv, [Next]_vars PROVE MethodStep
<1>1. CASE \E w \in Requests : CreateCard(w) \/ CreateCash(w)
  BY <1>1, CreateEffect DEF MethodStep
<1>2. CASE \/ \E w \in Requests : Charge(w) \/ MarkCash(w)
           \/ \E b \in BookingIds, status \in PaymentStatuses : ProviderReports(b, status)
  BY <1>2, CollectEffect DEF MethodStep
<1>3. CASE UNCHANGED payment
  BY <1>3 DEF MethodStep
<1> QED BY <1>1, <1>2, <1>3, PaymentSteps

(***************************************************************************)
(* Of card and cash, what is chosen first stays chosen.                    *)
(***************************************************************************)
THEOREM MethodsStay == Spec => MethodChosenOnce
<1>1. TypeInv /\ [Next]_vars => [MethodStep]_vars
  BY MethodKept
<1> QED BY <1>1, TypeInvariant, PTL DEF Spec, MethodChosenOnce, MethodStep

\* What a step may do to a booking: insert it, or decide on it.
LEMMA BookingSteps ==
    ASSUME [Next]_vars
    PROVE  \/ \E w \in Requests, b \in BookingIds : InsertBooking(w, b)
           \/ \E w \in Requests : DecisionWrite(w)
           \/ UNCHANGED <<booking, left>>
BY ZenonT(40) DEF Next, BookingStep, DecisionStep, PaymentStep, CreateRead, BlockRead, LockService,
       CountOverlapping, InsertRejected, DecisionRead, CreateCard, CreateCash, Charge, MarkCash,
       ProviderReports, MethodRead, ConfirmRead, MarkCashRead, Fail, vars

LEMMA DecisionEffect ==
    ASSUME TypeInv, NEW w \in Requests, DecisionWrite(w)
    PROVE  /\ req[w].id \in BookingIds
           /\ req[w].target \in BookingStatuses \ {"PENDING"}
           /\ \A b \in BookingIds :
                /\ booking'[b].source = booking[b].source
                /\ booking'[b].span = booking[b].span
                /\ booking'[b].status = IF b = req[w].id THEN req[w].target ELSE booking[b].status
           /\ left' = IF req[w].target \in ACTIVE_STATUSES THEN left ELSE left \cup {req[w].id}
<1>1. req[w].id \in BookingIds /\ req[w].target \in BookingStatuses \ {"PENDING"}
  BY DEF DecisionWrite, At, TypeInv, ReqInv, WellFormed, OnBooking
<1> QED BY <1>1 DEF DecisionWrite, TypeInv, RowInv, BookingRow

LEMMA AgreementKept ==
    ASSUME TypeInv, [Next]_vars, NEW b \in BookingIds, Agreed(b)
    PROVE  Agreed(b)'
<1>1. ASSUME NEW w \in Requests, NEW c \in BookingIds, InsertBooking(w, c) PROVE Agreed(b)'
  <2>1. b # c
    BY <1>1 DEF InsertBooking, Agreed, NoBooking, None
  <2> QED BY <1>1, <2>1 DEF InsertBooking, Agreed, TypeInv, RowInv
<1>2. ASSUME NEW w \in Requests, DecisionWrite(w) PROVE Agreed(b)'
  BY <1>2, DecisionEffect DEF Agreed
<1>3. CASE UNCHANGED booking
  BY <1>3 DEF Agreed
<1> QED BY <1>1, <1>2, <1>3, BookingSteps

\* Where a request that pays comes from.
LEMMA PayingSteps ==
    ASSUME TypeInv, [Next]_vars, NEW v \in Requests, req'[v].pc \in Choosing \cup {"charge", "markCash"}
    PROVE  \/ req'[v] = req[v]
           \/ /\ req'[v].pc \in Choosing
              /\ req'[v].id \in BookingIds
              /\ Payable(req'[v].id) /\ UNCHANGED <<booking, payment>>
           \/ /\ req'[v].pc = "charge"
              /\ payment[req'[v].id].method = "CARD" /\ UNCHANGED <<booking, payment>>
           \/ /\ req'[v].pc = "markCash"
              /\ payment[req'[v].id].method = "CASH" /\ UNCHANGED <<booking, payment>>
<1> USE DEF TypeInv
<1>1. ASSUME NEW w \in Requests, NEW t, req' = [req EXCEPT ![w] = t]
      PROVE  req'[v] = IF v = w THEN t ELSE req[v]
  BY <1>1 DEF ReqInv
<1>2. ASSUME NEW w \in Requests, Finish(w) PROVE req'[v] = req[v]
  BY <1>1, <1>2, IdleWellFormed DEF Finish, Choosing
<1>3. ASSUME NEW w \in Requests, NEW step \in Locked, GoTo(w, step) PROVE req'[v] = req[v]
  BY <1>3 DEF GoTo, ReqInv, Task, Locked, Choosing
<1>4. ASSUME NEW w \in Requests, NEW k, NEW span, CreateRead(w, k, span) \/ BlockRead(w, span)
      PROVE  req'[v] = req[v]
  <2>1. ASSUME NEW t, t.pc = "lock", req' = [req EXCEPT ![w] = t] PROVE req'[v] = req[v]
    BY <1>1, <2>1 DEF Choosing
  <2> QED BY <1>4, <2>1 DEF CreateRead, BlockRead, Start, Idle
<1>5. ASSUME NEW w \in Requests, NEW b \in BookingIds, NEW status, DecisionRead(w, b, status)
      PROVE  req'[v] = req[v]
  BY <1>1, <1>5 DEF DecisionRead, Start, Idle, Choosing
<1>6. ASSUME NEW w \in Requests, NEW b \in BookingIds, NEW k, NEW step \in Choosing,
             MethodRead(w, b, step, k)
      PROVE  \/ req'[v] = req[v]
             \/ /\ req'[v].pc \in Choosing
                /\ req'[v].id \in BookingIds
                /\ Payable(req'[v].id) /\ UNCHANGED <<booking, payment>>
  BY <1>1, <1>6 DEF MethodRead, Start, Idle, Choosing
<1>7. ASSUME NEW w \in Requests, NEW b \in BookingIds, ConfirmRead(w, b)
      PROVE  \/ req'[v] = req[v]
             \/ /\ req'[v].pc = "charge"
                /\ payment[req'[v].id].method = "CARD" /\ UNCHANGED <<booking, payment>>
  BY <1>1, <1>7 DEF ConfirmRead, Start, Idle
<1>8. ASSUME NEW w \in Requests, NEW b \in BookingIds, MarkCashRead(w, b)
      PROVE  \/ req'[v] = req[v]
             \/ /\ req'[v].pc = "markCash"
                /\ payment[req'[v].id].method = "CASH" /\ UNCHANGED <<booking, payment>>
  BY <1>1, <1>8 DEF MarkCashRead, Start, Idle
<1>9. CASE UNCHANGED req
  BY <1>9
<1>10. "createCard" \in Choosing /\ "createCash" \in Choosing /\ "count" \in Locked /\ "insert" \in Locked
  BY DEF Choosing, Locked
<1> QED BY <1>2, <1>3, <1>4, <1>5, <1>6, <1>7, <1>8, <1>9, <1>10
        DEF Next, BookingStep, DecisionStep, PaymentStep, LockService, CountOverlapping,
            InsertBooking, InsertRejected, DecisionWrite, CreateCard, CreateCash, Charge, MarkCash,
            ProviderReports, Fail, vars

LEMMA MoneyStep == ASSUME TypeInv, MoneyInv, [Next]_vars PROVE MoneyInv'
<1>1. PaymentAfterConfirmation'
  <2> SUFFICES ASSUME NEW b \in BookingIds, payment'[b] # NoPayment PROVE Agreed(b)'
    BY DEF PaymentAfterConfirmation, Agreed
  <2>1. CASE payment[b] # NoPayment
    BY <2>1, AgreementKept DEF MoneyInv, PaymentAfterConfirmation, Agreed
  <2>2. CASE payment[b] = NoPayment
    <3>1. ASSUME NEW w \in Requests, CreateCard(w) \/ CreateCash(w) PROVE Agreed(b)'
      <4>1. b = req[w].id
        BY <2>2, <3>1, CreateEffect
      <4>2. req[w].pc \in Choosing
        BY <3>1 DEF CreateCard, CreateCash, At, Choosing
      <4> QED BY <4>1, <4>2, AgreementKept DEF MoneyInv
    <3>2. ASSUME NEW w \in Requests, Charge(w) \/ MarkCash(w) PROVE FALSE
      <4>1. req[w].id \in BookingIds /\ payment[req[w].id].method # None
        BY <3>2 DEF Charge, MarkCash, At, MoneyInv, None, TypeInv, ReqInv, WellFormed, OnBooking
      <4>2. b # req[w].id
        BY <2>2, <4>1 DEF NoPayment
      <4>3. payment'[b] = payment[b]
        BY <3>2, <4>1, <4>2, ChargeEffect DEF TypeInv, RowInv
      <4> QED BY <2>2, <4>3
    <3>3. ASSUME NEW c \in BookingIds, NEW status \in PaymentStatuses, ProviderReports(c, status)
          PROVE  FALSE
      <4>1. b # c
        BY <2>2, <3>3 DEF ProviderReports, NoPayment, None
      <4> QED BY <2>2, <3>3, <4>1 DEF ProviderReports, TypeInv, RowInv
    <3>4. CASE UNCHANGED payment
      BY <2>2, <3>4
    <3> QED BY <3>1, <3>2, <3>3, <3>4, PaymentSteps
  <2> QED BY <2>1, <2>2
<1>2. ASSUME NEW v \in Requests, req'[v].pc \in Choosing PROVE Agreed(req[v].id)'
  <2>1. CASE req'[v] = req[v]
    <3>1. req[v].id \in BookingIds /\ Agreed(req[v].id)
      BY <1>2, <2>1 DEF MoneyInv, TypeInv, ReqInv, WellFormed, OnBooking
    <3> QED BY <2>1, <3>1, AgreementKept DEF Agreed
  <2>2. CASE Payable(req'[v].id) /\ UNCHANGED <<booking, payment>>
    BY <2>2 DEF Payable, Agreed
  <2>3. req'[v].pc \notin {"charge", "markCash"}
    BY <1>2 DEF Choosing
  <2> QED BY <1>2, <2>1, <2>2, <2>3, PayingSteps
<1>3. ASSUME NEW v \in Requests, req'[v].pc \in {"charge", "markCash"}, req'[v] = req[v]
      PROVE  payment'[req[v].id].method = payment[req[v].id].method
  <2>1. req[v].id \in BookingIds /\ payment[req[v].id].method # None
    BY <1>3 DEF MoneyInv, At, None, TypeInv, ReqInv, WellFormed, OnBooking
  <2>2. payment[req[v].id] # NoPayment
    BY <2>1 DEF NoPayment
  <2> QED BY <2>1, <2>2, MethodKept DEF MethodStep
<1>4. ASSUME NEW v \in Requests, req'[v].pc = "charge" PROVE payment'[req'[v].id].method = "CARD"
  BY <1>3, <1>4, PayingSteps DEF MoneyInv, At, Choosing
<1>5. ASSUME NEW v \in Requests, req'[v].pc = "markCash" PROVE payment'[req'[v].id].method = "CASH"
  BY <1>3, <1>5, PayingSteps DEF MoneyInv, At, Choosing
<1> QED BY <1>1, <1>2, <1>4, <1>5 DEF MoneyInv, At

(***************************************************************************)
(* For any number of requests, a payment exists only of a booking that the *)
(* business has agreed to.                                                 *)
(***************************************************************************)
THEOREM PaidAfterConfirmation == Spec => []PaymentAfterConfirmation
<1>1. Init => MoneyInv
  BY IdleWellFormed DEF Init, MoneyInv, PaymentAfterConfirmation, At, Choosing
<1>2. TypeInv /\ MoneyInv /\ [Next]_vars => MoneyInv'
  BY MoneyStep
<1>3. MoneyInv => PaymentAfterConfirmation
  BY DEF MoneyInv
<1> QED BY <1>1, <1>2, <1>3, TypeInvariant, PTL DEF Spec

(***************************************************************************)
(* For any number of requests, a booking reads PAID only when money was    *)
(* recorded or the provider said so.                                       *)
(***************************************************************************)
THEOREM MoneyCollected == Spec => []PaidMeansCollected
<1>1. Init => PaidMeansCollected
  BY DEF Init, PaidMeansCollected, NoPayment, None
<1>2. TypeInv /\ PaidMeansCollected /\ [Next]_vars => PaidMeansCollected'
  <2> SUFFICES ASSUME TypeInv, PaidMeansCollected, [Next]_vars, NEW b \in BookingIds,
                      payment'[b].status = "PAID"
               PROVE  payment'[b].charged > 0 \/ payment'[b].reported
    BY DEF PaidMeansCollected
  <2>1. ASSUME NEW w \in Requests, CreateCard(w) \/ CreateCash(w)
        PROVE  payment'[b].charged > 0 \/ payment'[b].reported
    BY <2>1, CreateEffect DEF PaidMeansCollected
  <2>2. ASSUME NEW w \in Requests, Charge(w) \/ MarkCash(w)
        PROVE  payment'[b].charged > 0 \/ payment'[b].reported
    <3>1. PICK status \in Outcomes, n \in Nat :
            /\ payment' = [payment EXCEPT ![req[w].id].status = status, ![req[w].id].charged = n]
            /\ status = "PAID" => n > 0
      BY <2>2, ChargeEffect
    <3> QED BY <3>1 DEF PaidMeansCollected, TypeInv, RowInv, PaymentRow
  <2>3. ASSUME NEW c \in BookingIds, NEW status \in PaymentStatuses, ProviderReports(c, status)
        PROVE  payment'[b].charged > 0 \/ payment'[b].reported
    BY <2>3 DEF ProviderReports, PaidMeansCollected, TypeInv, RowInv, PaymentRow
  <2>4. CASE UNCHANGED payment
    BY <2>4 DEF PaidMeansCollected
  <2> QED BY <2>1, <2>2, <2>3, <2>4, PaymentSteps
<1> QED BY <1>1, <1>2, TypeInvariant, PTL DEF Spec

---------------------------------------------------------------------------
(***************************************************************************)
(* Seats.  While a request holds the lock, nobody else inserts, and what   *)
(* the others do to bookings that never left only frees seats; so what it  *)
(* counted is still an upper bound when it inserts.                        *)
(***************************************************************************)
Rivals(span) == {b \in FirstComers : booking[b].span \cap span # {}}

RowsInv ==
    /\ \A w \in Requests : At(w, "decide") => booking[req[w].id].status # None
    /\ \A b \in left : booking[b].status # None
    /\ \A b \in BookingIds : booking[b].status \notin ACTIVE_STATUSES \cup {None} => b \in left
    /\ \A b \in BookingIds : booking[b].status # None => booking[b].span # {}

LockInv ==
    /\ \A v, w \in Requests : req[v].pc \in Locked /\ req[w].pc \in Locked => v = w
    /\ \A w \in Requests : At(w, "insert") => Cardinality(Rivals(req[w].span)) < Capacity

SeatInv == RowsInv /\ LockInv

LEMMA Finite ==
    ASSUME NEW S \in SUBSET BookingIds
    PROVE  IsFiniteSet(S) /\ Cardinality(S) \in Nat
BY IdsAssumption, FS_Subset, FS_CardinalityType

LEMMA Smaller ==
    ASSUME NEW S \in SUBSET BookingIds, NEW T \in SUBSET S
    PROVE  Cardinality(T) <= Cardinality(S)
BY Finite, FS_Subset

LEMMA InsertEffect ==
    ASSUME TypeInv, NEW w \in Requests, NEW b \in BookingIds, InsertBooking(w, b)
    PROVE  /\ booking[b].status = None
           /\ booking'[b].status \in ACTIVE_STATUSES
           /\ booking'[b].span = req[w].span
           /\ req[w].span \in Spans
           /\ \A c \in BookingIds \ {b} : booking'[c] = booking[c]
           /\ left' = left
           /\ req'[w].pc = "idle"
           /\ \A v \in Requests \ {w} : req'[v] = req[v]
<1>1. req[w].span \in Spans
  BY DEF InsertBooking, At, TypeInv, ReqInv, WellFormed, Booking
<1> QED BY <1>1, IdleWellFormed
        DEF InsertBooking, Finish, NoBooking, FirstStatus, ACTIVE_STATUSES, TypeInv, RowInv, ReqInv

\* A request decides on a booking it has seen.
LEMMA DecidingSteps ==
    ASSUME TypeInv, [Next]_vars, NEW v \in Requests, req'[v].pc = "decide"
    PROVE  \/ req'[v] = req[v]
           \/ booking[req'[v].id].status # None /\ UNCHANGED <<booking, left>>
<1> USE DEF TypeInv
<1>1. ASSUME NEW w \in Requests, NEW t, req' = [req EXCEPT ![w] = t]
      PROVE  req'[v] = IF v = w THEN t ELSE req[v]
  BY <1>1 DEF ReqInv
<1>2. ASSUME NEW w \in Requests, NEW t, t.pc # "decide", req' = [req EXCEPT ![w] = t]
      PROVE  req'[v] = req[v]
  BY <1>1, <1>2
<1>3. ASSUME NEW w \in Requests, NEW b \in BookingIds, NEW status, DecisionRead(w, b, status)
      PROVE  \/ req'[v] = req[v]
             \/ booking[req'[v].id].status # None /\ UNCHANGED <<booking, left>>
  <2>1. booking[b].status # None
    BY <1>3 DEF DecisionRead, MayBecome, Active, ACTIVE_STATUSES, None
  <2> QED BY <1>1, <1>3, <2>1 DEF DecisionRead, Start, Idle
<1>4. ASSUME NEW w \in Requests, Finish(w) PROVE req'[v] = req[v]
  BY <1>2, <1>4, IdleWellFormed DEF Finish
<1>5. ASSUME NEW w \in Requests, NEW step \in Locked, GoTo(w, step) PROVE req'[v] = req[v]
  BY <1>5 DEF GoTo, ReqInv, Task, Locked
<1>6. ASSUME NEW w \in Requests, NEW k, NEW span, CreateRead(w, k, span) \/ BlockRead(w, span)
      PROVE  req'[v] = req[v]
  BY <1>2, <1>6 DEF CreateRead, BlockRead, Start, Idle
<1>7. ASSUME NEW w \in Requests, NEW b, NEW k,
             \/ MethodRead(w, b, "createCard", k) \/ MethodRead(w, b, "createCash", k)
             \/ ConfirmRead(w, b) \/ MarkCashRead(w, b)
      PROVE  req'[v] = req[v]
  BY <1>2, <1>7 DEF MethodRead, ConfirmRead, MarkCashRead, Start, Idle
<1>8. CASE UNCHANGED req
  BY <1>8
<1>9. "count" \in Locked /\ "insert" \in Locked
  BY DEF Locked
<1> QED BY <1>3, <1>4, <1>5, <1>6, <1>7, <1>8, <1>9
        DEF Next, BookingStep, DecisionStep, PaymentStep, LockService, CountOverlapping,
            InsertBooking, InsertRejected, DecisionWrite, CreateCard, CreateCash, Charge, MarkCash,
            ProviderReports, Fail, vars

LEMMA RowsStep == ASSUME TypeInv, RowsInv, [Next]_vars PROVE RowsInv'
<1>1. ASSUME NEW w \in Requests, NEW b \in BookingIds, InsertBooking(w, b) PROVE RowsInv'
  <2>1. ASSUME NEW v \in Requests, req'[v].pc = "decide" PROVE booking'[req'[v].id].status # None
    <3>1. req'[v] = req[v] /\ req[v].id \in BookingIds
      BY <1>1, <2>1, InsertEffect DEF TypeInv, ReqInv, WellFormed, OnBooking
    <3>2. booking[req[v].id].status # None
      BY <2>1, <3>1 DEF RowsInv, At
    <3> QED BY <1>1, <3>1, <3>2, InsertEffect
  <2>2. \A c \in left' : booking'[c].status # None
    BY <1>1, InsertEffect DEF RowsInv, TypeInv, RowInv
  <2>3. \A c \in BookingIds : booking'[c].status \notin ACTIVE_STATUSES \cup {None} => c \in left'
    BY <1>1, InsertEffect DEF RowsInv
  <2>4. ASSUME NEW c \in BookingIds, booking'[c].status # None PROVE booking'[c].span # {}
    <3>1. CASE c = b
      BY <1>1, <3>1, InsertEffect, SpansAssumption
    <3>2. CASE c # b
      BY <1>1, <2>4, <3>2, InsertEffect DEF RowsInv
    <3> QED BY <3>1, <3>2
  <2> QED BY <2>1, <2>2, <2>3, <2>4 DEF RowsInv, At
<1>2. ASSUME NEW w \in Requests, DecisionWrite(w) PROVE RowsInv'
  <2>1. req[w].target # None /\ booking[req[w].id].status # None
    BY <1>2, DecisionEffect
       DEF BookingStatuses, ACTIVE_STATUSES, None, RowsInv, DecisionWrite, At
  <2>2. ASSUME NEW v \in Requests, req'[v].pc = "decide" PROVE booking'[req'[v].id].status # None
    <3>1. req'[v] = req[v]
      BY <1>2, <2>2, IdleWellFormed DEF DecisionWrite, Finish, TypeInv, ReqInv
    <3>2. req[v].id \in BookingIds /\ booking[req[v].id].status # None
      BY <2>2, <3>1 DEF RowsInv, At, TypeInv, ReqInv, WellFormed, OnBooking
    <3> QED BY <1>2, <2>1, <3>1, <3>2, DecisionEffect
  <2>3. \A c \in left' : booking'[c].status # None
    BY <1>2, <2>1, DecisionEffect DEF RowsInv, TypeInv, RowInv
  <2>4. \A c \in BookingIds : booking'[c].status \notin ACTIVE_STATUSES \cup {None} => c \in left'
    BY <1>2, DecisionEffect DEF RowsInv
  <2>5. \A c \in BookingIds : booking'[c].status # None => booking'[c].span # {}
    BY <1>2, <2>1, DecisionEffect DEF RowsInv
  <2> QED BY <2>2, <2>3, <2>4, <2>5 DEF RowsInv, At
<1>3. CASE UNCHANGED <<booking, left>>
  <2>1. ASSUME NEW v \in Requests, req'[v].pc = "decide" PROVE booking'[req'[v].id].status # None
    BY <1>3, <2>1, DecidingSteps DEF RowsInv, At
  <2> QED BY <1>3, <2>1 DEF RowsInv, At, Active
<1> QED BY <1>1, <1>2, <1>3, BookingSteps

\* A request that comes to hold the lock, or to hold it with a count.
LEMMA LockingSteps ==
    ASSUME TypeInv, [Next]_vars, NEW v \in Requests, req'[v].pc \in Locked
    PROVE  \/ req'[v] = req[v]
           \/ /\ At(v, "lock") /\ ServiceFree(v)
              /\ req'[v].pc = "count"
              /\ \A u \in Requests \ {v} : req'[u] = req[u]
           \/ /\ At(v, "count")
              /\ req'[v].pc = "insert" /\ req'[v].span = req[v].span
              /\ Cardinality(Overlapping(req[v].span)) < Capacity
              /\ \A u \in Requests \ {v} : req'[u] = req[u]
              /\ UNCHANGED <<booking, left>>
<1> USE DEF TypeInv
<1>1. ASSUME NEW w \in Requests, NEW t, t.pc \notin Locked, req' = [req EXCEPT ![w] = t]
      PROVE  req'[v] = req[v]
  BY <1>1 DEF ReqInv
<1>2. ASSUME NEW w \in Requests, LockService(w)
      PROVE  \/ req'[v] = req[v]
             \/ /\ At(v, "lock") /\ ServiceFree(v)
                /\ req'[v].pc = "count"
                /\ \A u \in Requests \ {v} : req'[u] = req[u]
  BY <1>2 DEF LockService, GoTo, ReqInv, Task
<1>3. ASSUME NEW w \in Requests, CountOverlapping(w)
      PROVE  \/ req'[v] = req[v]
             \/ /\ At(v, "count")
                /\ req'[v].pc = "insert" /\ req'[v].span = req[v].span
                /\ Cardinality(Overlapping(req[v].span)) < Capacity
                /\ \A u \in Requests \ {v} : req'[u] = req[u]
                /\ UNCHANGED <<booking, left>>
  <2>1. CASE Finish(w)
    BY <1>1, <2>1, IdleWellFormed DEF Finish, Locked
  <2>2. CASE Cardinality(Overlapping(req[w].span)) < Capacity /\ GoTo(w, "insert")
    BY <1>3, <2>2 DEF CountOverlapping, GoTo, ReqInv, Task
  <2> QED BY <1>3, <2>1, <2>2 DEF CountOverlapping
<1>4. ASSUME NEW w \in Requests, Finish(w) PROVE req'[v] = req[v]
  BY <1>1, <1>4, IdleWellFormed DEF Finish, Locked
<1>5. ASSUME NEW w \in Requests, NEW t, req' = [req EXCEPT ![w] = t],
             t.pc \in {"lock", "decide", "createCard", "createCash", "charge", "markCash"}
      PROVE  req'[v] = req[v]
  BY <1>1, <1>5 DEF Locked
<1>6. ASSUME NEW w \in Requests, NEW k, NEW span, CreateRead(w, k, span) \/ BlockRead(w, span)
      PROVE  req'[v] = req[v]
  BY <1>5, <1>6 DEF CreateRead, BlockRead, Start, Idle
<1>7. ASSUME NEW w \in Requests, NEW b, NEW k, NEW status,
             \/ MethodRead(w, b, "createCard", k) \/ MethodRead(w, b, "createCash", k)
             \/ ConfirmRead(w, b) \/ MarkCashRead(w, b) \/ DecisionRead(w, b, status)
      PROVE  req'[v] = req[v]
  BY <1>5, <1>7 DEF MethodRead, ConfirmRead, MarkCashRead, DecisionRead, Start, Idle
<1>8. CASE UNCHANGED req
  BY <1>8
<1> QED BY <1>2, <1>3, <1>4, <1>6, <1>7, <1>8
        DEF Next, BookingStep, DecisionStep, PaymentStep, InsertBooking, InsertRejected,
            DecisionWrite, CreateCard, CreateCash, Charge, MarkCash, ProviderReports, Fail, vars

\* Only an insertion makes a first-comer.
LEMMA ComersShrink ==
    ASSUME TypeInv, RowsInv, [Next]_vars,
           ~ \E w \in Requests, b \in BookingIds : InsertBooking(w, b)
    PROVE  /\ FirstComers' \subseteq FirstComers
           /\ \A b \in BookingIds : booking'[b].span = booking[b].span
<1>1. CASE UNCHANGED <<booking, left>>
  BY <1>1 DEF FirstComers, Active
<1>2. ASSUME NEW w \in Requests, DecisionWrite(w)
      PROVE  /\ FirstComers' \subseteq FirstComers
             /\ \A b \in BookingIds : booking'[b].span = booking[b].span
  <2>1. booking[req[w].id].status # None
    BY <1>2 DEF RowsInv, DecisionWrite
  <2>2. ASSUME NEW b \in FirstComers' PROVE b \in FirstComers
    <3>1. b \in BookingIds /\ b \notin left' /\ booking'[b].status \in ACTIVE_STATUSES
      BY DEF FirstComers, Active
    <3>2. b \notin left /\ booking[b].status # None
      BY <1>2, <2>1, <3>1, DecisionEffect DEF ACTIVE_STATUSES, None
    <3>3. booking[b].status \in ACTIVE_STATUSES
      BY <3>1, <3>2 DEF RowsInv
    <3> QED BY <3>1, <3>2, <3>3 DEF FirstComers, Active
  <2> QED BY <1>2, <2>2, DecisionEffect
<1> QED BY <1>1, <1>2, BookingSteps

LEMMA RivalsShrink ==
    ASSUME FirstComers' \subseteq FirstComers,
           \A b \in BookingIds : booking'[b].span = booking[b].span,
           NEW span, Cardinality(Rivals(span)) < Capacity
    PROVE  Cardinality({b \in FirstComers' : booking'[b].span \cap span # {}}) < Capacity
<1> DEFINE R == {b \in FirstComers' : booking'[b].span \cap span # {}}
<1>1. R \subseteq Rivals(span) /\ Rivals(span) \subseteq BookingIds
  BY DEF Rivals, FirstComers
<1>2. Cardinality(R) <= Cardinality(Rivals(span))
  BY <1>1, Smaller
<1>3. Cardinality(R) \in Nat /\ Cardinality(Rivals(span)) \in Nat
  BY <1>1, Finite
<1> QED BY <1>2, <1>3, CapacityAssumption

LEMMA LockStep == ASSUME TypeInv, SeatInv, [Next]_vars PROVE LockInv'
<1> USE DEF SeatInv
<1>1. ASSUME NEW u \in Requests, NEW v \in Requests, req'[u].pc \in Locked, req'[v].pc \in Locked
      PROVE  u = v
  <2>1. ASSUME NEW x \in Requests, req'[x].pc \in Locked, req'[x] = req[x]
        PROVE  req[x].pc \in Locked
    BY <2>1
  <2>2. ASSUME NEW x \in Requests, NEW y \in Requests, x # y,
               At(x, "lock"), ServiceFree(x), \A z \in Requests \ {x} : req'[z] = req[z],
               req'[y].pc \in Locked
        PROVE  FALSE
    BY <2>2 DEF ServiceFree, Locked
  <2>3. ASSUME NEW x \in Requests, NEW y \in Requests, x # y,
               At(x, "count"), \A z \in Requests \ {x} : req'[z] = req[z],
               req'[y].pc \in Locked
        PROVE  FALSE
    BY <2>3 DEF LockInv, At, Locked
  <2>4. CASE req'[u] = req[u] /\ req'[v] = req[v]
    BY <1>1, <2>4 DEF LockInv
  <2> QED BY <1>1, <2>2, <2>3, <2>4, LockingSteps
<1>2. ASSUME NEW v \in Requests, req'[v].pc = "insert"
      PROVE  Cardinality({b \in FirstComers' : booking'[b].span \cap req'[v].span # {}}) < Capacity
  <2>1. CASE req'[v] = req[v]
    <3>1. At(v, "insert") /\ Cardinality(Rivals(req[v].span)) < Capacity
      BY <1>2, <2>1 DEF LockInv, At
    <3>2. ~ \E w \in Requests, b \in BookingIds : InsertBooking(w, b)
      <4>1. ASSUME NEW w \in Requests, NEW b \in BookingIds, InsertBooking(w, b) PROVE FALSE
        <5>1. w = v
          BY <3>1, <4>1 DEF InsertBooking, At, LockInv, Locked
        <5> QED BY <1>2, <4>1, <5>1, InsertEffect
      <4> QED BY <4>1
    <3> QED BY <2>1, <3>1, <3>2, ComersShrink, RivalsShrink
  <2>2. CASE /\ req'[v].span = req[v].span
             /\ Cardinality(Overlapping(req[v].span)) < Capacity
             /\ UNCHANGED <<booking, left>>
    <3> DEFINE R == {b \in FirstComers' : booking'[b].span \cap req'[v].span # {}}
    <3>1. R \subseteq Overlapping(req[v].span) /\ Overlapping(req[v].span) \subseteq BookingIds
      BY <2>2 DEF FirstComers, Overlapping, Active
    <3>2. Cardinality(R) <= Cardinality(Overlapping(req[v].span))
      BY <3>1, Smaller
    <3>3. Cardinality(R) \in Nat /\ Cardinality(Overlapping(req[v].span)) \in Nat
      BY <3>1, Finite
    <3> QED BY <2>2, <3>2, <3>3, CapacityAssumption
  <2>3. "insert" \in Locked
    BY DEF Locked
  <2> QED BY <1>2, <2>1, <2>2, <2>3, LockingSteps
<1> QED BY <1>1, <1>2 DEF LockInv, At, Rivals

THEOREM SeatInvariant == Spec => []SeatInv
<1>1. Init => SeatInv
  BY IdleWellFormed
     DEF Init, SeatInv, RowsInv, LockInv, At, Locked, NoBooking
<1>2. TypeInv /\ SeatInv /\ [Next]_vars => SeatInv'
  BY RowsStep, LockStep DEF SeatInv
<1> QED BY <1>1, <1>2, TypeInvariant, PTL DEF Spec

---------------------------------------------------------------------------
(***************************************************************************)
(* Every step of Bookings is a step of ServiceSeats, or none: for any      *)
(* number of requests and any capacity, first-comers are never more than   *)
(* there are seats.                                                        *)
(***************************************************************************)
LEMMA SameCount == ASSUME NEW S PROVE Seats!Cardinality(S) = Cardinality(S)
BY DEF Seats!Cardinality, Cardinality

Seated == [b \in BookingIds |-> IF b \in FirstComers THEN booking[b].span ELSE {}]

LEMMA SeatsTaken ==
    ASSUME TypeInv, SeatInv, NEW w \in Requests, NEW b \in BookingIds, InsertBooking(w, b)
    PROVE  Seats!Next
<1>0. PICK span \in SUBSET Hours : span = req[w].span
  BY InsertEffect, SpansAssumption
<1>1. span # {}
  BY <1>0, InsertEffect, SpansAssumption
<1>2. b \notin FirstComers /\ b \notin left
  BY InsertEffect DEF FirstComers, Active, ACTIVE_STATUSES, None, SeatInv, RowsInv
<1>3. ASSUME NEW h \in span PROVE Seats!TakenIn(h) < Capacity
  <2> DEFINE T == {p \in BookingIds : h \in Seated[p]}
  <2>1. T \subseteq Rivals(span) /\ Rivals(span) \subseteq BookingIds
    BY DEF Seated, Rivals, FirstComers
  <2>2. Cardinality(T) <= Cardinality(Rivals(span))
    BY <2>1, Smaller
  <2>3. Cardinality(T) \in Nat /\ Cardinality(Rivals(span)) \in Nat
    BY <2>1, Finite
  <2>4. Cardinality(Rivals(span)) < Capacity
    BY <1>0 DEF SeatInv, LockInv, InsertBooking
  <2>5. Cardinality(T) < Capacity
    BY <2>2, <2>3, <2>4, CapacityAssumption
  <2> QED BY <2>5, SameCount DEF Seats!TakenIn, Seated
<1>4. Seated' = [Seated EXCEPT ![b] = span]
  <2>1. \A c \in BookingIds \ {b} : (c \in FirstComers' <=> c \in FirstComers)
                                    /\ booking'[c].span = booking[c].span
    BY InsertEffect DEF FirstComers, Active
  <2>2. b \in FirstComers' /\ booking'[b].span = span
    BY <1>0, <1>2, InsertEffect DEF FirstComers, Active
  <2> QED BY <2>1, <2>2 DEF Seated
<1>5. Seated[b] = {}
  BY <1>2 DEF Seated
<1>6. Seats!TakeSeats(b, span)
  BY <1>1, <1>3, <1>4, <1>5 DEF Seats!TakeSeats, Seated
<1> QED BY <1>6 DEF Seats!Next

LEMMA SeatsGivenUp ==
    ASSUME TypeInv, SeatInv, [Next]_vars, NEW w \in Requests, DecisionWrite(w),
           ~ \E v \in Requests, b \in BookingIds : InsertBooking(v, b)
    PROVE  Seats!Next \/ Seated' = Seated
<1>1. PICK b \in BookingIds : b = req[w].id
  BY DecisionEffect
<1>2. FirstComers' \subseteq FirstComers /\ \A c \in BookingIds : booking'[c].span = booking[c].span
  BY ComersShrink DEF SeatInv
<1>3. \A c \in BookingIds \ {b} : c \in FirstComers' <=> c \in FirstComers
  BY <1>1, DecisionEffect DEF FirstComers, Active
<1>4. CASE b \in FirstComers /\ b \notin FirstComers'
  <2>1. Seated[b] # {}
    BY <1>4 DEF Seated, FirstComers, Active, ACTIVE_STATUSES, None, SeatInv, RowsInv
  <2>2. Seated' = [Seated EXCEPT ![b] = {}]
    BY <1>2, <1>3, <1>4 DEF Seated
  <2>3. Seats!GiveUp(b)
    BY <2>1, <2>2 DEF Seats!GiveUp, Seated
  <2> QED BY <2>3 DEF Seats!Next
<1>5. CASE b \in FirstComers <=> b \in FirstComers'
  BY <1>2, <1>3, <1>5 DEF Seated
<1> QED BY <1>2, <1>4, <1>5

THEOREM SeatsImplemented == Spec => SeatsRefined
<1>1. Init => Seats!Init
  BY DEF Init, Seats!Init, FirstComers, Active, NoBooking, ACTIVE_STATUSES, None
<1>2. TypeInv /\ SeatInv /\ [Next]_vars => Seats!Next \/ Seated' = Seated
  <2> SUFFICES ASSUME TypeInv, SeatInv, [Next]_vars PROVE Seats!Next \/ Seated' = Seated
    OBVIOUS
  <2>1. ASSUME NEW w \in Requests, NEW b \in BookingIds, InsertBooking(w, b) PROVE Seats!Next
    BY <2>1, SeatsTaken
  <2>2. ASSUME NEW w \in Requests, DecisionWrite(w),
               ~ \E v \in Requests, b \in BookingIds : InsertBooking(v, b)
        PROVE  Seats!Next \/ Seated' = Seated
    BY <2>2, SeatsGivenUp
  <2>3. CASE UNCHANGED <<booking, left>>
    BY <2>3 DEF Seated, FirstComers, Active
  <2> QED BY <2>1, <2>2, <2>3, BookingSteps
<1>3. TypeInv /\ SeatInv /\ [Next]_vars => [Seats!Next]_Seated
  BY <1>2
<1> QED BY <1>1, <1>3, TypeInvariant, SeatInvariant, PTL
        DEF Spec, SeatsRefined, Seats!Spec, Seated
---------------------------------------------------------------------------
(***************************************************************************)
(* The capacity.  First-comers never outnumber the seats of an hour; and   *)
(* if requests do not overlap, a decision is still allowed when it is      *)
(* written, so a booking that left stays away and every active one is a    *)
(* first-comer.                                                            *)
(***************************************************************************)
In(h) == {b \in FirstComers : h \in booking[b].span}

GrantedInv == \A h \in Hours : Cardinality(In(h)) <= Capacity

LEMMA GrantInsert ==
    ASSUME TypeInv, SeatInv, GrantedInv, NEW w \in Requests, NEW b \in BookingIds,
           InsertBooking(w, b), NEW h \in Hours
    PROVE  Cardinality(In(h)') <= Capacity
<1> DEFINE span == req[w].span
<1>1. In(h) \subseteq BookingIds /\ Rivals(span) \subseteq BookingIds
  BY DEF In, Rivals, FirstComers
<1>2. /\ IsFiniteSet(In(h)) /\ Cardinality(In(h)) \in Nat
      /\ Cardinality(Rivals(span)) \in Nat
  BY <1>1, Finite
<1>3. \A c \in BookingIds \ {b} : c \in In(h)' <=> c \in In(h)
  BY InsertEffect DEF In, FirstComers, Active
<1>4. b \notin In(h)
  BY InsertEffect DEF In, FirstComers, Active, ACTIVE_STATUSES, None
<1>5. b \in In(h)' => h \in span
  BY InsertEffect DEF In
<1>6. CASE b \in In(h)'
  <2>1. In(h)' = In(h) \cup {b}
    BY <1>3, <1>4, <1>6 DEF In, FirstComers
  <2>2. Cardinality(In(h)') = Cardinality(In(h)) + 1
    BY <1>2, <1>4, <2>1, FS_AddElement
  <2>3. In(h) \subseteq Rivals(span)
    BY <1>5, <1>6 DEF In, Rivals
  <2>4. Cardinality(In(h)) <= Cardinality(Rivals(span))
    BY <1>1, <2>3, Smaller
  <2>5. Cardinality(Rivals(span)) < Capacity
    BY DEF SeatInv, LockInv, InsertBooking
  <2> QED BY <1>2, <2>2, <2>4, <2>5, CapacityAssumption
<1>7. CASE b \notin In(h)'
  <2>1. In(h)' = In(h)
    BY <1>3, <1>4, <1>7 DEF In, FirstComers
  <2> QED BY <2>1 DEF GrantedInv
<1> QED BY <1>6, <1>7

LEMMA GrantStep == ASSUME TypeInv, SeatInv, GrantedInv, [Next]_vars PROVE GrantedInv'
<1>1. ASSUME NEW w \in Requests, NEW b \in BookingIds, InsertBooking(w, b) PROVE GrantedInv'
  BY <1>1, GrantInsert DEF GrantedInv
<1>2. CASE ~ \E w \in Requests, b \in BookingIds : InsertBooking(w, b)
  <2>1. ASSUME NEW h \in Hours PROVE Cardinality(In(h)') <= Capacity
    <3>1. In(h)' \subseteq In(h) /\ In(h) \subseteq BookingIds
      BY <1>2, ComersShrink DEF In, SeatInv, FirstComers
    <3>2. Cardinality(In(h)') <= Cardinality(In(h))
      BY <3>1, Smaller
    <3>3. Cardinality(In(h)') \in Nat /\ Cardinality(In(h)) \in Nat
      BY <3>1, Finite
    <3>4. Cardinality(In(h)) <= Capacity
      BY DEF GrantedInv
    <3> QED BY <3>2, <3>3, <3>4, CapacityAssumption
  <2> QED BY <2>1 DEF GrantedInv
<1> QED BY <1>1, <1>2

(***************************************************************************)
(* The FOR UPDATE of assertCapacityAvailable keeps its promise for any     *)
(* number of requests: those who were granted a seat and kept it are never *)
(* more, in any hour, than the capacity of the service.                    *)
(***************************************************************************)
THEOREM SeatsNotOversold == Spec => []GrantedInv
<1>1. Init => GrantedInv
  <2> SUFFICES ASSUME Init, NEW h \in Hours PROVE Cardinality(In(h)) <= Capacity
    BY DEF GrantedInv
  <2>1. In(h) = {}
    BY DEF Init, In, FirstComers, Active, NoBooking, ACTIVE_STATUSES, None
  <2>2. Cardinality({}) = 0
    BY FS_EmptySet
  <2> QED BY <2>1, <2>2, CapacityAssumption
<1>2. TypeInv /\ SeatInv /\ GrantedInv /\ [Next]_vars => GrantedInv'
  BY GrantStep
<1> QED BY <1>1, <1>2, TypeInvariant, SeatInvariant, PTL DEF Spec

\* Never two decisions about one booking at the same time.
OneDecider ==
    \A v, w \in Requests :
        At(v, "decide") /\ At(w, "decide") /\ req[v].id = req[w].id => v = w

DecidedInv ==
    /\ \A b \in left : ~Active(b)
    /\ \A w \in Requests : At(w, "decide") => MayBecome(req[w].id, req[w].target)

\* A request that decides has just seen that it may.
LEMMA DecisionStarts ==
    ASSUME TypeInv, [Next]_vars, NEW v \in Requests, req'[v].pc = "decide"
    PROVE  \/ req'[v] = req[v]
           \/ MayBecome(req'[v].id, req'[v].target) /\ UNCHANGED <<booking, left>>
<1> USE DEF TypeInv
<1>1. ASSUME NEW w \in Requests, NEW t, req' = [req EXCEPT ![w] = t]
      PROVE  req'[v] = IF v = w THEN t ELSE req[v]
  BY <1>1 DEF ReqInv
<1>2. ASSUME NEW w \in Requests, NEW t, t.pc # "decide", req' = [req EXCEPT ![w] = t]
      PROVE  req'[v] = req[v]
  BY <1>1, <1>2
<1>3. ASSUME NEW w \in Requests, NEW b \in BookingIds, NEW status, DecisionRead(w, b, status)
      PROVE  \/ req'[v] = req[v]
             \/ MayBecome(req'[v].id, req'[v].target) /\ UNCHANGED <<booking, left>>
  BY <1>1, <1>3 DEF DecisionRead, Start, Idle
<1>4. ASSUME NEW w \in Requests, Finish(w) PROVE req'[v] = req[v]
  BY <1>2, <1>4, IdleWellFormed DEF Finish
<1>5. ASSUME NEW w \in Requests, NEW step \in Locked, GoTo(w, step) PROVE req'[v] = req[v]
  BY <1>5 DEF GoTo, ReqInv, Task, Locked
<1>6. ASSUME NEW w \in Requests, NEW k, NEW span, CreateRead(w, k, span) \/ BlockRead(w, span)
      PROVE  req'[v] = req[v]
  BY <1>2, <1>6 DEF CreateRead, BlockRead, Start, Idle
<1>7. ASSUME NEW w \in Requests, NEW b, NEW k,
             \/ MethodRead(w, b, "createCard", k) \/ MethodRead(w, b, "createCash", k)
             \/ ConfirmRead(w, b) \/ MarkCashRead(w, b)
      PROVE  req'[v] = req[v]
  BY <1>2, <1>7 DEF MethodRead, ConfirmRead, MarkCashRead, Start, Idle
<1>8. CASE UNCHANGED req
  BY <1>8
<1>9. "count" \in Locked /\ "insert" \in Locked
  BY DEF Locked
<1> QED BY <1>3, <1>4, <1>5, <1>6, <1>7, <1>8, <1>9
        DEF Next, BookingStep, DecisionStep, PaymentStep, LockService, CountOverlapping,
            InsertBooking, InsertRejected, DecisionWrite, CreateCard, CreateCash, Charge, MarkCash,
            ProviderReports, Fail, vars

LEMMA DecidedStep ==
    ASSUME OneDecider, TypeInv, SeatInv, DecidedInv, [Next]_vars
    PROVE  DecidedInv'
<1>1. ASSUME NEW w \in Requests, NEW b \in BookingIds, InsertBooking(w, b) PROVE DecidedInv'
  <2>1. ASSUME NEW v \in Requests, req'[v].pc = "decide"
        PROVE  MayBecome(req[v].id, req[v].target)'
    <3>1. v # w /\ req'[v] = req[v]
      BY <1>1, <2>1, InsertEffect
    <3>2. MayBecome(req[v].id, req[v].target) /\ req[v].id \in BookingIds
      BY <2>1, <3>1 DEF DecidedInv, At, TypeInv, ReqInv, WellFormed, OnBooking
    <3>3. req[v].id # b
      BY <1>1, <3>2, InsertEffect DEF MayBecome, Active, ACTIVE_STATUSES, None
    <3>4. booking'[req[v].id] = booking[req[v].id]
      BY <1>1, <3>2, <3>3, InsertEffect
    <3> QED BY <3>1, <3>2, <3>4 DEF MayBecome, Active
  <2>2. ASSUME NEW c \in left' PROVE ~Active(c)'
    <3>1. c \in BookingIds /\ c # b
      BY <1>1, <2>2, InsertEffect DEF SeatInv, RowsInv, TypeInv, RowInv
    <3> QED BY <1>1, <2>2, <3>1, InsertEffect DEF DecidedInv, Active
  <2> QED BY <2>1, <2>2 DEF DecidedInv, At
<1>2. ASSUME NEW w \in Requests, DecisionWrite(w) PROVE DecidedInv'
  <2> DEFINE b == req[w].id
             target == req[w].target
  <2>1. ASSUME NEW v \in Requests, req'[v].pc = "decide"
        PROVE  MayBecome(req[v].id, req[v].target)'
    <3>1. v # w /\ req'[v] = req[v]
      BY <1>2, <2>1, IdleWellFormed DEF DecisionWrite, Finish, TypeInv, ReqInv
    <3>2. MayBecome(req[v].id, req[v].target) /\ req[v].id \in BookingIds
      BY <2>1, <3>1 DEF DecidedInv, At, TypeInv, ReqInv, WellFormed, OnBooking
    <3>3. req[v].id # b
      BY <1>2, <2>1, <3>1 DEF OneDecider, DecisionWrite, At
    <3>4. booking'[req[v].id] = booking[req[v].id]
      BY <1>2, <3>2, <3>3 DEF DecisionWrite, TypeInv, RowInv
    <3> QED BY <3>1, <3>2, <3>4 DEF MayBecome, Active
  <2>2. MayBecome(b, target)
    BY <1>2 DEF DecidedInv, DecisionWrite
  <2>3. ASSUME NEW c \in left' PROVE ~Active(c)'
    <3>1. CASE c = b /\ target \in ACTIVE_STATUSES
      <4>1. b \in left
        BY <1>2, <2>3, <3>1, DecisionEffect
      <4>2. Active(b)
        BY <2>2, <3>1 DEF MayBecome, Active, ACTIVE_STATUSES
      <4> QED BY <4>1, <4>2 DEF DecidedInv
    <3>2. CASE c = b /\ target \notin ACTIVE_STATUSES
      BY <1>2, <3>2, DecisionEffect DEF Active
    <3>3. CASE c # b
      <4>1. c \in left /\ c \in BookingIds
        BY <1>2, <2>3, <3>3, DecisionEffect DEF TypeInv, RowInv
      <4> QED BY <1>2, <3>3, <4>1, DecisionEffect DEF DecidedInv, Active
    <3> QED BY <3>1, <3>2, <3>3
  <2> QED BY <2>1, <2>3 DEF DecidedInv, At
<1>3. CASE UNCHANGED <<booking, left>>
  <2>1. ASSUME NEW v \in Requests, req'[v].pc = "decide"
        PROVE  MayBecome(req[v].id, req[v].target)'
    <3>1. MayBecome(req'[v].id, req'[v].target)
      BY <2>1, DecisionStarts DEF DecidedInv, At
    <3> QED BY <1>3, <3>1 DEF MayBecome, Active
  <2> QED BY <1>3, <2>1 DEF DecidedInv, Active, At
<1> QED BY <1>1, <1>2, <1>3, BookingSteps

(***************************************************************************)
(* "Only one can pass the capacity check for a given slot" (create): of    *)
(* any number of requests that race for an hour, no more than the capacity *)
(* are ever active in it, whoever cancels, completes or pays meanwhile.    *)
(* What must not overlap are two decisions about one booking: a stale      *)
(* confirmation brings back a cancelled booking whose place has been given *)
(* to another.                                                             *)
(***************************************************************************)
THEOREM CapacityIsKept == Spec /\ []OneDecider => []CapacityKept
<1>1. Init => DecidedInv
  BY IdleWellFormed DEF Init, DecidedInv, At
<1>2. TypeInv /\ SeatInv /\ OneDecider /\ DecidedInv /\ [Next]_vars => DecidedInv'
  BY DecidedStep
<1>3. DecidedInv /\ GrantedInv => CapacityKept
  <2> SUFFICES ASSUME DecidedInv, GrantedInv, NEW h \in Hours
               PROVE  Cardinality({b \in BookingIds : Active(b) /\ h \in booking[b].span}) <= Capacity
    BY DEF CapacityKept
  <2>1. {b \in BookingIds : Active(b) /\ h \in booking[b].span} = In(h)
    BY DEF DecidedInv, In, FirstComers
  <2> QED BY <2>1 DEF GrantedInv
<1> QED BY <1>1, <1>2, <1>3, TypeInvariant, SeatInvariant, SeatsNotOversold, PTL DEF Spec
=============================================================================
