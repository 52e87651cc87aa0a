------------------------------ MODULE Bookings -----------------------------
(***************************************************************************)
(* BookingsService: appointments with one service of a business.  A        *)
(* customer books hours, or the business blocks them by hand; the business *)
(* decides what becomes of the booking; the customer chooses card or cash  *)
(* and pays.                                                               *)
(*                                                                         *)
(* As in OrderRows, a variable is a table, an action is one round trip to  *)
(* the database, and req[w] is what a request remembers between two.  An   *)
(* interactive transaction that takes a row lock is several actions: the   *)
(* lock is held from the step after "lock" until its commit or its Fail.   *)
(***************************************************************************)
EXTENDS Integers, FiniteSets

CONSTANTS
    Requests,     \* HTTP requests the API can be serving at one time
    BookingIds,   \* ids of Booking rows (its Payment shares the id)
    Hours,        \* the opening hours that can be booked
    Spans,        \* intervals of hours somebody may ask for
    Keys,         \* idempotency keys of createBooking
    PayKeys,      \* idempotency keys of createBookingPayment
    Capacity,     \* Service.capacity
    MaxCharges    \* bound: CHARGE Transactions of one payment

ASSUME SpansAssumption    == Spans \subseteq (SUBSET Hours) \ {{}}
ASSUME CapacityAssumption == Capacity \in Nat \ {0} /\ MaxCharges \in Nat
ASSUME IdsAssumption      == IsFiniteSet(BookingIds)

\* The absence of a row or of a value (SQL NULL).
None == "NONE"

VARIABLES
    booking,   \* Booking rows
    payment,   \* Payment rows of bookings, with how often money was recorded
    left,      \* history: bookings that have once stopped being active
    req        \* the request each worker is serving

vars == <<booking, payment, left, req>>

ACTIVE_STATUSES == {"PENDING", "CONFIRMED"}
BookingStatuses == ACTIVE_STATUSES \cup {"CANCELLED", "COMPLETED", "NO_SHOW"}
Sources  == {"APP", "MANUAL"}
Methods  == {"CARD", "CASH"}
Outcomes == {"PAID", "FAILED"}      \* of a charge
\* "PENDING" stands for every status that says neither.
PaymentStatuses == {"PENDING"} \cup Outcomes

Steps == { "idle",
           "lock", "count", "insert",                  \* create, createManualBlock
           "decide",                                   \* confirm, cancel, complete, no-show
           "createCard", "createCash", "charge", "markCash" }

Task == [ pc     : Steps,
          id     : BookingIds \cup {None},
          source : Sources \cup {None},
          span   : SUBSET Hours,
          key    : Keys \cup PayKeys \cup {None},
          target : BookingStatuses \cup {None} ]      \* Booking.status to write

Idle == [ pc |-> "idle", id |-> None, source |-> None, span |-> {},
          key |-> None, target |-> None ]

NoBooking == [status |-> None, source |-> None, span |-> {}, key |-> None]
NoPayment == [method |-> None, status |-> None, key |-> None, charged |-> 0, reported |-> FALSE]

BookingRow == [ status : BookingStatuses \cup {None},
                source : Sources \cup {None},
                span   : SUBSET Hours,
                key    : Keys \cup {None} ]
PaymentRow == [ method   : Methods \cup {None},       \* CASH_PAYMENT_PROVIDER or not
                status   : PaymentStatuses \cup {None},
                key      : PayKeys \cup {None},
                charged  : Nat,                       \* PAID CHARGE Transactions
                reported : BOOLEAN ]                  \* the provider once said PAID

TypeOK ==
    /\ booking \in [BookingIds -> BookingRow]
    /\ payment \in [BookingIds -> PaymentRow]
    /\ left \subseteq BookingIds
    /\ req \in [Requests -> Task]

Init ==
    /\ booking = [b \in BookingIds |-> NoBooking]
    /\ payment = [b \in BookingIds |-> NoPayment]
    /\ left = {}
    /\ req = [w \in Requests |-> Idle]

At(w, step) == req[w].pc = step

Start(w, task) == req[w] = Idle /\ req' = [req EXCEPT ![w] = task]
GoTo(w, step) == req' = [req EXCEPT ![w].pc = step]
Finish(w) == req' = [req EXCEPT ![w] = Idle]

\* A request dies between two round trips; an open transaction is rolled back.
Fail(w) == ~At(w, "idle") /\ Finish(w) /\ UNCHANGED <<booking, payment, left>>

---------------------------------------------------------------------------
(* create and createManualBlock *)

Active(b) == booking[b].status \in ACTIVE_STATUSES

\* The idempotency check; a key that was used returns its booking.
CreateRead(w, k, span) ==
    /\ \A b \in BookingIds : booking[b].key # k
    /\ Start(w, [Idle EXCEPT !.pc = "lock", !.source = "APP", !.span = span, !.key = k])
    /\ UNCHANGED <<booking, payment, left>>

BlockRead(w, span) ==
    /\ Start(w, [Idle EXCEPT !.pc = "lock", !.source = "MANUAL", !.span = span])
    /\ UNCHANGED <<booking, payment, left>>

\* Whether no other transaction holds the Service row (mutant: no FOR UPDATE).
Unlocked(w) == TRUE
ServiceFree(w) == \A v \in Requests : v = w \/ req[v].pc \notin {"count", "insert"}

LockService(w) ==
    /\ At(w, "lock")
    /\ ServiceFree(w)
    /\ GoTo(w, "count")
    /\ UNCHANGED <<booking, payment, left>>

\* The active bookings that overlap a span.
Overlapping(span) == {b \in BookingIds : Active(b) /\ booking[b].span \cap span # {}}

CountOverlapping(w) ==
    /\ At(w, "count")
    /\ IF Cardinality(Overlapping(req[w].span)) < Capacity
       THEN GoTo(w, "insert")
       ELSE Finish(w)
    /\ UNCHANGED <<booking, payment, left>>

\* Booking.idempotencyKey is unique: a key taken since it was looked up aborts.
KeyTaken(k) == k # None /\ \E b \in BookingIds : booking[b].key = k

\* A block is confirmed by whoever enters it (mutant: the columns swapped).
SourceAsStatus(source) == source
FirstStatus(source) == IF source = "APP" THEN "PENDING" ELSE "CONFIRMED"

InsertBooking(w, b) ==
    /\ At(w, "insert")
    /\ booking[b] = NoBooking
    /\ ~KeyTaken(req[w].key)
    /\ booking' = [booking EXCEPT ![b] =
            [ status |-> FirstStatus(req[w].source), source |-> req[w].source,
              span   |-> req[w].span,                key    |-> req[w].key ]]
    /\ Finish(w)
    /\ UNCHANGED <<payment, left>>

InsertRejected(w) ==
    /\ At(w, "insert")
    /\ KeyTaken(req[w].key)
    /\ Finish(w)
    /\ UNCHANGED <<booking, payment, left>>

---------------------------------------------------------------------------
(* confirm, cancelForCustomer, cancelForBusiness, complete, markNoShow *)

MayBecome(b, status) ==
    \/ status = "CANCELLED" /\ Active(b)
    \/ status = "CONFIRMED" /\ booking[b].source = "APP" /\ booking[b].status = "PENDING"
    \/ /\ status \in {"COMPLETED", "NO_SHOW"}
       /\ booking[b].source = "APP"
       /\ booking[b].status = "CONFIRMED"

DecisionRead(w, b, status) ==
    /\ MayBecome(b, status)
    /\ Start(w, [Idle EXCEPT !.pc = "decide", !.id = b, !.target = status])
    /\ UNCHANGED <<booking, payment, left>>

\* booking.update, whatever the booking has become since it was read.
DecisionWrite(w) ==
    /\ At(w, "decide")
    /\ LET b == req[w].id IN
        /\ booking' = [booking EXCEPT ![b].status = req[w].target]
        /\ left' = IF req[w].target \in ACTIVE_STATUSES THEN left ELSE left \cup {b}
    /\ Finish(w)
    /\ UNCHANGED payment

---------------------------------------------------------------------------
(* createBookingPayment and chooseCashPayment *)

\* The check both make (mutant: a pending booking can be paid too).
PayableWhenActive(b) == booking[b].source = "APP" /\ Active(b)
Payable(b) == booking[b].source = "APP" /\ booking[b].status = "CONFIRMED"

MethodRead(w, b, step, k) ==
    /\ Payable(b)
    /\ payment[b] = NoPayment
    /\ Start(w, [Idle EXCEPT !.pc = step, !.id = b, !.key = k])
    /\ UNCHANGED <<booking, payment, left>>

\* PaymentService.createPayment returns the payment its key already made.
PayKeyUsed(k) == \E b \in BookingIds : payment[b].key = k

\* Payment.bookingId is unique (mutant: the second choice replaces the first).
MayReplace(b) == payment[b].status # "PAID"
NoRowYet(b) == payment[b] = NoPayment

CreateCard(w) ==
    /\ At(w, "createCard")
    /\ LET b == req[w].id IN
        payment' = IF NoRowYet(b) /\ ~PayKeyUsed(req[w].key)
                   THEN [payment EXCEPT ![b] = [NoPayment EXCEPT
                            !.method = "CARD", !.status = "PENDING", !.key = req[w].key]]
                   ELSE payment
    /\ Finish(w)
    /\ UNCHANGED <<booking, left>>

CreateCash(w) ==
    /\ At(w, "createCash")
    /\ LET b == req[w].id IN
        payment' = IF NoRowYet(b)
                   THEN [payment EXCEPT ![b] = [NoPayment EXCEPT
                            !.method = "CASH", !.status = "PENDING"]]
                   ELSE payment
    /\ Finish(w)
    /\ UNCHANGED <<booking, left>>

---------------------------------------------------------------------------
(* confirmBookingPayment, markCashPaid and the provider's webhook *)

\* A settled payment is not charged again (mutant: FAILED passes for paid).
RecordedWhateverHappened(outcome) == "PAID"
Recorded(outcome) == outcome

\* The read that decides is confirmPayment's; what the booking is does not matter.
ConfirmRead(w, b) ==
    /\ payment[b].method = "CARD"
    /\ payment[b].status # "PAID"
    /\ Start(w, [Idle EXCEPT !.pc = "charge", !.id = b])
    /\ UNCHANGED <<booking, payment, left>>

Charge(w) ==
    /\ At(w, "charge")
    /\ LET b == req[w].id IN
        \E outcome \in Outcomes :
            /\ outcome = "PAID" => payment[b].charged < MaxCharges
            /\ payment' = [payment EXCEPT
                    ![b].status  = Recorded(outcome),
                    ![b].charged = IF outcome = "PAID" THEN @ + 1 ELSE @]
    /\ Finish(w)
    /\ UNCHANGED <<booking, left>>

\* processWebhook: the status of a payment created with the provider is
\* overwritten with what an event says, whatever status that is and as often
\* as the event is delivered.
ProviderReports(b, status) ==
    /\ payment[b].method = "CARD"
    /\ payment' = [payment EXCEPT ![b].status   = status,
                                  ![b].reported = @ \/ status = "PAID"]
    /\ UNCHANGED <<booking, left, req>>

MarkCashRead(w, b) ==
    /\ payment[b].method = "CASH"
    /\ payment[b].status # "PAID"
    /\ Start(w, [Idle EXCEPT !.pc = "markCash", !.id = b])
    /\ UNCHANGED <<booking, payment, left>>

MarkCash(w) ==
    /\ At(w, "markCash")
    /\ LET b == req[w].id IN
        /\ payment[b].charged < MaxCharges
        /\ payment' = [payment EXCEPT ![b].status = "PAID", ![b].charged = @ + 1]
    /\ Finish(w)
    /\ UNCHANGED <<booking, left>>

---------------------------------------------------------------------------
BookingStep(w) ==
    \/ \E k \in Keys, span \in Spans : CreateRead(w, k, span)
    \/ \E span \in Spans : BlockRead(w, span)
    \/ LockService(w) \/ CountOverlapping(w)
    \/ \E b \in BookingIds : InsertBooking(w, b)
    \/ InsertRejected(w)

DecisionStep(w) ==
    \/ \E b \in BookingIds, status \in BookingStatuses : DecisionRead(w, b, status)
    \/ DecisionWrite(w)

PaymentStep(w) ==
    \/ \E b \in BookingIds, k \in PayKeys : MethodRead(w, b, "createCard", k)
    \/ \E b \in BookingIds : MethodRead(w, b, "createCash", None)
    \/ CreateCard(w) \/ CreateCash(w)
    \/ \E b \in BookingIds : ConfirmRead(w, b) \/ MarkCashRead(w, b)
    \/ Charge(w) \/ MarkCash(w)

Next ==
    \/ \E w \in Requests : BookingStep(w) \/ DecisionStep(w) \/ PaymentStep(w) \/ Fail(w)
    \/ \E b \in BookingIds, status \in PaymentStatuses : ProviderReports(b, status)

Spec == Init /\ [][Next]_vars

---------------------------------------------------------------------------
(* Safety, for any number of concurrent requests *)

(***************************************************************************)
(* Two requests never both get the last place in an hour: the bookings     *)
(* that were never out of the game (cancelled, completed, no-show) sit in  *)
(* at most Capacity seats of every hour, although each request counts      *)
(* spans that overlap, in one query, and inserts in another (the FOR       *)
(* UPDATE of assertCapacityAvailable).                                     *)
(***************************************************************************)
FirstComers == {b \in BookingIds : Active(b) /\ b \notin left}

Seats == INSTANCE ServiceSeats WITH
    Occupants <- BookingIds,
    seated    <- [b \in BookingIds |-> IF b \in FirstComers THEN booking[b].span ELSE {}]

SeatsRefined == Seats!Spec

(***************************************************************************)
(* Nobody is asked for money before the business agreed: a booking with a  *)
(* payment is not pending, and is no block.  Confirmation, cancellation    *)
(* and the choice of a method may all be under way at one time.            *)
(***************************************************************************)
PaymentAfterConfirmation ==
    \A b \in BookingIds :
        payment[b] # NoPayment => booking[b].source = "APP" /\ booking[b].status # "PENDING"

(***************************************************************************)
(* Card and cash exclude each other for good: of two choices that race,    *)
(* the later one changes nothing, and only a card is ever reported on.     *)
(***************************************************************************)
MethodChosenOnce ==
    [][\A b \in BookingIds :
        payment[b] # NoPayment =>
            /\ payment'[b].method = payment[b].method
            /\ payment'[b].key = payment[b].key]_vars

(***************************************************************************)
(* A booking reads paid only when money was recorded, or the provider said *)
(* so: neither a failed charge nor a repeated one leaves PAID behind.      *)
(***************************************************************************)
PaidMeansCollected ==
    \A b \in BookingIds :
        payment[b].status = "PAID" => payment[b].charged > 0 \/ payment[b].reported

(***************************************************************************)
(* The comment of create(): "only one can pass the capacity check for a    *)
(* given slot - no read-then-write race window".                           *)
(***************************************************************************)
CapacityKept ==
    \A h \in Hours :
        Cardinality({b \in BookingIds : Active(b) /\ h \in booking[b].span}) <= Capacity
=============================================================================
