# Formal specification of Bingoplus (BINGO+)

Bingoplus is a pet marketplace: customers buy products and book services from
businesses, riders deliver, administrators oversee. The program is a stateless
NestJS API over PostgreSQL (`src/apps/api`), four React clients
(`apps/customer`, `apps/business`, `apps/rider`, `apps/admin`) and a few shared
packages. This directory holds TLA+ modules of the API's core, the TLC
configurations that check them, and TLAPS proofs of what matters most.

Paths below are relative to `src/apps/api/src/modules/` unless they say otherwise.

## 1. How the program works, and how it is modelled

The API keeps nothing in memory between requests. A service method is a
sequence of round trips to the database: a Prisma query, or a `$transaction`.
No isolation level is ever requested, so PostgreSQL runs at READ COMMITTED:
what a method read may be stale when it writes, and a transaction protects
nothing but the rows it updates. Some writes are guarded (`updateMany` with the
expected status in its `where`, then a test of `count`), many are not. Cron
jobs work next to the requests. This is where the errors of such a
program live, and it is what the models keep:

- a **variable** is a table, or the few columns of it that matter;
- `req[w]` is what worker `w` remembers of the request it serves between two
  round trips (its `pc`, and the copies it read: `seen`, `lines`, `paid`, ...);
- an **action is one round trip**. Two requests interleave exactly where the
  code awaits. A transaction takes effect at its commit, and is split in two
  where another request can see or change something in the middle (a row lock
  taken and held, a sum read before it is used). A batch (`$transaction([...])`)
  is one action; an interactive transaction under `FOR UPDATE` is one action for
  each query that somebody else's commit can come before;
- `Fail(w)` ends a request between any two round trips: the process restarts, a
  query throws, PostgreSQL aborts a deadlock, a guard of the code throws for a
  reason that is not modelled. What was committed stays; nothing resumes it.

## 2. Inventory

Lines of non-test code in parentheses.

### Marketplace purchase (modelled first)

| Component | State | Operations | Hard behaviour | What makes it correct |
|---|---|---|---|---|
| Cart (230) | `Cart`, `CartItem` | add, update, remove, clear; deleted by checkout | a cart loaded and emptied in the middle of another checkout | a checkout reserves what it loaded |
| Checkout (474) | `Order`, `OrderItem`, `Payment` | `createPayment`, `confirm`, `syncOrderFromPaymentStatus` | idempotency key read outside the transaction; the sync decides on a stale order | one payment per key; every order has its payment; all or nothing |
| Stock (`pricing/stock.service.ts`) | `Product.stock` | `reserveStock`, `releaseStock` | last unit; release after a stale check | no unit lost, none negative, none invented |
| Payments (659) | `Payment`, `Transaction`, `WebhookEvent` | `createPayment`, `confirmPayment`, `processWebhook`, `refundPayment` | double confirmation, redelivered and late events, crash between acknowledgement and sync | an order is paid only if money was taken; charged once |
| Cancellation and refunds (`orders/`) | `Order`, `Refund` | cancel by customer or business, `refundOrder`, `completeManual` | sums read without a lock; manual and provider refunds of one payment | REFUNDED means everything was returned; no more than was paid |
| Orders (543) | `Order.status` | `updateStatusForBusiness`, `setReadyForPickup`, the guarded transition | two members of staff, a customer cancelling | statuses move only along the map |
| Ready for pickup, and the end of a delivery (`business-delivery.controller.ts`, `delivery-eligibility.service.ts`, `delivery-sync.service.ts`, orphan sweeper) | `Order`, `Delivery`, the business's status and capabilities | ready, then create the delivery in a second step; repair every 20 s; complete the order | the second step fails, or the business may no longer deliver; sweeper and request race; the sync writes an order it read before | a ready order gets its delivery; deliveries only for ready orders |

### Deliveries (delivery 2495, riders 577; modelled second)

| Component | State | Operations | Hard behaviour | What makes it correct |
|---|---|---|---|---|
| Dispatch (`dispatch.service.ts`, orchestrator, candidate providers) | `Delivery`, `DeliveryAssignment`, `Rider` | `createForOrder`, `assign`, `adminAssign` | candidates read outside the assigning transaction | offers only to free riders, never twice |
| Reassignment and sweepers | same | `reassign` on rejection and timeout, `OfferTimeoutSweeper` (10 s), `SearchingRiderRetrySweeper` (15 s) | timeout racing acceptance; riders who never answer; attempts at their limit | an offer is answered once; it ends; the search goes on |
| Courier's work (`delivery.service.ts`, `delivery-proof.service.ts`) | `Delivery`, `DeliveryProof`, `RiderEarning` | accept, reject, four stages, `complete` | unguarded `transition()`; double completion | stages in order; proof before delivery; earned once |
| Cancellation (`delivery-cancellation.service.ts`) | `Delivery`, `Refund` | customer, administrator | cancel racing assignment | no cancellation once the goods are on the road |
| Rider accounts | `Rider` | `suspend`, `reactivate`, availability | account and availability written by different services | suspended riders are not available |
| Location, chat, tracking, fares | `RiderLocation`, messages | append, read | – | only location matters to dispatch |

### Bookings (1104; modelled third)

| Component | State | Operations | Hard behaviour | What makes it correct |
|---|---|---|---|---|
| Seats of a service | `Booking`, `Service.capacity` | `create`, `createManualBlock` | spans of different length; count and insert are two queries under `FOR UPDATE` of the `Service` row | a seat is granted once |
| The booking's life | `Booking.status` | confirm, cancel (customer, business), complete, no-show | read, tested, then updated by id | what left does not come back; it does (section 6) |
| Its payment | `Payment`, `Transaction` | choose cash or card, confirm the card, `markCashPaid`, webhook | two choices at once; status tested on a row read before | one method; only after confirmation; PAID means collected |

### Settling accounts (payouts 646, coupons 602, commission coupons 241; modelled fourth)

| Component | State | Operations | Hard behaviour | What makes it correct |
|---|---|---|---|---|
| Payouts | `Payout`, `RiderEarning`, `Order`, `Booking` | six ways of paying pending rows out | rows read and summed, then stamped by a counted update | nothing paid twice; a payout is worth what it stamped |
| Customer coupons | `BusinessCoupon`, `CouponRedemption` | `redeem`, edits | two scans at the last redemption, edits in between | both limits hold at each redemption |
| Commission coupons | `CommissionCoupon`, `Commission`, `RiderCommissionOverride` | `redeemForBusiness`, `redeemForRider` | no lock; the unique index of each payee | one rate for one redemption |

### The account of a business (memberships 914, contracts 1131, businesses 923, capabilities 118; modelled fifth)

| Component | State | Operations | Hard behaviour | What makes it correct |
|---|---|---|---|---|
| Approval | `Business.status` | apply, approve, activate, reject, suspend | several queries, each may be the last | – |
| Contracts | `BusinessContract` | draft, request a change, sign | a pending contract used again; signatures that overlap | a signed business stays governed |
| Capabilities | `BusinessCapability` | switched by the administrator, by the owner, by a signature; cascades | what is in force is read before the capability is set | nothing material without a contract that covers it |
| Memberships | `BusinessMembership`, `Subscription`, `MembershipPayment`, `Payment` | trial, receipts and their review, card payments, coupons that extend | a bill settled late, twice, in two ways; periods computed before they are written | no period is left behind unpaid |
| Daily sweep | the same | first period, due payments, overdue | writes lists it read before | what is due is billed, what is overdue is flagged |

### Reviews (598; modelled last)

| Component | State | Operations | Hard behaviour | What makes it correct |
|---|---|---|---|---|
| Reviews and their figures | `Review.status`; `ratingAvg`, `reviewCount` of what is rated | submit (order, booking, place), hide, restore, report | several statements per transaction: a row is written, rows are counted, the figures are written; two transactions on one target, two targets in opposite orders | figures match the published reviews, and recover after two requests met |

### The rest

| Component | Why it is not modelled |
|---|---|
| Authentication (578), users (293) | tokens are signed, and rest on libraries; the codes keep little state |
| Support (529) | cases and chats are append-only with a status |
| Ranking (208), analytics (345) | aggregates, recomputed from rows; numbers, no protocol |
| Catalog (830), services (406), pricing (421), promotions (309) | rows of one owner, decimal arithmetic |
| Location, chat, tracking, fares of deliveries; contracts of riders | appended rows; a rider signs once |
| Notifications, email, uploads, maps, audit log, directory, favorites, pets, addresses, pet-friendly places, health | input and output, or CRUD of one row |
| Front ends and packages | clients: arbitrary requests, to the API |

### Interactions

`CheckoutService.createPayment` loads the cart, and in one transaction calls
`StockService.reserveStock`, inserts the `Order`, calls
`PaymentService.createPayment` and deletes the cart. `confirm` and the webhook
go through `PaymentService` and then, in a later transaction,
`syncOrderFromPaymentStatus`. `CancellationService` calls `releaseStock` and
then `RefundService.refundOrder`, which calls `PaymentService.refundPayment`.
`BusinessDeliveryController.readyForPickup` calls
`OrdersService.setReadyForPickup` and then `DeliveryService.createForOrder`, not
in one transaction. `createForOrder` and the retry sweeper use
`DispatchOrchestrator`, which ranks the candidates of `PostgisCandidateProvider`
and calls `DispatchService.assign`; rejection and `OfferTimeoutSweeper` use
`DeliveryReassignmentService`. `DeliveryService.complete` verifies the proof,
then in one transaction delivers, frees the rider, inserts the earning and
completes the order. `DeliveryCancellationService` opens a PENDING `Refund` that
`RefundService.completeManual` settles. `BookingsService` and
`MembershipsService` use the same `PaymentService`; the webhook tells the order
or the booking, and nobody for a membership. `BusinessesService.approve` and
`setCapabilityAsAdmin` call `MembershipsService.startTrialIfMissing` and
`ContractsService`; `sign` calls `BusinessCapabilitiesService`. The daily sweep
and `submitPayment` both create due payments. Payouts read what orders, bookings
and deliveries leave behind. Everything else meets in the rows.

## 3. Modules

Six independent compositions. Three have an abstract specification of their own.

```
OrderStateMachine                       DeliveryStateMachine
  OrderRows                               DeliveryRows
    Checkout Payments                       Dispatch  Courier
    OrderRefunds Fulfillment                  Deliveries ---- implements DeliveryJob
      Orders ---- implements OrderLifecycle     MCDeliveries  DeliveriesProofs
        MCOrders  OrdersProofs
                    OrdersPaymentProofs
                      OrdersSerialProofs  Bookings ---- implements ServiceSeats
                                            MCBookings  BookingsProofs
SettlementRows
  Payouts  Redemptions                  AccountRows
    Settlement                            Memberships
      MCSettlement  SettlementProofs        Contracts  Billing
                                              Accounts
Reviews                                         MCAccounts  AccountsProofs
  MCReviews  ReviewsProofs
```

| Module | Models | Correspondence |
|---|---|---|
| `OrderStateMachine` | `orders/order-state-machine.ts` | the map, `CanTransition`, the cancellable statuses |
| `OrderRows` | the tables; `stock.service.ts`; failures | one variable per table; `InStock`, `StockReserved`, `StockReleased`; `Fail`; `business` and `CanDispatch`: what cart, checkout and delivery ask of the business |
| `Checkout` | `cart.service.ts`, `checkout.service.ts` | `CheckKey` → `LoadCart` → `ReserveAndCreate`/`RejectCheckout` is `createPayment`; `SyncRead` → `MarkPaid`/`CancelUnpaid` is the sync |
| `Payments` | `payment.service.ts` and the sandbox provider | `ConfirmRead` → `ReadPayment` → `Charge`; `ReceiveEvent`/`RedeliverEvent` → `ApplyEvent` → `AckEvent` |
| `OrderRefunds` | `cancellation.service.ts`, `refund.service.ts`, `refundPayment` | `CancelRead` → `CancelCommit` → `RefundCheck` → `RefundSum` → `RefundWrite` → `RefundCommit`; `ManualRead` → `ManualUpdate` → `ManualCommit` |
| `Fulfillment` | `orders.service.ts`, ready for pickup, orphan sweeper, what deliveries do to orders | `BusinessRead`/`ReadyRead` → `BusinessWrite` → `CheckEligible` → `InsertDelivery`; `SweepOrphan` enters at `CheckEligible`; `DeliverRead` → `DeliverCommit` is the transaction of `complete()` up to and from the read of `DeliverySyncService`; `BusinessStep` is what happens to the business meanwhile |
| `Orders` | the composition | `Next`, fairness, every property of orders |
| `OrderLifecycle` | abstract | place with its units, advance along the map, cancel and give back |
| `DeliveryStateMachine` | `delivery-state-machine.ts` | the map and the cancellable statuses |
| `DeliveryRows` | the tables, the assignment history, the row lock of reassignment | `Logged`, `Freed`, `LockFree`, `Fail` |
| `Dispatch` | create, search, assign, reassign, administrator, cancellation, the two sweepers | one read action and one commit action each; `Reassign` takes the lock and `RematchCommit` commits |
| `Courier` | accept, stages, proof, completion, availability, suspension | the same; `Roam` is the rider's location |
| `Deliveries` | the composition | `Next`, fairness, every property of deliveries |
| `DeliveryJob` | abstract | one holder at a time, stages in order, proof before delivery, earned by who accepted |
| `Bookings` | `bookings.service.ts`, and `payment.service.ts` for bookings | `CreateRead`/`BlockRead` → `LockService` → `CountOverlapping` → `InsertBooking`; `DecisionRead` → `DecisionWrite` is confirm, cancel, complete and no-show; `MethodRead` → `CreateCard`/`CreateCash`; `ConfirmRead` → `Charge`; `MarkCashRead` → `MarkCash` |
| `ServiceSeats` | abstract | an occupant takes one seat in each hour of its span, if all are free, and gives them up |
| `SettlementRows` | the tables of payouts, coupons and rates | `owed`, `sweptBy`, `payout`; `coupon`, `use`; `deal`, `redeemed`, `rate` |
| `Payouts` | `payouts.service.ts` | `ReadPending` (read, sum, `Payout`) → `Stamp` (the counted update, or roll back); `Owing` and `SetRate` are what other services write |
| `Redemptions` | `coupons.service.ts`, `commission-coupons.service.ts` | `LockCoupon` → `CheckCoupon` → `UseCoupon` is `redeem`; `ReadDeal` → `GrantRate` a commission coupon |
| `Settlement` | the composition | `Next`, every property of payouts and coupons |
| `AccountRows` | the tables of one business's account, the clock | `Contract`, `Bill`, `Card`, `Period`; `Task`, `Fail` |
| `Memberships` | `memberships.service.ts` | `SubmitRead` → `Attach`/`Submit`; `ReviewRead` → `Verify`/`Reject`; `CardRead` → `Renew`/`Open`; `ConfirmRead` → `ConfirmAgain` → `Charge` → `CardSettle`; `RedeemRead` → `RedeemWrite`; `Settle` is `settlePeriod` |
| `Contracts` | `contracts.service.ts`, `businesses.service.ts`, `business-capabilities.service.ts` | `Apply` → `GrantDefaults` → `Join`; `ApproveRead` → `Approve` → `StartTrial` → `LookForPending` → `Draft` → `Propose`; `AddRead` → ... → `LookForGoverning` → `Set` or `Propose`; `Set` → `Cascade`; `SignRead` → `SignAs` → `SignFirst`/`SignMore` |
| `Billing` | `membership-past-due.sweeper.ts` | `SweepStarts` → `InitializePeriod` → `FindDue` → `LookUp` → `CreateBill` → `FindOverdue` → `FlagPastDue` |
| `Accounts` | the composition | `Next`, fairness, every property of an account |
| `Reviews` | `reviews.service.ts` | `Submit` or `Moderate` → (`Write` → `Count` → `Update`) for each target → `Commit`; `Duplicate` is a refusal by the unique key; `Report` |
| `MCOrders`, `MCDeliveries`, `MCBookings`, `MCSettlement`, `MCAccounts`, `MCReviews` | – | symmetry, and instances that leave actors out or choose among them (section 5) |

An operator with a name such as `StockNotReleased` or `EndsAnyway` that stands
before the one it resembles is a *mutant*: the definition with a plausible bug.
The specifications never use it. `PROJECT.json` pairs each with the property
that it violates, so that every property is known to be sensitive to the code
it is about.

### What the models leave out

- One customer, one business, one cart at a time; a line is one unit. Prices are
  one `Amount`. A business editing its stock by hand is left out: it is a write
  of a number the properties could say nothing about.
- A charge says PAID or FAILED. An event of the provider carries any payment
  status, and is believed; in `Bookings` and `Accounts` PENDING stands for all that
  are neither, since nothing there tells them apart. Refunds through the provider
  always succeed, as the sandbox provider's do.
- To an order the business is OPEN, CLOSED (suspended, deleted, or not selling) or
  NO_DELIVERY, and moves between them as it likes (`BusinessStep`). `Located` says
  whether it gave coordinates when it applied, which it may have left out and which
  no later step writes. Opening hours and the membership only refuse a checkout.
- In `Orders` a delivery has four statuses: `OPEN` (the cancellable ones),
  `ON_ROAD`, `DELIVERED`, `CANCELLED`; `Deliveries` has them all. The two
  compositions share no variable: the order only matters to a delivery when the
  delivery is created, and a delivery to its order when it is delivered.
- `RIDER_ACCEPTED` and `PENDING` are written and overwritten in one transaction,
  so no other request sees them; nothing writes `FAILED`.
- The history of assignments is summarised by who it names, how many ASSIGNED
  rows it has, and its last row: that is all the code asks of it.
- Ranking and radius: any candidate may be picked. Wrong and expired proof codes,
  and every authorisation that only looks at the caller, are a request that
  fails or does not start.
- The location of a rider is `near`, and `Roaming` says who can change it.
- Bookings are of one service; its hours are small numbers. Opening hours,
  vacations, overrides and the advance notice only refuse a request. There is no
  reschedule in the code. A payment shares the id of its booking.
- `left` is a history variable of `Bookings`: the bookings that once stopped being
  active. `settled` and `charged` count rows (`Subscription`, CHARGE `Transaction`).
- A payout's amount is the number of rows it sums; rates matter in that an order
  is only paid out to a business that has one. `updatePayoutReference`, which
  writes a text, is left out, and so are the edits of a commission coupon: its limit is
  not enforced between payees, and its rate is what a redemption copies. An earning, an order or a booking falls due, and may lapse until it is
  paid out, whenever it likes: that is what the other compositions do to it.
- The account is of one business, which shares no row with another but the limit
  of an administrator's coupon. Amounts, promotions and discounts are left out,
  as are plans; days are counted in a unit that divides grace, trial and period.
- A review is a status: its rating and text are left out, and the figures of a
  target are the set of reviews they were computed from. A product named twice in one
  submission is a `Fail`. `disturbed` and `stale` are history variables: where a
  request met another, and the targets whose figures such a request wrote last.
- An administrator may set the status of a membership by hand, to the statuses
  `SetByHand`.

## 4. Properties

**Orders, any number of overlapping requests.** `NoUnitLost`: each unit is on the
shelf or in a live order, whatever failed. `OnePaymentPerKey`.
`PaidOrderWasCharged`: no order gets past payment without a charge or an event
that says PAID. `RefundedMeansReturned`: REFUNDED is written when all was given
back, or when an event says so, which nothing checks. `ForwardStepsAreLegal`: a
status other than PAID or CANCELLED is only reached along the map, but for
COMPLETED, which the end of a delivery writes over whatever the order became since
it was read; never elsewhere, and never to an order whose delivery does not end in
that step. `ReadyOrderGetsDelivery`: `<>[]CanDispatch => Orphan(o) ~> ~Orphan(o)`: a
ready order gets its delivery if its business can in the end deliver, for
`assertEligible` asks that again on each sweep.

**Orders, requests that do not overlap.** `StockConserved` (no unit is invented;
with `NoUnitLost`, the count is exact), `EveryOrderHasPayment`,
`DeliveryFollowsReadiness`, `LifecycleRefined`. These are false when requests
overlap, because the code checks a status and later writes without looking
again: two cancellations of one order, for example, release its stock twice,
and a stale payment sync writes PAID over CANCELLED. They are not vacuous when
requests do not overlap: a request may still fail between any two round trips
and the sweeper still interleaves with it. One member of this family contradicts a
comment of the code, and is listed in section 6.

**Deliveries, any number of overlapping requests and sweeps.** `OfferAnsweredOnce`,
`OfferIsOnRecord`, `OfferEnds`, `SearchGoesOn`.

**Deliveries, one worker at a time.** `OffersGoToFreeRiders`, `NeverReoffered`,
`JobRefined`; with overlap the candidates and the exclusions are stale.

**Bookings, any number of overlapping requests.** `SeatsRefined`: bookings that
never stopped being active take seats as `ServiceSeats` grants them. Bookings
that left and came back are excepted, since the code does bring them back
(`CapacityKept`, section 6); what the lock promises is that a seat is granted
once. `PaymentAfterConfirmation`, `MethodChosenOnce`, `PaidMeansCollected`.

**Settlement, any number of overlapping requests.** `PayoutMatchesItems`,
`PaidOutOnce`: the counted updates are enough, although rows are read and summed
before. `RedeemedWithinLimits`: each redemption is within the limits as they are
when it happens; an edit may put a limit below what was redeemed.
`RateMatchesRedemption`: two overlapping redemptions of one payee never leave a
second rate. The limit of a commission coupon over all payees is not kept by the
code, and no property claims it.

**Accounts, any number of overlapping requests, and the sweep.** `PaidUpToPeriod`: a
business is in the period that follows those it settled, whatever writes a
period computed before (settlement twice, coupons, the sweep). `ConsentFirst`,
`NeverUngoverned`. With the sweep fair, `DuePeriodIsBilled` and `OverdueIsFlagged`, which says
nothing of a bill with a card attempt: the code and the schema disagree there
(section 6).

**Reviews, any number of overlapping transactions.** Here a transaction is not one
action: what it wrote and did not commit is in `req[w]`, its statements see what
is committed and its own writes, and the rows it wrote stay locked.
`FiguresRecover`: the figures of a target are those of its published reviews,
unless the last request that wrote them met another one there (reported reviews
may still be counted, since a report computes nothing). `OwnChangeIsCounted`: a
review that appears, is hidden or is restored is counted accordingly by the
figures committed with it.

## 5. Runs

Deadlock is not checked in any run: an API that nobody calls stops, and so do the
models when the bounded identifiers are used up.

| Run | Instance | Question |
|---|---|---|
| `orders_checkout` | `CustomerSpec`: 2 requests, 2 orders, 2 keys, 2 products with 1 unit, 2 carts | do carts, checkouts, payments and cancellations that race ever lose a unit or pay a key twice? |
| `orders_refunds` | `RefundSpec`: 2 requests, 1 order, 1 event that says PAID, FAILED or REFUNDED, 1 manual refund, `Amount` 2 | is REFUNDED only written when all was returned or the provider says so, and does an order ever run ahead of its payment, or skip a status but at the end of its delivery? |
| `orders_serial` | everything: 1 request and the sweeper, 2 orders, 2 keys, an event of any status, a manual refund, a business that changes | does the code implement `OrderLifecycle` when requests do not overlap? |
| `orders_liveness` | `FairSpec`: 2 requests and the sweeper on 1 order, a business that closes, opens and switches DELIVERY | does a ready order get its delivery whenever its business can in the end deliver? |
| `deliveries_sweepers` | `CalmSpec`: a request and a sweep on 1 delivery, 2 riders, 2 attempts | are offers answered once, do they end, does the search go on? |
| `deliveries_serial` | one worker (request or sweep), 2 deliveries, 2 riders | are offers made to free riders, never twice, and is each delivery a `DeliveryJob`? |
| `bookings` | everything: 2 requests, 2 bookings, hours 1 and 2, spans {1} and {1, 2}, 1 seat, 1 charge | are seats granted once, and is a booking paid in one way, after it was confirmed, with money? |
| `settlement` | `SideSpec`: 2 requests, 4 rows of 3 kinds, 3 payees, 2 payouts; 1 coupon, 2 customers, limits 1 or none, 1 commission coupon | is nothing paid out twice, and does a coupon stay within its limits? |
| `accounts` | `ScopeSpec`: 1 business, 2 requests, the sweep, 5 units of time, 2 contracts, 2 settlements of a bill | is nothing switched on or left behind without consent and payment, and does the sweep do its work? |
| `reviews` | everything: 2 requests, 2 orders of the same 2 products, in either order, and an order that may not be rated | are the figures right where nobody was met, and is a change counted at once? |
| `orders_over_refund`, `deliveries_suspended` | small | the findings of section 6 |

**Bounds.** The hazards are pairwise: one request that read, another that wrote
since. Two workers and one row each show every such pair; two orders are needed
for keys and the last unit, two products for an order that can take one line
but not the other, two riders for an offer that goes from one to the next, two
units of money for a partial refund. `MaxCarts` bounds carts ever created (two:
one checked out, one after it), `MaxCharges` the successful charges of a payment
(one). Once a delivery was offered
`MaxOffers` times no administrator assigns it and a reassignment finds nobody
else (the code limits neither, except by the riders it excludes; what
`OfferEnds` rests on is the sweep, which takes back any open offer, whoever
made it). The model of deliveries has no clock: an offer may be found too old as soon as it
is made, and how old is left open. `MaxDispatchAttempts` is the code's own limit (20 in
production, 2 here so that it is reached), `MaxEarnings` bounds the completions
of a delivery. `CustomerSpec` leaves out the business and the administrator,
`RefundSpec` reassignment, the sweeper, changes of the business and events of a
status that nothing reads, and `CalmSpec` suspension and a rider who says
BUSY: what those actors do is in the runs with fewer rows.
In `bookings` two bookings are enough to dispute one seat, and a long span against
a short one shows that overlap, not equality, is counted. In `reviews` two products rated in opposite orders by two requests are what
makes them wait for each other, and a third purchase of which nothing may be rated
shows that the check on what was bought matters.
`SideSpec` chooses at the start
between the shop's side (customers' coupons) and the office's (payouts and
commission coupons), which share no row, so their product shows nothing new.
`ScopeSpec` does the same with an account, whose parts do share rows. A behaviour
is of one scope: contracts under two requests, capabilities and their gates under
two requests, receipts and cards under one request with the sweep and the whole
clock, coupons likewise but for a receipt added to a bill, receipts under two requests with the sweep for a shorter time,
and cards that replace a rejected receipt (two bills, two keys) under two requests
on the first day. In every scope a business may apply with any answers the scope is about,
the administrator and the provider act, and requests fail; that a charge fails, or that
the provider takes a PAID back, is in the scope of cards under two requests alone. What needs two scopes
at once is left to the proofs, which know of none: there `Accounts!Spec` is
unrestricted. The clock starts at 1 (0 is no date) and runs long enough for a trial, a period and
its grace. The proofs allow a trial of no days, which is what the schema defaults to. Symmetry is only used
where every property is a safety property.

**Fairness.** Nobody has to call the API, answer an offer or finish a request. The
only thing the code schedules is its sweepers, so only their steps are fair.
They are strongly fair because a step of a sweep is enabled again at each tick
and disabled in between. In `Orders` the sweep may fail any number of times, but
a step that is retried for ever gets through once; to get through `assertEligible`
is not to pass it, and whether it refuses is the business's doing. In `Deliveries` a sweep is
longer and its failures stop eventually (`<>[][~Fail(w)]_vars`): no property of
progress holds of a database that is never up for a whole sweep. A transaction
that holds a row lock ends (weak fairness of `EndTransaction`): Prisma rolls an
interactive transaction back after five seconds. `ReadyOrderGetsDelivery` and
`OfferEnds` are about what the sweepers repair *although requests fail for ever*.
The sweep of memberships runs every day in one process and is never disabled, so
its steps are weakly fair; that it does not fail for ever is
`<>[][SweepFails => FindOverdue]_vars` (a failure where the sweep would have ended
anyway is no matter). Requests, the administrator and the provider owe nothing.

## 6. Findings

Each is a run that ends in a violation of what the code says of itself;
`PROJECT.json` quotes the lines.

- `orders_over_refund`: a manual refund that was open when the administrator
  refunded through the provider can still be completed; one request at a time
  is enough.
- `deliveries_suspended`: a rider suspended during a delivery is AVAILABLE when it ends.

Further disagreements between a comment and the code, with a property but
without a run of their own. Each is found within seconds in the instance named.

| Property | The comment | What happens | Instance |
|---|---|---|---|
| `EveryOrderHasPayment` | `checkout/checkout.service.ts:91-96`: nothing is left behind, a retry returns the original order | the key is looked up before the transaction: two overlapping `createPayment` calls with one key leave an order that holds stock and has no payment | `MCOrders`, `Spec`, 2 requests, 2 orders, 1 key |
| `NeverChargedTwice` | `payments/payment.service.ts:65`: confirming again never double-charges | the status is read at 67 and the charge recorded at 73-84: two overlapping confirmations charge twice. One request at a time does too: once a charge is refunded in part the payment no longer reads PAID, and `confirm()` turns away only an order that is PAID or CANCELLED (`checkout/checkout.service.ts:190`) | `MCOrders`, `Spec`, 2 requests (or 1, and `Amount` 2), 1 order, 1 key, 1 product, no event or refund by hand, `MaxCarts` 1, `MaxCharges` 2 |
| `EarnedOnce` | `delivery/delivery.service.ts:316-322`: safe against two completions | `transition()` (397-412) updates what it read: a late arrived-customer puts a DELIVERED delivery back on the road, and completing it again pays the rider again | `MCDeliveries`, `Spec`, 2 requests, no sweeper, 1 rider, 1 delivery, nobody roams, `MaxDispatchAttempts` 1, `MaxOffers` 1, `MaxEarnings` 2 |
| `CompletionIsLegal` | `orders/order-state-machine.ts:5`: the "exhaustive legal-transition map" of an order | `DeliverySyncService` reads the order (18) and writes COMPLETED by its id (20): a cancellation by the customer that read the order while it could still be cancelled, or a payment sync that is late, commits between the two, and CANCELLED or PAID becomes COMPLETED | `MCOrders`, as `orders_refunds` |
| `BackstopWorks` | `delivery/orphaned-order-retry.sweeper.ts:8-20`: the sweeper is the backstop of an order whose delivery was not created | `assertEligible` (`delivery-eligibility.service.ts:72-77`) refuses a business without coordinates, which nothing asks for when it switches DELIVERY on or a customer pays: every sweep is refused, and the order stays ready for ever | `MCOrders`, as `orders_liveness` with `Located` FALSE |
| `NoReviewIsLost` | `reviews/reviews.service.ts:454-458`: concurrent reviews of a target "never race each other into losing an update" | each transaction counts before the other commits (460); the second update waits for the first (466-476) and overwrites it with a count that misses a review, until the target is rated or moderated again | as `reviews` |
| `CapacityKept` | `bookings/bookings.service.ts:174-176`: only one can pass the capacity check of a slot | `confirm()` reads a PENDING booking (787), which is cancelled; its seat goes to another; `confirm()` writes CONFIRMED by id alone (794-798): both are active in a service with one seat | `MCBookings`, `Spec`, 2 requests, 2 bookings, spans of one hour, 2 keys, no payment, `Capacity` 1 |
| `OnlyPendingIsSettled` | `memberships/memberships.service.ts:447`: the caller of `settlePeriod` already checked that the payment is PENDING | two reviews that overlap, or a review and a card, settle one bill twice. One request at a time does too: a card payment that was opened is confirmed (610-632) after the administrator verified a receipt of the same bill | as `accounts` |
| `CardAttemptShields` | `prisma/schema.prisma:2313-2316`: past its date a bill costs visibility only without a receipt *and without a card attempt*, or rejected | `flagOverdue` (`membership-past-due.sweeper.ts:116-118`) looks at the receipt and not at the method: a bill whose card charge was started is flagged like one nobody answered | as `accounts` |
| `OnlyUnpaidIsFlagged` | `memberships/membership-past-due.sweeper.ts:107-109`: a bill paid late but before the sweeper ran supersedes an older unpaid one | the memberships and their bills are read once (sweeper 97-104) and each is written later (121): one that is settled in between is flagged PAST_DUE, until it settles its next period | as `accounts` |
| `OneGoverningContract` | `contracts/contracts.service.ts:134`: at most one SIGNED contract | a signature that finds the business APPROVED retires nothing, although another one may be signed meanwhile, or before a second approval | as `accounts` |

## 7. Proofs

Proved by TLAPS for every value of the constants, from the named assumptions on
them (workers and sweeper differ, amounts are positive, bounds are natural
numbers, the set of order ids is finite).

| Theorem | States |
|---|---|
| `OrdersProofs!TypeInvariant`, `TypeCorrect` | `Spec => []TypeInv`, `Spec => []TypeOK` |
| `OrdersProofs!Facts` | `Spec => []FactsInv` |
| `OrdersProofs!ForwardLegal` | `Spec => ForwardStepsAreLegal` |
| `OrdersProofs!UnitsKept` | `Spec => []NoUnitLost` |
| `OrdersProofs!KeysUnique` | `Spec => []OnePaymentPerKey` |
| `OrdersPaymentProofs!PaymentsBacked` | `Spec => []PaidInv` |
| `OrdersPaymentProofs!PaidWasCharged` | `Spec => []PaidOrderWasCharged` |
| `OrdersPaymentProofs!ReturnsSummed`, `RefundedReturned` | `[]ReturnInv`, `[]RefundedMeansReturned` |
| `OrdersSerialProofs!ReadsStayTrue` | `OneRequest`: `Spec => []SerialInv` |
| `OrdersPaymentProofs!OrdersHavePayments` | `Spec /\ []KeysApart => []EveryOrderHasPayment` |
| `OrdersSerialProofs!DeliveriesFollow`, `StockKept` | `OneRequest`: `[]DeliveryFollowsReadiness`, `[]StockConserved` |
| `OrdersSerialProofs!LifecycleImplemented` | `OneRequest`: `Spec => LifecycleRefined`, a refinement |
| `DeliveriesProofs!DeliveryTypeInvariant`, `DeliveryTypeCorrect` | the same of `Deliveries` |
| `DeliveriesProofs!OfferInvariant`, `OffersOnRecord`, `OffersAnsweredOnce` | `OfferInv`, `[]OfferIsOnRecord`, `OfferAnsweredOnce` |
| `DeliveriesProofs!ReofferedNever` | `Spec /\ []RetriesAlone => NeverReoffered` |
| `DeliveriesProofs!EarnedOnDelivery` | `Spec /\ []CompletesAlone => []EarnedOnce` |
| `DeliveriesProofs!ChecksHold`, `JobImplemented` | `OneWorker`: `[]SoloInv`; `Spec => JobRefined`, a refinement |
| `BookingsProofs!TypeInvariant`, `TypeCorrect` | the same of `Bookings` |
| `BookingsProofs!MethodsStay`, `PaidAfterConfirmation`, `MoneyCollected` | `MethodChosenOnce`, `[]PaymentAfterConfirmation`, `[]PaidMeansCollected` |
| `BookingsProofs!SeatInvariant`, `SeatsImplemented` | `[]SeatInv`; `Spec => SeatsRefined`, a refinement |
| `BookingsProofs!SeatsNotOversold`, `CapacityIsKept` | `[]GrantedInv`; `Spec /\ []OneDecider => []CapacityKept` |
| `SettlementProofs!TypeInvariant`, `TypeCorrect` | the same of `Settlement` |
| `SettlementProofs!PayoutsMatchItems`, `PaidOnce`, `RatesMatch`, `WithinLimits` | all its properties |
| `AccountsProofs!TypeInvariant`, `TypeCorrect` | the same of `Accounts` |
| `AccountsProofs!NoTimeGivenAway`, `AlwaysGoverned`, `ConsentCorrect` | all its safety properties |
| `ReviewsProofs!TypeInvariant`, `TypeCorrect` | the same of `Reviews` |
| `ReviewsProofs!RequestInvariant`, `OwnChangeCounted`, `FiguresRight` | `[]RequestInv`, `OwnChangeIsCounted`, `[]FiguresRecover` |

Hypotheses stand before some of these. Four are conditions on a behaviour, and rule
out one overlap each: the one by which the code does violate the property (section 6,
and the second row below). The others are about the constants, and rule out overlaps as
such; without them the code's unguarded writes break the properties (section 4).

| Hypothesis | What may not happen | What still may |
|---|---|---|
| `KeysApart` | two checkouts with one idempotency key, both past its lookup | retries one after the other, checkouts with other keys, every other request, failures |
| `RetriesAlone` | somebody about to name a rider for a delivery while a sweep that retries it is between its search and its write (else a rider can be named by an administrator, refuse, and be offered it again by the retry that searched before) | every other overlap, on the same delivery too |
| `CompletesAlone` | an unguarded update of a delivery between its check and its write while somebody is about to complete it | two completions at once, and everything that is guarded |
| `OneDecider` | two decisions on one booking, both past their checks | any number of requests for a slot, payments, decisions on other bookings |
| `OneRequest`, `OneWorker` | two requests at all (two requests or sweeps) | the sweeper of orders, the provider, failures between any two round trips |

The argument, for orders. `TypeOK` alone is not inductive: `order[req[w].order]` has
a type only if a request that is past its first read names an order. `TypeInv`
adds what each step needs of its request (`WellFormed`). `NoUnitLost` needs more:
when a cancellation releases `req[w].lines`, these must be the lines of the
order, read long before. `FactsInv` says what a request knows for certain,
however stale the rest: its order exists, its lines are those it holds (rows
are never deleted and lines never change), and the status it will write
follows the one it read; and that a delivery which is being completed is on the road,
in the hands of one transaction (`LockFacts`). `OrderChange` then shows that each action does one
of four things to orders and stock (nothing, places one, moves one, cancels one),
and the two properties are proved of those four rather than of the whole
next-state relation; the count of holders by the theorems on cardinality.
`PaidOrderWasCharged` needs to know who may be about to write PAID: `PaidInv`
says that a payment that reads PAID, and a request on its way to an order with
that news, or about to complete an order it read past payment, already have a charge
or an event behind them (`Carries`). Neither is ever taken back (`ChargesKept`,
`EventsKept`), and only a request that carries it takes an order past payment
(`OnlyCarriersPay`): `MarkPaid`, or a completion that saw it there.
`RefundedMeansReturned` is about a sum that was read before others committed. `ReturnInv` says that this does no harm in one direction:
what a request summed is at most what will have been returned once it commits,
since `refunded` only grows, rows settled by hand count once (the update of the
row holds it to the commit, `RowsLocked`). An event may say REFUNDED with nothing
returned; a request that brings such news has it from an event (`NewsOfEvent`), which
is the exception that the property makes. In the other direction a stale sum does
harm: it may be too low, and REFUNDED missed. `EveryOrderHasPayment` follows from
`OrderingIsNew`: the key of a checkout that is under way has no payment yet. A key
gets its first payment in the transaction of a checkout with that key
(`KeyComesWithOrder`), so under `KeysApart` no other request can take it away.

Some properties hold only of requests that do not overlap, because the code
checks what it read and then writes without checking again. `OneRequest` says that
any two members of `Requests` are equal; one slot serves any number of requests, one
after the other, and the sweeper, crashes and the provider still come in between.
`SerialInv` then says that what a request read is still so when it writes
(`Timely`: the status may still move as was seen, the delivery is still out). The sweeper is the difficult part: it does overlap, and inserts a delivery
for an order it saw readied. It is safe because a readied order has one move left
(`ReadyMoves`) and completes only when its delivery ends (`CompletedWasDelivered`),
so that what it saw cannot change under it. `TaskHistory` gives the cases: after
any step a worker has the task it had, has ended, or was just brought where it is
by one of a few named actions. `StepMoves` sums up each step as one of the moves of
`OrderLifecycle` with its units; the refinement and `StockConserved` follow from
those moves alone.

For deliveries. `OfferIsOnRecord` is inductive only with the lock: between the
update and the commit of a reassignment no other transaction may write the row
(`LockInv`: the worker holding it still sees the offer it took, and it is
alone). `OfferStep` sums up all actions: they leave offers alone, take a lock, or
write one delivery and its history together. `KnownInv` says what a request under way
knows for certain of its delivery (`Known`), and that a rider a delivery holds is in its
history (`HoldersNamed`); it holds of any number of overlapping workers. `RowStep` sums up
each step as a read that goes on or one write of one delivery, and two properties are
proved of that alone. `NeverReoffered`: a rider that a search found is not in the history
of the delivery (`FreshInv`), and only a worker that names somebody can put him there;
`RetriesAlone` says that none is about to. `EarnedOnce`: a delivery was earned exactly if
it is DELIVERED, and a worker about to write a delivery by its id alone has not seen it
end (`EarnInv`); a second completion finds the row DELIVERED and does nothing, and under
`CompletesAlone` nothing takes it back. So the overlap in the disagreement on
`EarnedOnce` (section 6) is its only cause. Under `OneWorker` (requests and sweeps take
turns, as in the run `deliveries_serial`) `SoloInv` adds that what was checked is still so
at the write (`Checked`), and that from the acceptance on the rider is the one who
accepted (`CarrierInv`). `JobMove` sums up every step as one action of `DeliveryJob` on
the rows, from which the refinement follows.

For bookings. `SeatsRefined` needs the lock: `LockInv` says that at most one request
is between the lock and the insertion, and that after its count fewer than
`Capacity` of the bookings that never left overlap its span. A decision that
comes in between can only take bookings out of that set (`RowsInv`: what comes
back is in `left`), so the count is still a bound when it inserts
(`ComersShrink`, `RivalsShrink`), and every step is a step of `ServiceSeats` or
leaves the seats alone. `PaymentAfterConfirmation` needs to know what the
requests under way saw: a booking once confirmed never becomes PENDING again.
`SeatsNotOversold` says the same as the refinement with a number: in no hour are
there more first-comers than seats. Under `OneDecider` a decision is still allowed when
it is written (`DecidedInv`: only another decision changes the status of a booking), so
nothing that left comes back, the active bookings are the first-comers, and
`CapacityKept` follows (`CapacityIsKept`), however many requests dispute the slot.

For settlement. A row is stamped once (`StampedOnce`), by `Stamp` alone, which
compares counts: `PayoutsMatchItems` is inductive with the types. `WithinLimits`
needs that a request at its last step holds the row of the coupon alone and that
what it checked is still true (`LockInv`).

For accounts. `PaidUpToPeriod` is inductive once it is said of every period that
somebody carries: bills, requests and the sweep (`PaidInv`). Settling a bill
covers all up to its end, because it was covered up to its start. `ConsentFirst`
rests on what a request remembers: who is to switch something on saw a signed
contract that covers it (`ConsentInv`), and contracts never shrink
(`ContractsKept`).

For reviews. `FiguresRecover` speaks of committed state only; `RequestInv` says what
the transactions under way will make of it. Their rows are disjoint (`LockInv`), two
that wrote on one target both know it (`MetInv`), and what a request counted is
what it writes of its own review (`OwnInv`) and, where it met nobody, still right
of the others (`OthersInv`): a commit changes only targets that its request holds,
so whoever counted there meanwhile met it.

**Only model-checked.** Every safety property, action property and refinement that
a run checks is proved, some under the hypotheses above, but for
`OffersGoToFreeRiders`: a rider may leave, or be offered another delivery, between the
search and the offer, so it is a matter of workers that take turns and of riders that
stay, and the run shows what is left to show. Liveness (`ReadyOrderGetsDelivery`, `OfferEnds`,
`SearchGoesOn`, `DuePeriodIsBilled`, `OverdueIsFlagged`) is out of the prover's reach,
as are `ENABLED` and induction over data, and stays with TLC. No module uses a
RECURSIVE operator.

## 8. Not modelled

Most of the repository's lines are not of a kind that a state machine says
something about. Of 70 000 lines of TypeScript, 33 000 are React components, 12 000
are tests of the API, and 20 000 are the API itself; of these most is data transfer objects, controllers that
forward one call, searches, CRUD of one owner's rows, decimal arithmetic, and
input and output. The models cover the services that keep a protocol: those
where two requests, a sweep, the provider or a crash can meet on a row. Section
2 lists what is left and why. In parts that are modelled, the following is not:

- Authentication codes and support cases keep a protocol, though a small one.
- Commission rates by amount, tax and fares: arithmetic without interleaving.
- Contracts of riders, and the application, documents and approval of a rider: two
  actors write one row under its status, as with the capabilities of a business.
- The reply of a business to a review, and the resolution of a report.
- The composition of `Deliveries` with `Fulfillment` as one specification. The four
  coarse delivery statuses of `Orders` are written from the same code, and the
  two meet in two steps only (a delivery is created, a delivery ends).
- The opening hours and the membership of a business, as orders see them, and the
  `updatePayoutReference` of payouts and edits of commission coupons (section 3).

Still worth proving: the results under `OneRequest` and `OneWorker` that are left, from
the weaker hypothesis that no two requests are on one order (or one delivery) at a
time, which is what a lock on its row would give.
