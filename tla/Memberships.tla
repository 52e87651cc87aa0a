---------------------------- MODULE Memberships ----------------------------
(***************************************************************************)
(* MembershipsService: billing periods and what is paid for them, by       *)
(* deposit or transfer with a receipt that an administrator verifies, or   *)
(* by card.                                                                *)
(***************************************************************************)
EXTENDS AccountRows

---------------------------------------------------------------------------
(* startTrialIfMissing and setStatus; businessId is unique, and neither    *)
(* decides on anything else it read.                                       *)

StartsTrial ==
    membership' = IF HasMembership THEN membership
                  ELSE [NoMembership EXCEPT !.status = "TRIAL", !.trialEnd = now + TrialLength]

SetStatus(status) ==
    /\ HasMembership
    /\ membership' = [membership EXCEPT !.status = status]
    /\ UNCHANGED <<profile, redeemed, bill, card, now, sweep, req>>

---------------------------------------------------------------------------
(* redeemAdminCoupon: a transaction without a row lock *)

RedeemRead(w, c) ==
    /\ HasMembership
    /\ redeemed[c] < CouponLimit
    /\ Start(w, [Idle EXCEPT !.pc = "redeem", !.coupon = c,
                             !.period = membership.period, !.due = membership.trialEnd])
    /\ UNCHANGED <<profile, billing, now, sweep>>

\* The new end is computed from the membership that was read.
RedeemWrite(w) ==
    /\ At(w, "redeem")
    /\ LET c == req[w].coupon
           extended ==
            CASE c = "FREE_TRIAL_EXTENSION" ->
                    [membership EXCEPT !.trialEnd = req[w].due + Extension]
              [] c = "FREE_MONTHS" /\ req[w].period # NoPeriod ->
                    [membership EXCEPT !.period.end = req[w].period.end + Extension]
              [] OTHER -> membership
       IN  /\ membership' = extended
           /\ redeemed' = [redeemed EXCEPT ![c] = @ + 1]
    /\ Finish(w)
    /\ UNCHANGED <<profile, bill, card, now, sweep>>

---------------------------------------------------------------------------
(* What is owed *)

DuePeriod ==
    IF membership.period # NoPeriod
    THEN membership.period
    ELSE [start |-> CreatedAt, end |-> membership.trialEnd]

BillsOf(period) == {b \in DOMAIN bill : bill[b].period = period}

NewBill(period, due) ==
    [ status |-> "PENDING", period |-> period, due |-> due,
      receipt |-> FALSE, method |-> None, settled |-> 0 ]

\* The Payment of a bill, 0 when there is none (membershipPaymentId is unique).
CardOf(b) == Latest({p \in DOMAIN card : card[p].bill = b})

---------------------------------------------------------------------------
(* submitPayment, with DEPOSIT or TRANSFER *)

CardUnderWay(b) ==
    /\ bill[b].method = "CARD"
    /\ CardOf(b) = 0 \/ card[CardOf(b)].status # "FAILED"

\* A rejection keeps its deadline.
InheritedDue(b) == IF b # 0 /\ bill[b].status = "REJECTED" THEN bill[b].due ELSE 0

SubmitRead(w) ==
    /\ HasMembership
    /\ LET b == Latest(BillsOf(DuePeriod))
           pending == b # 0 /\ bill[b].status = "PENDING"
       IN  /\ pending => ~bill[b].receipt /\ ~CardUnderWay(b)
           /\ Start(w, IF pending
                       THEN [Idle EXCEPT !.pc = "attach", !.bill = b]
                       ELSE [Idle EXCEPT !.pc = "submit", !.period = DuePeriod,
                                         !.due = InheritedDue(b)])
    /\ UNCHANGED <<profile, billing, now, sweep>>

\* The update writes the receipt, whatever became of the bill.
Attach(w) ==
    /\ At(w, "attach")
    /\ bill' = [bill EXCEPT ![req[w].bill].receipt = TRUE, ![req[w].bill].method = "MANUAL"]
    /\ Finish(w)
    /\ UNCHANGED <<profile, membership, redeemed, card, now, sweep>>

\* Every bill has a deadline (mutant: a first one has none).
JustInherited(inherited) == inherited
DueOr(inherited) == IF inherited # 0 THEN inherited ELSE now + Grace

Submit(w) ==
    /\ At(w, "submit")
    /\ Len(bill) < MaxRows
    /\ bill' = Append(bill, [NewBill(req[w].period, DueOr(req[w].due)) EXCEPT
                                !.receipt = TRUE, !.method = "MANUAL"])
    /\ Finish(w)
    /\ UNCHANGED <<profile, membership, redeemed, card, now, sweep>>

---------------------------------------------------------------------------
(* settlePeriod, verifyPayment and rejectPayment *)

\* The next period starts where the paid one ends (mutant: it also skips one).
SkippedPeriod(period) ==
    [start |-> period.end + PeriodLength, end |-> period.end + 2 * PeriodLength]
NextPeriod(period) == [start |-> period.end, end |-> period.end + PeriodLength]

\* One transaction; a card leaves its mark on the bill, a review does not.
Settle(b, method) ==
    /\ bill[b].settled < MaxSettled
    /\ bill' = [bill EXCEPT ![b].status  = "VERIFIED",
                            ![b].settled = @ + 1,
                            ![b].method  = IF method = None THEN @ ELSE method]
    /\ membership' = [membership EXCEPT !.status = "ACTIVE",
                                        !.period = NextPeriod(bill[b].period)]

ReviewRead(w, b, step) ==
    /\ b \in DOMAIN bill
    /\ bill[b].status = "PENDING"
    /\ Start(w, [Idle EXCEPT !.pc = step, !.bill = b])
    /\ UNCHANGED <<profile, billing, now, sweep>>

Verify(w) ==
    /\ At(w, "verify")
    /\ Settle(req[w].bill, None)
    /\ Finish(w)
    /\ UNCHANGED <<profile, redeemed, card, now, sweep>>

Reject(w) ==
    /\ At(w, "reject")
    /\ bill' = [bill EXCEPT ![req[w].bill].status = "REJECTED"]
    /\ Finish(w)
    /\ UNCHANGED <<profile, membership, redeemed, card, now, sweep>>

---------------------------------------------------------------------------
(* createMembershipCardPayment *)

\* What can be charged: a bill that waits for money, or one that was rejected.
CardRead(w, k) ==
    /\ HasMembership
    /\ LET b == Latest(BillsOf(DuePeriod)) IN
        /\ b # 0
        /\ \/ /\ bill[b].status = "PENDING"
              /\ CardOf(b) = 0
              /\ ~bill[b].receipt
              /\ Start(w, [Idle EXCEPT !.pc = "open", !.bill = b, !.key = k])
           \/ /\ bill[b].status = "REJECTED"
              /\ Start(w, [Idle EXCEPT !.pc = "renew", !.period = DuePeriod,
                                       !.due = bill[b].due, !.key = k])
    /\ UNCHANGED <<profile, billing, now, sweep>>

Renew(w) ==
    /\ At(w, "renew")
    /\ Len(bill) < MaxRows
    /\ bill' = Append(bill, NewBill(req[w].period, req[w].due))
    /\ req' = [req EXCEPT ![w].pc = "open", ![w].bill = Len(bill) + 1]
    /\ UNCHANGED <<profile, membership, redeemed, card, now, sweep>>

\* One transaction; PaymentService.createPayment returns a payment that has
\* the key, and a second payment of the bill aborts.
Open(w) ==
    /\ At(w, "open")
    /\ LET b == req[w].bill
           keyUsed == \E p \in DOMAIN card : card[p].key = req[w].key
       IN  IF ~keyUsed /\ CardOf(b) # 0
           THEN UNCHANGED <<bill, card>>
           ELSE /\ bill' = [bill EXCEPT ![b].method = "CARD"]
                /\ card' = IF keyUsed THEN card
                           ELSE Append(card, [bill |-> b, key |-> req[w].key, status |-> "PENDING"])
    /\ Finish(w)
    /\ UNCHANGED <<profile, membership, redeemed, now, sweep>>

---------------------------------------------------------------------------
(* confirmMembershipCardPayment and the provider's webhook *)

ConfirmRead(w) ==
    /\ card # <<>>
    /\ card[Len(card)].status # "PAID"
    /\ Start(w, [Idle EXCEPT !.pc = "confirm", !.card = Len(card), !.bill = card[Len(card)].bill])
    /\ UNCHANGED <<profile, billing, now, sweep>>

\* PaymentService.confirmPayment looks again: paid by now is success too.
ConfirmAgain(w) ==
    /\ At(w, "confirm")
    /\ GoTo(w, IF card[req[w].card].status = "PAID" THEN "settle" ELSE "charge")
    /\ UNCHANGED <<profile, billing, now, sweep>>

Charge(w) ==
    /\ At(w, "charge")
    /\ LET p == req[w].card IN
        \E outcome \in Outcomes :
            /\ card' = [card EXCEPT ![p].status = outcome]
            /\ IF outcome = "PAID" THEN GoTo(w, "settle") ELSE Finish(w)
    /\ UNCHANGED <<profile, membership, redeemed, bill, now, sweep>>

CardSettle(w) ==
    /\ At(w, "settle")
    /\ Settle(req[w].bill, "CARD")
    /\ Finish(w)
    /\ UNCHANGED <<profile, redeemed, card, now, sweep>>

\* The webhook writes any status it is told and knows nothing of bills.
ProviderReports(p, status) ==
    /\ p \in DOMAIN card
    /\ card' = [card EXCEPT ![p].status = status]
    /\ UNCHANGED <<profile, membership, redeemed, bill, now, sweep, req>>

---------------------------------------------------------------------------
MembershipStep(w) ==
    \/ \E c \in AdminCoupons : RedeemRead(w, c)
    \/ SubmitRead(w)
    \/ \E b \in 1..Len(bill), step \in {"verify", "reject"} : ReviewRead(w, b, step)
    \/ \E k \in PayKeys : CardRead(w, k)
    \/ ConfirmRead(w)
    \/ RedeemWrite(w) \/ Attach(w) \/ Submit(w) \/ Verify(w) \/ Reject(w)
    \/ Renew(w) \/ Open(w) \/ ConfirmAgain(w) \/ Charge(w) \/ CardSettle(w)

\* The administrator and the provider, each in one step.
OtherHands ==
    \/ \E status \in SetByHand : SetStatus(status)
    \/ \E p \in 1..Len(card), status \in CardStatuses : ProviderReports(p, status)
=============================================================================
