------------------------------ MODULE Billing ------------------------------
(***************************************************************************)
(* MembershipPastDueSweeper, which runs every day and alone, and the clock *)
(* it and the memberships read.                                            *)
(***************************************************************************)
EXTENDS Memberships

SweepAt(step) == sweep.pc = step
SweepTo(step) == sweep' = [sweep EXCEPT !.pc = step]

---------------------------------------------------------------------------
(* initializeFirstPeriods *)

SweepStarts ==
    /\ sweep = Resting
    /\ sweep' = IF /\ membership.status = "TRIAL"
                   /\ membership.period = NoPeriod
                   /\ membership.trialEnd < now
                THEN [pc |-> "initialize", period |-> [start |-> CreatedAt, end |-> membership.trialEnd]]
                ELSE [pc |-> "generate", period |-> NoPeriod]
    /\ UNCHANGED <<profile, billing, now, req>>

\* The period is written whatever the membership has become.
InitializePeriod ==
    /\ SweepAt("initialize")
    /\ membership' = [membership EXCEPT !.period = sweep.period]
    /\ sweep' = [pc |-> "generate", period |-> NoPeriod]
    /\ UNCHANGED <<profile, redeemed, bill, card, now, req>>

---------------------------------------------------------------------------
(* generateDuePayments and generateDuePaymentIfMissing *)

PeriodEnded == membership.period # NoPeriod /\ membership.period.end <= now

\* Whom the sweep bills (mutant: no longer during the trial).
BilledWhenActive == membership.status = "ACTIVE" /\ PeriodEnded
Billed == membership.status \in GoodStanding /\ PeriodEnded

FindDue ==
    /\ SweepAt("generate")
    /\ sweep' = IF Billed THEN [pc |-> "lookup", period |-> membership.period]
                           ELSE [sweep EXCEPT !.pc = "flag"]
    /\ UNCHANGED <<profile, billing, now, req>>

LookUp ==
    /\ SweepAt("lookup")
    /\ SweepTo(IF BillsOf(sweep.period) = {} THEN "create" ELSE "flag")
    /\ UNCHANGED <<profile, billing, now, req>>

CreateBill ==
    /\ SweepAt("create")
    /\ bill' = Append(bill, NewBill(sweep.period, now + Grace))
    /\ SweepTo("flag")
    /\ UNCHANGED <<profile, membership, redeemed, card, now, req>>

---------------------------------------------------------------------------
(* flagOverdue *)

Overdue == {b \in DOMAIN bill : bill[b].due < now}

UnderReview(b) == bill[b].status = "PENDING" /\ bill[b].receipt

\* Nothing was sent in, or it was rejected (mutant: a rejection is an answer).
NothingSent(b) == bill[b].status = "PENDING" /\ ~bill[b].receipt
Unresolved(b) == bill[b].status = "REJECTED" \/ (bill[b].status = "PENDING" /\ ~bill[b].receipt)

MustBeFlagged ==
    /\ membership.status \in GoodStanding
    /\ Overdue # {}
    /\ Unresolved(Latest(Overdue))

FindOverdue ==
    /\ SweepAt("flag")
    /\ sweep' = IF MustBeFlagged THEN [sweep EXCEPT !.pc = "suspend"] ELSE Resting
    /\ UNCHANGED <<profile, billing, now, req>>

\* PAST_DUE is written whatever the membership has become.
FlagPastDue ==
    /\ SweepAt("suspend")
    /\ membership' = [membership EXCEPT !.status = "PAST_DUE"]
    /\ sweep' = Resting
    /\ UNCHANGED <<profile, redeemed, bill, card, now, req>>

\* A round trip fails: the sweep ends, and the next day's starts over.
SweepFails ==
    /\ sweep # Resting
    /\ sweep' = Resting
    /\ UNCHANGED <<profile, billing, now, req>>

---------------------------------------------------------------------------
Tick ==
    /\ HasMembership
    /\ now < MaxTime
    /\ now' = now + 1
    /\ UNCHANGED <<profile, billing, req, sweep>>

SweepStep ==
    \/ SweepStarts \/ InitializePeriod
    \/ FindDue \/ LookUp \/ CreateBill
    \/ FindOverdue \/ FlagPastDue
=============================================================================
