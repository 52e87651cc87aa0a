------------------------------ MODULE Accounts -----------------------------
(***************************************************************************)
(* The account of a business as a whole: Contracts, which start its trial, *)
(* Memberships and Billing, with every request, the sweep, the clock, the  *)
(* administrator and the payment provider interleaving.                    *)
(***************************************************************************)
EXTENDS Contracts, Billing

RequestStep(w) == ContractStep(w) \/ MembershipStep(w) \/ Fail(w)

Next ==
    \/ \E w \in Requests : RequestStep(w)
    \/ Decision \/ OtherHands
    \/ SweepStep \/ SweepFails
    \/ Tick

Spec == Init /\ [][Next]_vars

\* The cron job runs every day, and it does not fail for ever (the look that
\* finds nothing overdue ends a sweep just as a failure does); nothing is
\* assumed of requests, of the administrator or of the provider.
SweepIsFair == WF_vars(SweepStep) /\ <>[][SweepFails => FindOverdue]_vars

FairSpec == Spec /\ SweepIsFair

---------------------------------------------------------------------------
(* Safety, for any number of concurrent requests *)

(***************************************************************************)
(* Nobody is made to owe what it did not agree to: after the application,  *)
(* selling or being listed is only ever switched on under a contract that  *)
(* covers it and was signed, although the contract in force is read in one *)
(* query and the capability set in another, while others sign.             *)
(***************************************************************************)
AgreedTo(c) ==
    \E k \in DOMAIN contract : contract[k].status # "PENDING_SIGNATURE" /\ c \in contract[k].covers

ConsentFirst ==
    [][\A c \in Material :
        ~Enabled(c) /\ Enabled(c)' =>
            \/ AgreedTo(c)'
            \/ \E w \in Requests : At(w, "onboard") /\ req'[w] # req[w]]_vars

(***************************************************************************)
(* A business that ever signed always has a contract in force: however     *)
(* signatures overlap, the one that retires the others stays.              *)
(***************************************************************************)
NeverUngoverned ==
    (\E k \in DOMAIN contract : contract[k].status # "PENDING_SIGNATURE") => WithStatus("SIGNED") # {}

(***************************************************************************)
(* No time is given away: up to the start of the period a business is in,  *)
(* every day is covered by a period it paid for (a Subscription was made   *)
(* of its bill), although bills are settled late, twice, in any order and  *)
(* by two ways of payment, and the sweep and coupons write periods they    *)
(* computed earlier.                                                       *)
(***************************************************************************)
PaidFor(day) ==
    \E b \in DOMAIN bill :
        /\ bill[b].settled > 0
        /\ bill[b].period.start <= day
        /\ day < bill[b].period.end

PaidUpToPeriod == \A day \in CreatedAt..(membership.period.start - 1) : PaidFor(day)

---------------------------------------------------------------------------
(* Liveness, with the daily sweep fair *)

(***************************************************************************)
(* A membership whose period has ended is billed: the sweep finds it,      *)
(* unless it loses its good standing or moves to another period first.     *)
(***************************************************************************)
Unbilled ==
    /\ membership.status \in GoodStanding
    /\ PeriodEnded
    /\ BillsOf(membership.period) = {}

DuePeriodIsBilled == Unbilled ~> ~Unbilled

(***************************************************************************)
(* Who does not pay in time loses its good standing: an overdue bill that  *)
(* was rejected, or has neither a receipt nor a card attempt, does not     *)
(* stay so for ever, whatever sweeps fail.  Of a bill with a card attempt  *)
(* nothing is said here: see CardAttemptShields.                           *)
(***************************************************************************)
Paid(b) == bill[b].status = "VERIFIED"
CardAttempt(b) == bill[b].status = "PENDING" /\ bill[b].method = "CARD"
Unpaid ==
    /\ membership.status \in GoodStanding
    /\ Overdue # {}
    /\ LET b == Latest(Overdue) IN
        bill[b].status = "REJECTED" \/ (~Paid(b) /\ ~UnderReview(b) /\ ~CardAttempt(b))

OverdueIsFlagged == Unpaid ~> ~Unpaid

---------------------------------------------------------------------------
(* What comments say and the code does not keep *)

(***************************************************************************)
(* The comment of MembershipPayment: what loses visibility once dueDate    *)
(* has passed is a row "PENDING-without-a-receipt-and-without-a-card-      *)
(* attempt or REJECTED".  flagOverdue never looks at the card.  Violated   *)
(* in the instance of the accounts run; no run of its own (README).        *)
(***************************************************************************)
CardAttemptShields ==
    [][SweepAt("flag") /\ sweep'.pc = "suspend" => ~CardAttempt(Latest(Overdue))]_vars

(***************************************************************************)
(* The comment of flagOverdue: a row VERIFIED "paid late but before the    *)
(* sweeper ran" supersedes an older unpaid one.  Not while it runs: the    *)
(* list is read once and each status written from it.  Violated in the     *)
(* instance of the accounts run; no run of its own (README).               *)
(***************************************************************************)
OnlyUnpaidIsFlagged ==
    [][SweepAt("suspend") /\ membership' # membership => MustBeFlagged]_vars

(***************************************************************************)
(* The comment of settlePeriod(): the caller "already checked              *)
(* payment.status === PENDING".  Violated in the instance of the accounts  *)
(* run; no run of its own (README).                                        *)
(***************************************************************************)
OnlyPendingIsSettled ==
    [][\A b \in DOMAIN bill :
        bill'[b].settled > bill[b].settled => bill[b].status = "PENDING"]_vars

(***************************************************************************)
(* The comment of getGoverningContract(): "At most one SIGNED,             *)
(* non-superseded contract exists per business at any time".  Violated in  *)
(* the instance of the accounts run; no run of its own (README).           *)
(***************************************************************************)
OneGoverningContract == \A j, k \in WithStatus("SIGNED") : j = k
=============================================================================
