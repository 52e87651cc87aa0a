---------------------------- MODULE AccountRows ----------------------------
(***************************************************************************)
(* The account of one business (another's shares no row with it): its      *)
(* approval, its capabilities, the contracts it signs, its membership and  *)
(* what it pays for that.                                                  *)
(*                                                                         *)
(* As in OrderRows, a variable is a table, an action is one round trip to  *)
(* the database, and req[w] is what a request remembers between two.       *)
(* Amounts and texts are left out.  Time runs from the day the trial       *)
(* starts, in a unit that divides the grace, the trial and the period.     *)
(* A trial may have no days: the default of MembershipPlan.trialDays.      *)
(***************************************************************************)
EXTENDS Integers, Sequences

CONSTANTS
    Requests,      \* HTTP requests the API can be serving at one time
    Gate,          \* what each operational capability depends on
    AdminCoupons,  \* types of the coupons that move dates, one coupon of each
    SetByHand,     \* statuses of a membership an administrator sets
    PayKeys,       \* idempotency keys of createMembershipCardPayment
    TrialLength,   \* MembershipPlan.trialDays
    PeriodLength,  \* periodLengthMs
    Grace,         \* MEMBERSHIP_PAYMENT_GRACE_MS
    Extension,     \* what a FREE_MONTHS or FREE_TRIAL_EXTENSION coupon adds
    CouponLimit,   \* AdminCoupon.usageLimit of either
    MaxTime,       \* bound: the clock
    MaxRows,       \* bound: MembershipPayment rows that requests insert
    MaxSettled,    \* bound: how often one bill is settled
    MaxContracts   \* bound: BusinessContract rows

\* The absence of a value (SQL NULL), where it is no number; 0 where it is.
None == "NONE"

\* What a business has to agree to, because it costs something.
Material == {"SELLS_PRODUCTS", "DIRECTORY_LISTING"}
Operational == DOMAIN Gate
Capabilities == Material \cup Operational

ASSUME GateAssumption ==
    /\ Gate \in [Operational -> Material]
    /\ None \notin Capabilities
    /\ Material \cap Operational = {}

ASSUME TimesAssumption ==
    /\ {PeriodLength, Grace} \subseteq Nat \ {0}
    /\ {TrialLength, Extension} \subseteq Nat
ASSUME BoundsAssumption == {CouponLimit, MaxTime, MaxRows, MaxSettled, MaxContracts} \subseteq Nat

VARIABLES
    business,    \* Business.status
    capability,  \* BusinessCapability rows
    contract,    \* BusinessContract rows, oldest first
    membership,  \* the BusinessMembership row
    redeemed,    \* AdminCouponRedemption rows of each coupon
    bill,        \* MembershipPayment rows, oldest first
    card,        \* Payment rows of bills, oldest first
    now,         \* the clock
    sweep,       \* what the daily sweep remembers
    req          \* the request each worker is serving

profile == <<business, capability, contract>>
billing == <<membership, redeemed, bill, card>>
vars == <<profile, billing, now, sweep, req>>

BusinessStatuses == {"PENDING", "APPROVED", "REJECTED", "SUSPENDED", "ACTIVE"}

Contract == [ covers : SUBSET Material,    \* sellsProducts, directoryListing
              status : {"PENDING_SIGNATURE", "SIGNED", "SUPERSEDED"} ]

GoodStanding == {"TRIAL", "ACTIVE"}
Statuses == GoodStanding \cup {"PAST_DUE", "PAUSED", "CANCELLED", "EXPIRED"}
Outcomes == {"PAID", "FAILED"}      \* of a charge
\* "PENDING" stands for every status that says neither.
CardStatuses == {"PENDING"} \cup Outcomes

ASSUME InputsAssumption ==
    /\ AdminCoupons \subseteq {"FREE_MONTHS", "FREE_TRIAL_EXTENSION"}
    /\ SetByHand \subseteq Statuses

\* The day the trial starts; on day 0 there is no membership yet.
CreatedAt == 1

\* currentPeriodStart and currentPeriodEnd; a period without end is none.
Period == [start : Nat, end : Nat]
NoPeriod == [start |-> 0, end |-> 0]

Membership == [status : Statuses \cup {None}, trialEnd : Nat, period : Period]
NoMembership == [status |-> None, trialEnd |-> 0, period |-> NoPeriod]

Bill == [ status  : {"PENDING", "VERIFIED", "REJECTED"},
          period  : Period,
          due     : Nat \ {0},           \* dueDate
          receipt : BOOLEAN,             \* receiptUrl
          method  : {"MANUAL", "CARD", None},
          settled : Nat ]                \* Subscription rows made from it

Card == [ bill    : Nat \ {0},           \* membershipPaymentId
          key     : PayKeys,
          status  : CardStatuses ]

Steps == { "idle",
           "onboard", "join",                          \* apply
           "approve", "trial", "find", "draft",        \* approve
           "govern", "propose", "set", "cascade",      \* the capabilities' setters
           "signing", "signFirst", "signMore",         \* sign
           "attach", "submit",                         \* submitPayment
           "verify", "reject", "redeem",
           "renew", "open",                            \* createMembershipCardPayment
           "confirm", "charge", "settle" }             \* confirmMembershipCardPayment

Task == [ pc       : Steps,
          caps     : SUBSET Capabilities,  \* capabilities asked for, or to write
          cap      : Capabilities \cup {None},
          on       : BOOLEAN,              \* what cap is to become
          contract : Nat,                  \* a contract read, or 0
          bill     : Nat,                  \* a bill read, or 0
          card     : Nat,
          period   : Period,               \* the period resolved
          due      : Nat,                  \* a date read, or 0
          key      : PayKeys \cup {None},
          coupon   : AdminCoupons \cup {None} ]

Idle == [ pc |-> "idle", caps |-> {}, cap |-> None, on |-> FALSE, contract |-> 0,
          bill |-> 0, card |-> 0, period |-> NoPeriod, due |-> 0, key |-> None,
          coupon |-> None ]

SweepSteps == {"idle", "initialize", "generate", "lookup", "create", "flag", "suspend"}
Sweep == [pc : SweepSteps, period : Period]
Resting == [pc |-> "idle", period |-> NoPeriod]

TypeOK ==
    /\ business \in BusinessStatuses \cup {None}
    /\ capability \in [Capabilities -> {"ON", "OFF", None}]
    /\ contract \in Seq(Contract)
    /\ membership \in Membership
    /\ redeemed \in [AdminCoupons -> Nat]
    /\ bill \in Seq(Bill)
    /\ card \in Seq(Card)
    /\ now \in Nat
    /\ sweep \in Sweep
    /\ req \in [Requests -> Task]

Init ==
    /\ business = None
    /\ capability = [c \in Capabilities |-> None]
    /\ contract = <<>>
    /\ membership = NoMembership
    /\ redeemed = [c \in AdminCoupons |-> 0]
    /\ bill = <<>>
    /\ card = <<>>
    /\ now = CreatedAt
    /\ sweep = Resting
    /\ req = [w \in Requests |-> Idle]

At(w, step) == req[w].pc = step
Start(w, task) == req[w] = Idle /\ req' = [req EXCEPT ![w] = task]
GoTo(w, step) == req' = [req EXCEPT ![w].pc = step]
Finish(w) == req' = [req EXCEPT ![w] = Idle]

\* A request dies between two round trips.
Fail(w) == ~At(w, "idle") /\ Finish(w) /\ UNCHANGED <<profile, billing, now, sweep>>

HasMembership == membership.status # None

\* The most recent of some rows, 0 when there is none.
Latest(ids) == IF ids = {} THEN 0 ELSE CHOOSE i \in ids : \A j \in ids : j <= i
=============================================================================
