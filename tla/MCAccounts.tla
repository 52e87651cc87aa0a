---------------------------- MODULE MCAccounts -----------------------------
(***************************************************************************)
(* Instances of Accounts for TLC.                                          *)
(***************************************************************************)
EXTENDS Accounts, TLC

CONSTANTS r1, r2, k1

MCGate == "BOOKINGS" :> "DIRECTORY_LISTING"

(***************************************************************************)
(* The whole product of contracts, cards, coupons and two requests is too  *)
(* large.  Every behaviour of the instance is therefore of one scope,      *)
(* chosen at the start: which steps requests take after the application,   *)
(* how many of them at a time, and how long the clock runs.                *)
(***************************************************************************)
VARIABLE scope

Onboarding == {"idle", "onboard", "join"}
Contracting == {"approve", "trial", "find", "draft", "govern", "propose", "set", "cascade",
                "signing", "signFirst", "signMore"}
Paying == {"attach", "submit", "verify", "reject"}
PayingByCard == {"renew", "open", "confirm", "charge", "settle"}

Scope ==
    [ contract |-> [steps |-> Contracting,              working |-> {r1, r2}, until |-> 1],
      gate     |-> [steps |-> {"set", "cascade"},       working |-> {r1, r2}, until |-> 1],
      card     |-> [steps |-> Paying \cup (PayingByCard \ {"renew"}),
                                                        working |-> {r1},     until |-> MaxTime],
      renewal  |-> [steps |-> PayingByCard \cup {"submit", "reject"},
                                                        working |-> {r1, r2}, until |-> 1],
      coupon   |-> [steps |-> {"submit", "verify", "reject", "redeem"},
                                                        working |-> {r1},     until |-> MaxTime - 1],
      pair     |-> [steps |-> Paying,                   working |-> {r1, r2}, until |-> MaxTime - 2] ]

\* How many bills requests insert, and with which keys they pay.
Rows == IF scope = "renewal" THEN MaxRows ELSE 1
KeysAsked == IF scope = "renewal" THEN PayKeys \cup {None} ELSE {k1, None}

\* A card becomes PAID or stays as it is: other outcomes and reports, and a PAID
\* that is taken back, are left to the scope of two overlapping card payments.
OnlyPaid == \A p \in DOMAIN card : card'[p].status \in {card[p].status, "PAID"}

\* What the business may be, ask for and have, in a scope.
Profile ==
    CASE scope = "contract" ->
            /\ sweep' = Resting
            /\ membership'.status \in {None, "TRIAL"}
            /\ business' \notin {"REJECTED", "SUSPENDED"}
            /\ \A w \in Requests : req'[w].pc = "onboard" => w = r1 /\ req'[w].caps = {"SELLS_PRODUCTS"}
            /\ capability'["BOOKINGS"] = None
            /\ \A w \in Requests : req'[w].pc = "set" => req'[w].on /\ req'[w].cap # "BOOKINGS"
      [] scope = "gate" -> sweep' = Resting /\ membership'.status \in {None, "TRIAL"}
      [] OTHER ->
            /\ business' = "PENDING"
            /\ scope # "pair" => membership'.status # "CANCELLED"
            /\ \A w \in Requests : req'[w].caps \subseteq {"DIRECTORY_LISTING"}
            /\ scope # "renewal" => OnlyPaid

InScope ==
    /\ \A w \in Requests :
        \/ req'[w] = Idle
        \/ w \in Scope[scope].working /\ req'[w].pc \in Onboarding \cup Scope[scope].steps
    /\ now' <= Scope[scope].until
    /\ \A w \in Requests : req'[w].key \in KeysAsked
    /\ Len(bill') \in 0..Rows \cup {Len(bill)} \/ sweep' # sweep
    /\ Profile

ScopeInit == Init /\ scope \in DOMAIN Scope
ScopeNext == Next /\ InScope /\ UNCHANGED scope
ScopeSpec == ScopeInit /\ [][ScopeNext]_<<vars, scope>> /\ SweepIsFair
=============================================================================
