-------------------------- MODULE SettlementProofs -------------------------
(***************************************************************************)
(* What holds of Settlement for every set of requests, items, payees,      *)
(* coupons and customers, and every limit.                                 *)
(***************************************************************************)
EXTENDS Settlement, FiniteSetTheorems, TLAPS

(***************************************************************************)
(* TypeOK is inductive once what a task carries is known to be of the row  *)
(* its step needs; a payout, besides, is about items of its payee only.    *)
(***************************************************************************)
RowInv ==
    /\ owed \in [Items -> BOOLEAN]
    /\ sweptBy \in [Items -> PayoutIds \cup {None}]
    /\ payout \in [PayoutIds -> PayoutRow]
    /\ rate \in [Payees -> [Rates -> Nat]]
    /\ coupon \in [Coupons -> CouponRow]
    /\ use \in [UseIds -> UseRow]
    /\ deal \in [Deals -> DealRow]
    /\ redeemed \in [Deals -> SUBSET Payees]

Redeeming == {"check", "use"}

WellFormed(t) ==
    /\ t \in Task
    /\ t.pc = "stamp" => t.payee \in Payees /\ \A i \in t.items : PayeeOf[i] = t.payee
    /\ t.pc \in Redeeming => t.coupon \in Coupons /\ t.customer \in Customers
    /\ t.pc = "grant" => t.deal \in Deals /\ t.payee \in Payees

ReqInv == req \in [Requests -> Task] /\ \A w \in Requests : WellFormed(req[w])

TypeInv == RowInv /\ ReqInv

LEMMA IdleWellFormed == WellFormed(Idle)
BY DEF Idle, Task, Steps, WellFormed, Redeeming

LEMMA TaskMove ==
    ASSUME ReqInv, NEW w \in Requests, NEW t, WellFormed(t), req' = [req EXCEPT ![w] = t]
    PROVE  ReqInv'
BY DEF ReqInv, WellFormed

LEMMA TaskEnd == ASSUME ReqInv, NEW w \in Requests, Finish(w) PROVE ReqInv'
BY TaskMove, IdleWellFormed DEF Finish

LEMMA TypeInit == Init => TypeInv
<1> SUFFICES ASSUME Init PROVE TypeInv
  OBVIOUS
<1>1. RowInv
  BY DEF Init, RowInv, NoPayout, PayoutRow, NoUse, UseRow, CouponRow, DealRow
<1>2. ReqInv
  BY IdleWellFormed DEF Init, ReqInv, WellFormed
<1> QED BY <1>1, <1>2 DEF TypeInv

(***************************************************************************)
(* The tasks a request starts with are well formed.                        *)
(***************************************************************************)
LEMMA StampTask ==
    ASSUME NEW payee \in Payees, NEW kind, NEW found \in SUBSET PendingOf(payee, kind)
    PROVE  WellFormed([Idle EXCEPT !.pc = "stamp", !.items = found, !.payee = payee])
<1> DEFINE t == [Idle EXCEPT !.pc = "stamp", !.items = found, !.payee = payee]
<1>1. t \in Task /\ t.pc = "stamp" /\ t.items = found /\ t.payee = payee
  BY DEF Idle, Task, Steps, PendingOf
<1>2. \A i \in found : PayeeOf[i] = payee
  BY DEF PendingOf
<1> QED BY <1>1, <1>2 DEF WellFormed, Redeeming

LEMMA CheckTask ==
    ASSUME NEW c \in Coupons, NEW u \in Customers
    PROVE  WellFormed([Idle EXCEPT !.pc = "check", !.coupon = c, !.customer = u])
<1> DEFINE t == [Idle EXCEPT !.pc = "check", !.coupon = c, !.customer = u]
<1>1. t \in Task /\ t.pc = "check" /\ t.coupon = c /\ t.customer = u
  BY DEF Idle, Task, Steps
<1> QED BY <1>1 DEF WellFormed, Redeeming

LEMMA GrantTask ==
    ASSUME NEW d \in Deals, NEW payee \in Payees
    PROVE  WellFormed([Idle EXCEPT !.pc = "grant", !.deal = d, !.payee = payee])
<1> DEFINE t == [Idle EXCEPT !.pc = "grant", !.deal = d, !.payee = payee]
<1>1. t \in Task /\ t.pc = "grant" /\ t.deal = d /\ t.payee = payee
  BY DEF Idle, Task, Steps
<1> QED BY <1>1 DEF WellFormed, Redeeming

LEMMA UseTask ==
    ASSUME NEW t, WellFormed(t), t.pc = "check"
    PROVE  WellFormed([t EXCEPT !.pc = "use"])
BY DEF WellFormed, Task, Steps, Redeeming

LEMMA ReqStep == ASSUME TypeInv, [Next]_vars PROVE ReqInv'
<1> USE DEF TypeInv
<1>1. ASSUME NEW w \in Requests, NEW payee \in Payees, NEW kind \in Kinds,
             NEW found \in SUBSET PendingOf(payee, kind), ReadPending(w, payee, kind, found)
      PROVE  ReqInv'
  BY <1>1, StampTask, TaskMove DEF ReadPending, Start
<1>2. ASSUME NEW w \in Requests, NEW c \in Coupons, NEW u \in Customers, LockCoupon(w, c, u)
      PROVE  ReqInv'
  BY <1>2, CheckTask, TaskMove DEF LockCoupon, Start
<1>3. ASSUME NEW w \in Requests, NEW d \in Deals, NEW payee \in Payees, ReadDeal(w, d, payee)
      PROVE  ReqInv'
  BY <1>3, GrantTask, TaskMove DEF ReadDeal, Start
<1>4. ASSUME NEW w \in Requests, CheckCoupon(w) PROVE ReqInv'
  <2>1. CASE Finish(w)
    BY <2>1, TaskEnd
  <2>2. CASE GoTo(w, "use")
    <3>1. WellFormed(req[w]) /\ req[w].pc = "check"
      BY <1>4 DEF ReqInv, CheckCoupon, At
    <3>2. req' = [req EXCEPT ![w] = [req[w] EXCEPT !.pc = "use"]]
      BY <2>2 DEF GoTo, ReqInv
    <3> QED BY <3>1, <3>2, UseTask, TaskMove
  <2> QED BY <1>4, <2>1, <2>2 DEF CheckCoupon
<1>5. ASSUME NEW w \in Requests, Finish(w) PROVE ReqInv'
  BY <1>5, TaskEnd
<1>6. ASSUME UNCHANGED req PROVE ReqInv'
  BY <1>6 DEF ReqInv, WellFormed
<1> QED BY <1>1, <1>2, <1>3, <1>4, <1>5, <1>6
        DEF Next, ShopStep, OfficeStep, AnyEdit, AnyDeal, CouponStep, PayoutStep, DealStep,
            EditCoupon, Owing, SetRate, CloseDeal, SetDeal, Fail, UseCoupon, Stamp, GrantRate, vars

LEMMA AmountIsNat == ASSUME NEW items \in SUBSET Items PROVE Cardinality(items) \in Nat
BY ItemsAssumption, FS_Subset, FS_CardinalityType

LEMMA RowStep == ASSUME TypeInv, [Next]_vars PROVE RowInv'
<1> USE DEF TypeInv
<1>1. ASSUME NEW w \in Requests, NEW p \in PayoutIds, Stamp(w, p) PROVE RowInv'
  <2>1. /\ WellFormed(req[w])
        /\ req[w].payee \in Payees
        /\ req[w].items \in SUBSET Items
    BY <1>1 DEF Stamp, At, ReqInv, WellFormed, Task
  <2>2. [payee |-> req[w].payee, amount |-> Cardinality(req[w].items)] \in PayoutRow
    BY <2>1, AmountIsNat DEF PayoutRow
  <2> QED BY <1>1, <2>2 DEF Stamp, RowInv
<1>2. ASSUME NEW w \in Requests, NEW x \in UseIds, UseCoupon(w, x) PROVE RowInv'
  <2>1. NewUse(req[w]) \in UseRow
    BY <1>2 DEF UseCoupon, At, ReqInv, WellFormed, Redeeming, NewUse, UseRow
  <2> QED BY <1>2, <2>1 DEF UseCoupon, RowInv
<1>3. ASSUME NEW w \in Requests, GrantRate(w) PROVE RowInv'
  <2>1. req[w].deal \in Deals /\ req[w].payee \in Payees
    BY <1>3 DEF GrantRate, At, ReqInv, WellFormed
  <2>2. rate' \in [Payees -> [Rates -> Nat]]
    <3>1. CASE UNCHANGED rate
      BY <3>1 DEF RowInv
    <3>2. CASE rate' = [rate EXCEPT ![req[w].payee][req[w].deal] = @ + 1]
      <4>1. rate[req[w].payee] \in [Rates -> Nat] /\ req[w].deal \in Rates
        BY <2>1 DEF RowInv, Rates
      <4>2. [rate[req[w].payee] EXCEPT ![req[w].deal] = @ + 1] \in [Rates -> Nat]
        BY <4>1
      <4> QED BY <3>2, <4>2 DEF RowInv
    <3> QED BY <1>3, <3>1, <3>2 DEF GrantRate
  <2>3. redeemed' \in [Deals -> SUBSET Payees]
    BY <1>3, <2>1 DEF GrantRate, RowInv
  <2> QED BY <1>3, <2>2, <2>3 DEF GrantRate, RowInv
<1>4. ASSUME NEW c \in Coupons, NEW row \in CouponRow, EditCoupon(c, row) PROVE RowInv'
  BY <1>4 DEF EditCoupon, RowInv
<1>5. ASSUME NEW i \in Items, Owing(i) PROVE RowInv'
  BY <1>5 DEF Owing, RowInv
<1>6. ASSUME NEW payee \in Payees, SetRate(payee) PROVE RowInv'
  BY <1>6 DEF SetRate, RowInv, Rates
<1>7. ASSUME NEW d \in Deals, CloseDeal(d) \/ \E active \in BOOLEAN : SetDeal(d, active)
      PROVE  RowInv'
  BY <1>7 DEF CloseDeal, SetDeal, RowInv, DealRow
<1>8. ASSUME UNCHANGED <<owed, sweptBy, payout, rate, coupon, use, deal, redeemed>>
      PROVE  RowInv'
  BY <1>8 DEF RowInv
<1> QED BY <1>1, <1>2, <1>3, <1>4, <1>5, <1>6, <1>7, <1>8
        DEF Next, ShopStep, OfficeStep, AnyEdit, AnyDeal, CouponStep, PayoutStep, DealStep,
            LockCoupon, CheckCoupon, ReadPending, ReadDeal, Fail, vars

(***************************************************************************)
(* The strengthened type invariant.                                        *)
(***************************************************************************)
THEOREM TypeInvariant == Spec => []TypeInv
<1>1. Init => TypeInv
  BY TypeInit
<1>2. TypeInv /\ [Next]_vars => TypeInv'
  BY ReqStep, RowStep DEF TypeInv
<1> QED BY <1>1, <1>2, PTL DEF Spec

(***************************************************************************)
(* Every reachable state is well typed: no row refers to a row that does   *)
(* not exist.                                                              *)
(***************************************************************************)
THEOREM TypeCorrect == Spec => []TypeOK
<1>1. TypeInv => TypeOK
  BY DEF TypeInv, RowInv, ReqInv, TypeOK
<1> QED BY <1>1, TypeInvariant, PTL

---------------------------------------------------------------------------
(***************************************************************************)
(* Payouts.  An item that was counted is unstamped until the one update    *)
(* that stamps all of its payout, so a payout is what it stamped.          *)
(***************************************************************************)
LEMMA StampedOnce ==
    ASSUME TypeInv, PayoutMatchesItems,
           NEW w \in Requests, NEW p \in PayoutIds, Stamp(w, p)
    PROVE  PayoutMatchesItems'
<1> DEFINE items == req[w].items
<1>1. /\ items \in SUBSET Items
      /\ req[w].payee \in Payees
      /\ \A i \in items : PayeeOf[i] = req[w].payee
  BY DEF TypeInv, ReqInv, WellFormed, Task, Stamp, At
<1>2. CASE AllStamped(items)
  <2>1. \A i \in items : sweptBy[i] = None
    BY <1>2 DEF AllStamped, Stamped
  <2>2. Stamped(items) = items
    BY <1>2 DEF AllStamped
  <2>3. /\ sweptBy' = [i \in Items |-> IF i \in items THEN p ELSE sweptBy[i]]
        /\ payout' = [payout EXCEPT ![p] =
                [payee |-> req[w].payee, amount |-> Cardinality(items)]]
    BY <1>2, <2>2 DEF Stamp
  <2>4. SweptInto(p) = {}
    <3>1. SweptInto(p) \in SUBSET Items /\ IsFiniteSet(SweptInto(p))
      BY ItemsAssumption, FS_Subset DEF SweptInto
    <3>2. Cardinality(SweptInto(p)) = 0
      BY DEF PayoutMatchesItems, Stamp, NoPayout
    <3> QED BY <3>1, <3>2, FS_EmptySet
  <2>5. SweptInto(p)' = items
    BY <1>1, <2>3, <2>4 DEF SweptInto
  <2>6. \A q \in PayoutIds \ {p} : SweptInto(q)' = SweptInto(q) /\ payout'[q] = payout[q]
    <3>1. None \notin PayoutIds
      BY ItemsAssumption
    <3> QED BY <1>1, <2>1, <2>3, <3>1 DEF SweptInto, TypeInv, RowInv
  <2>7. payout'[p] = [payee |-> req[w].payee, amount |-> Cardinality(items)]
    BY <2>3 DEF TypeInv, RowInv
  <2>8. /\ payout'[p].amount = Cardinality(SweptInto(p)')
        /\ \A i \in SweptInto(p)' : PayeeOf[i] = payout'[p].payee
    BY <1>1, <2>5, <2>7
  <2>9. \A q \in PayoutIds \ {p} :
            /\ payout'[q].amount = Cardinality(SweptInto(q)')
            /\ \A i \in SweptInto(q)' : PayeeOf[i] = payout'[q].payee
    BY <2>6 DEF PayoutMatchesItems
  <2> QED BY <2>8, <2>9 DEF PayoutMatchesItems
<1>3. CASE UNCHANGED <<sweptBy, payout>>
  BY <1>3 DEF PayoutMatchesItems, SweptInto
<1> QED BY <1>2, <1>3 DEF Stamp

(***************************************************************************)
(* Nothing but Stamp writes either table.                                  *)
(***************************************************************************)
LEMMA OnlyStampPays ==
    ASSUME [Next]_vars
    PROVE  \/ \E w \in Requests, p \in PayoutIds : Stamp(w, p)
           \/ UNCHANGED <<sweptBy, payout>>
BY DEF Next, ShopStep, OfficeStep, AnyEdit, AnyDeal, CouponStep, PayoutStep, DealStep, LockCoupon,
       CheckCoupon, UseCoupon, ReadPending, ReadDeal, GrantRate, EditCoupon, Owing, SetRate,
       CloseDeal, SetDeal, Fail, vars

(***************************************************************************)
(* A payout is worth the items it stamped, which are all its payee's, for  *)
(* any number of requests that sweep the same items.                       *)
(***************************************************************************)
THEOREM PayoutsMatchItems == Spec => []PayoutMatchesItems
<1>1. Init => PayoutMatchesItems
  <2> SUFFICES ASSUME Init, NEW p \in PayoutIds
               PROVE  /\ payout[p].amount = Cardinality(SweptInto(p))
                      /\ \A i \in SweptInto(p) : PayeeOf[i] = payout[p].payee
    BY DEF PayoutMatchesItems
  <2>1. SweptInto(p) = {}
    BY ItemsAssumption DEF Init, SweptInto
  <2> QED BY <2>1, FS_EmptySet DEF Init, NoPayout
<1>2. TypeInv /\ PayoutMatchesItems /\ [Next]_vars => PayoutMatchesItems'
  <2> SUFFICES ASSUME TypeInv, PayoutMatchesItems, [Next]_vars PROVE PayoutMatchesItems'
    OBVIOUS
  <2>1. CASE UNCHANGED <<sweptBy, payout>>
    BY <2>1 DEF PayoutMatchesItems, SweptInto
  <2> QED BY <2>1, StampedOnce, OnlyStampPays
<1> QED BY <1>1, <1>2, TypeInvariant, PTL DEF Spec

(***************************************************************************)
(* What was paid out once is never paid out again.                         *)
(***************************************************************************)
THEOREM PaidOnce == Spec => PaidOutOnce
<1> DEFINE Step == /\ \A i \in Items : sweptBy[i] # None => sweptBy'[i] = sweptBy[i]
                   /\ \A p \in PayoutIds : payout[p] # NoPayout => payout'[p] = payout[p]
<1>1. TypeInv /\ [Next]_vars => Step
  <2> SUFFICES ASSUME TypeInv, [Next]_vars PROVE Step
    OBVIOUS
  <2>1. ASSUME NEW w \in Requests, NEW p \in PayoutIds, Stamp(w, p) PROVE Step
    <3>1. CASE UNCHANGED <<sweptBy, payout>>
      BY <3>1
    <3>2. CASE /\ sweptBy' = [i \in Items |-> IF i \in Stamped(req[w].items) THEN p ELSE sweptBy[i]]
               /\ payout' = [payout EXCEPT ![p] =
                    [payee |-> req[w].payee, amount |-> Cardinality(req[w].items)]]
      <4>1. payout[p] = NoPayout
        BY <2>1 DEF Stamp
      <4>2. \A i \in Items : sweptBy[i] # None => sweptBy'[i] = sweptBy[i]
        BY <3>2 DEF Stamped
      <4>3. \A q \in PayoutIds : payout[q] # NoPayout => payout'[q] = payout[q]
        BY <3>2, <4>1 DEF TypeInv, RowInv
      <4> QED BY <4>2, <4>3
    <3> QED BY <2>1, <3>1, <3>2 DEF Stamp
  <2>2. CASE UNCHANGED <<sweptBy, payout>>
    BY <2>2
  <2> QED BY <2>1, <2>2, OnlyStampPays
<1>2. TypeInv /\ [Next]_vars => [Step]_vars
  BY <1>1
<1> QED BY <1>2, TypeInvariant, PTL DEF Spec, PaidOutOnce

---------------------------------------------------------------------------
(***************************************************************************)
(* Whoever redeemed a deal has exactly the one rate it grants.             *)
(***************************************************************************)
THEOREM RatesMatch == Spec => []RateMatchesRedemption
<1>1. Init => RateMatchesRedemption
  BY DEF Init, RateMatchesRedemption, Rates
<1>2. TypeInv /\ RateMatchesRedemption /\ [Next]_vars => RateMatchesRedemption'
  <2> SUFFICES ASSUME TypeInv, RateMatchesRedemption, [Next]_vars
               PROVE  RateMatchesRedemption'
    OBVIOUS
  <2>1. ASSUME NEW w \in Requests, GrantRate(w) PROVE RateMatchesRedemption'
    <3> DEFINE d == req[w].deal
               payee == req[w].payee
    <3>1. d \in Deals /\ payee \in Payees /\ d \in Rates
      BY <2>1 DEF GrantRate, At, TypeInv, ReqInv, WellFormed, Rates
    <3>2. CASE UNCHANGED <<rate, redeemed>>
      BY <3>2 DEF RateMatchesRedemption
    <3>3. CASE /\ payee \notin redeemed[d]
               /\ rate' = [rate EXCEPT ![payee][d] = @ + 1]
               /\ redeemed' = [redeemed EXCEPT ![d] = @ \cup {payee}]
      <4>1. rate[payee][d] = 0
        BY <3>1, <3>3 DEF RateMatchesRedemption
      <4>2. rate'[payee][d] = 1 /\ payee \in redeemed'[d]
        BY <3>1, <3>3, <4>1 DEF TypeInv, RowInv
      <4>3. ASSUME NEW e \in Deals, NEW y \in Payees, <<e, y>> # <<d, payee>>
            PROVE  rate'[y][e] = rate[y][e] /\ (y \in redeemed'[e] <=> y \in redeemed[e])
        BY <3>1, <3>3, <4>3 DEF TypeInv, RowInv, Rates
      <4> QED BY <3>1, <4>2, <4>3 DEF RateMatchesRedemption
    <3> QED BY <2>1, <3>2, <3>3 DEF GrantRate, NotYetGranted
  <2>2. ASSUME NEW y \in Payees, SetRate(y) PROVE RateMatchesRedemption'
    <3>1. \A d \in Deals, z \in Payees : rate'[z][d] = rate[z][d]
      BY <2>2, DealsAssumption DEF SetRate, TypeInv, RowInv, Rates
    <3> QED BY <2>2, <3>1 DEF SetRate, RateMatchesRedemption
  <2>3. CASE UNCHANGED <<rate, redeemed>>
    BY <2>3 DEF RateMatchesRedemption
  <2> QED BY <2>1, <2>2, <2>3
          DEF Next, ShopStep, OfficeStep, AnyEdit, AnyDeal, CouponStep, PayoutStep, DealStep,
              LockCoupon, CheckCoupon, UseCoupon, ReadPending, ReadDeal, Stamp, EditCoupon, Owing,
              CloseDeal, SetDeal, Fail, vars
<1> QED BY <1>1, <1>2, TypeInvariant, PTL DEF Spec

---------------------------------------------------------------------------
(***************************************************************************)
(* Coupons of a shop: at most one request holds the row of a coupon, and   *)
(* what it has checked stays true until it inserts the redemption.         *)
(***************************************************************************)
Holds(w, c) == req[w].pc \in Redeeming /\ req[w].coupon = c

LockInv ==
    /\ \A v, w \in Requests, c \in Coupons : Holds(v, c) /\ Holds(w, c) => v = w
    /\ \A w \in Requests : At(w, "use") => Redeemable(req[w].coupon, req[w].customer)

LEMMA CountsGrow ==
    ASSUME TypeInv, NEW w \in Requests, NEW x \in UseIds, UseCoupon(w, x)
    PROVE  /\ \A c \in Coupons :
                UsesOf(c)' = IF c = req[w].coupon THEN UsesOf(c) + 1 ELSE UsesOf(c)
           /\ \A c \in Coupons, u \in Customers :
                UsesBy(c, u)' = IF c = req[w].coupon /\ u = req[w].customer
                                THEN UsesBy(c, u) + 1 ELSE UsesBy(c, u)
<1>1. /\ req[w].coupon \in Coupons
      /\ req[w].customer \in Customers
      /\ use[x] = NoUse
      /\ use' = [use EXCEPT ![x] = [coupon |-> req[w].coupon, customer |-> req[w].customer]]
  BY DEF UseCoupon, At, TypeInv, ReqInv, WellFormed, Redeeming, NewUse
<1>2. \A y \in UseIds : use'[y] = IF y = x
                                  THEN [coupon |-> req[w].coupon, customer |-> req[w].customer]
                                  ELSE use[y]
  BY <1>1 DEF TypeInv, RowInv
<1>3. ASSUME NEW c \in Coupons
      PROVE  UsesOf(c)' = IF c = req[w].coupon THEN UsesOf(c) + 1 ELSE UsesOf(c)
  <2> DEFINE S == {y \in UseIds : use[y].coupon = c}
             T == {y \in UseIds : use'[y].coupon = c}
  <2>1. IsFiniteSet(S) /\ x \notin S
    BY <1>1, LimitsAssumption, FS_Subset DEF NoUse
  <2>2. T = IF c = req[w].coupon THEN S \cup {x} ELSE S
    BY <1>1, <1>2, LimitsAssumption DEF NoUse
  <2>3. Cardinality(S \cup {x}) = Cardinality(S) + 1
    BY <2>1, FS_AddElement
  <2> QED BY <2>2, <2>3 DEF UsesOf
<1>4. ASSUME NEW c \in Coupons, NEW u \in Customers
      PROVE  UsesBy(c, u)' = IF c = req[w].coupon /\ u = req[w].customer
                             THEN UsesBy(c, u) + 1 ELSE UsesBy(c, u)
  <2> DEFINE S == {y \in UseIds : use[y].coupon = c /\ use[y].customer = u}
             T == {y \in UseIds : use'[y].coupon = c /\ use'[y].customer = u}
  <2>1. IsFiniteSet(S) /\ x \notin S
    BY <1>1, LimitsAssumption, FS_Subset DEF NoUse
  <2>2. T = IF c = req[w].coupon /\ u = req[w].customer THEN S \cup {x} ELSE S
    BY <1>1, <1>2, LimitsAssumption DEF NoUse
  <2>3. Cardinality(S \cup {x}) = Cardinality(S) + 1
    BY <2>1, FS_AddElement
  <2> QED BY <2>2, <2>3 DEF UsesBy
<1> QED BY <1>3, <1>4

LEMMA LockStep == ASSUME TypeInv, LockInv, [Next]_vars PROVE LockInv'
<1>1. ASSUME NEW w \in Requests, NEW c \in Coupons, NEW u \in Customers, LockCoupon(w, c, u)
      PROVE  LockInv'
  <2>1. /\ \A v \in Requests \ {w} : req'[v] = req[v] /\ ~Holds(v, c)
        /\ req'[w].pc = "check" /\ req'[w].coupon = c
    BY <1>1 DEF LockCoupon, Start, Idle, CouponFree, Holds, Redeeming, TypeInv, ReqInv
  <2>2. UNCHANGED <<coupon, use>>
    BY <1>1 DEF LockCoupon
  <2>3. \A v, x \in Requests, e \in Coupons : Holds(v, e)' /\ Holds(x, e)' => v = x
    BY <2>1 DEF LockInv, Holds
  <2>4. ASSUME NEW v \in Requests, At(v, "use")'
        PROVE  Redeemable(req[v].coupon, req[v].customer)'
    <3>1. v # w /\ req'[v] = req[v] /\ At(v, "use")
      BY <2>1, <2>4 DEF At
    <3>2. Redeemable(req[v].coupon, req[v].customer)
      BY <3>1 DEF LockInv
    <3> QED BY <2>2, <3>1, <3>2 DEF Redeemable, UsesOf, UsesBy
  <2> QED BY <2>3, <2>4 DEF LockInv
<1>2. ASSUME NEW w \in Requests, CheckCoupon(w) PROVE LockInv'
  <2>1. /\ \A v \in Requests \ {w} : req'[v] = req[v]
        /\ At(w, "check")
        /\ UNCHANGED <<coupon, use>>
    BY <1>2 DEF CheckCoupon, GoTo, Finish, TypeInv, ReqInv
  <2>2. CASE Finish(w)
    <3>1. req'[w].pc = "idle"
      BY <2>2 DEF Finish, Idle, TypeInv, ReqInv
    <3> QED BY SMTT(30), <2>1, <3>1 DEF LockInv, Holds, At, Redeemable, UsesOf, UsesBy, Redeeming
  <2>3. CASE Redeemable(req[w].coupon, req[w].customer) /\ GoTo(w, "use")
    <3>1. /\ req'[w].pc = "use"
          /\ req'[w].coupon = req[w].coupon
          /\ req'[w].customer = req[w].customer
      BY <2>3 DEF GoTo, TypeInv, ReqInv, Task
    <3>2. \A v, z \in Requests, c \in Coupons : Holds(v, c)' /\ Holds(z, c)' => v = z
      BY <2>1, <3>1 DEF LockInv, Holds, At, Redeeming
    <3>3. ASSUME NEW v \in Requests, At(v, "use")'
          PROVE  Redeemable(req[v].coupon, req[v].customer)'
      <4>1. req'[v].coupon = req[v].coupon /\ req'[v].customer = req[v].customer
        BY <2>1, <3>1
      <4>2. Redeemable(req[v].coupon, req[v].customer)
        BY <2>1, <2>3, <3>3 DEF LockInv, At
      <4> QED BY <2>1, <4>1, <4>2 DEF Redeemable, UsesOf, UsesBy
    <3> QED BY <3>2, <3>3 DEF LockInv
  <2> QED BY <1>2, <2>2, <2>3 DEF CheckCoupon
<1>3. ASSUME NEW w \in Requests, NEW x \in UseIds, UseCoupon(w, x) PROVE LockInv'
  <2>1. /\ \A v \in Requests \ {w} : req'[v] = req[v]
        /\ req'[w].pc = "idle"
        /\ UNCHANGED coupon
        /\ At(w, "use")
        /\ req[w].coupon \in Coupons
    BY <1>3 DEF UseCoupon, Finish, Idle, At, TypeInv, ReqInv, WellFormed, Redeeming
  <2>2. ASSUME NEW v \in Requests, At(v, "use")'
        PROVE  Redeemable(req[v].coupon, req[v].customer)'
    <3>1. v # w /\ req'[v] = req[v] /\ At(v, "use")
      BY <2>1, <2>2 DEF At
    <3>2. req[v].coupon \in Coupons /\ req[v].customer \in Customers
      BY <3>1 DEF At, TypeInv, ReqInv, WellFormed, Redeeming
    <3>3. req[v].coupon # req[w].coupon
      BY <2>1, <3>1, <3>2 DEF LockInv, Holds, At, Redeeming
    <3>4. /\ UsesOf(req[v].coupon)' = UsesOf(req[v].coupon)
          /\ UsesBy(req[v].coupon, req[v].customer)' = UsesBy(req[v].coupon, req[v].customer)
      <4>1. \A c \in Coupons : c # req[w].coupon => UsesOf(c)' = UsesOf(c)
        BY <1>3, CountsGrow
      <4>2. \A c \in Coupons, u \in Customers : c # req[w].coupon => UsesBy(c, u)' = UsesBy(c, u)
        BY <1>3, CountsGrow
      <4>3. UNCHANGED <<req[v].coupon, req[v].customer>>
        BY <3>1
      <4> QED BY <3>2, <3>3, <4>1, <4>2, <4>3 DEF UsesOf, UsesBy
    <3>5. Redeemable(req[v].coupon, req[v].customer)
      BY <3>1 DEF LockInv
    <3> QED BY <2>1, <3>1, <3>4, <3>5 DEF Redeemable, UsesOf, UsesBy
  <2>3. \A v, z \in Requests, c \in Coupons : Holds(v, c)' /\ Holds(z, c)' => v = z
    BY <2>1 DEF LockInv, Holds, Redeeming
  <2> QED BY <2>2, <2>3 DEF LockInv
<1>4. ASSUME NEW c \in Coupons, NEW row \in CouponRow, EditCoupon(c, row) PROVE LockInv'
  <2>1. /\ UNCHANGED <<req, use>>
        /\ \A b \in Coupons \ {c} : coupon'[b] = coupon[b]
        /\ \A w \in Requests : ~Holds(w, c)
    BY <1>4 DEF EditCoupon, CouponFree, Holds, Redeeming, TypeInv, RowInv
  <2>2. \A w \in Requests : At(w, "use") => req[w].coupon \in Coupons \ {c}
    BY <2>1 DEF At, Holds, Redeeming, TypeInv, ReqInv, WellFormed
  <2> QED BY <2>1, <2>2 DEF LockInv, Holds, At, Redeemable, UsesOf, UsesBy
<1>5. ASSUME NEW w \in Requests, UNCHANGED <<coupon, use>>,
             \A v \in Requests \ {w} : req'[v] = req[v], req'[w].pc \notin Redeeming
      PROVE  LockInv'
  <2>1. \A v \in Requests, c \in Coupons : Holds(v, c)' => v # w /\ Holds(v, c)
    BY <1>5 DEF Holds
  <2>2. \A v, z \in Requests, c \in Coupons : Holds(v, c)' /\ Holds(z, c)' => v = z
    BY <2>1 DEF LockInv
  <2>3. ASSUME NEW v \in Requests, At(v, "use")'
        PROVE  Redeemable(req[v].coupon, req[v].customer)'
    <3>1. v # w /\ req'[v] = req[v] /\ At(v, "use")
      BY <1>5, <2>3 DEF At, Redeeming
    <3>2. Redeemable(req[v].coupon, req[v].customer)
      BY <3>1 DEF LockInv
    <3> QED BY <1>5, <3>1, <3>2 DEF Redeemable, UsesOf, UsesBy
  <2> QED BY <2>2, <2>3 DEF LockInv
<1>6. ASSUME UNCHANGED <<coupon, use, req>> PROVE LockInv'
  BY <1>6 DEF LockInv, Holds, At, Redeemable, UsesOf, UsesBy
<1>7. ASSUME NEW w \in Requests, UNCHANGED <<coupon, use>>,
             \/ Finish(w)
             \/ \E payee \in Payees, kind \in Kinds :
                    \E found \in SUBSET PendingOf(payee, kind) : ReadPending(w, payee, kind, found)
             \/ \E d \in Deals, payee \in Payees : ReadDeal(w, d, payee)
      PROVE  LockInv'
  <2>1. /\ \A v \in Requests \ {w} : req'[v] = req[v]
        /\ req'[w].pc \notin Redeeming
    <3>1. CASE Finish(w)
      BY <3>1 DEF Finish, Idle, Redeeming, TypeInv, ReqInv
    <3>2. ASSUME NEW t, t.pc \notin Redeeming, Start(w, t)
          PROVE  /\ \A v \in Requests \ {w} : req'[v] = req[v]
                 /\ req'[w].pc \notin Redeeming
      BY <3>2 DEF Start, TypeInv, ReqInv
    <3>3. ASSUME NEW payee \in Payees, NEW found
          PROVE  [Idle EXCEPT !.pc = "stamp", !.items = found, !.payee = payee].pc \notin Redeeming
      BY DEF Idle, Redeeming
    <3>4. ASSUME NEW payee \in Payees, NEW d \in Deals
          PROVE  [Idle EXCEPT !.pc = "grant", !.deal = d, !.payee = payee].pc \notin Redeeming
      BY DEF Idle, Redeeming
    <3> QED BY <1>7, <3>1, <3>2, <3>3, <3>4 DEF ReadPending, ReadDeal
  <2> QED BY <1>5, <1>7, <2>1
<1> QED BY <1>1, <1>2, <1>3, <1>4, <1>6, <1>7
        DEF Next, ShopStep, OfficeStep, AnyEdit, AnyDeal, CouponStep, PayoutStep, DealStep,
            ReadPending, ReadDeal, Stamp, GrantRate, Owing, SetRate, CloseDeal, SetDeal, Fail, vars

(***************************************************************************)
(* For any number of scans at a time, a coupon is only redeemed while it   *)
(* is active, and within both its limits.                                  *)
(***************************************************************************)
THEOREM WithinLimits == Spec => RedeemedWithinLimits
<1> DEFINE Step ==
        \A c \in Coupons :
            UsesOf(c)' # UsesOf(c) =>
                /\ coupon[c].active
                /\ coupon[c].limit = NoLimit \/ UsesOf(c)' <= coupon[c].limit
                /\ \A u \in Customers :
                    UsesBy(c, u)' # UsesBy(c, u) =>
                        coupon[c].each = NoLimit \/ UsesBy(c, u)' <= coupon[c].each
<1>1. TypeInv /\ LockInv /\ [Next]_vars => Step
  <2> SUFFICES ASSUME TypeInv, LockInv, [Next]_vars, NEW c \in Coupons, UsesOf(c)' # UsesOf(c)
               PROVE  /\ coupon[c].active
                      /\ coupon[c].limit = NoLimit \/ UsesOf(c)' <= coupon[c].limit
                      /\ \A u \in Customers :
                            UsesBy(c, u)' # UsesBy(c, u) =>
                                coupon[c].each = NoLimit \/ UsesBy(c, u)' <= coupon[c].each
    BY SMTT(30)
  <2>1. PICK w \in Requests, x \in UseIds : UseCoupon(w, x)
    <3>1. CASE UNCHANGED use
      BY <3>1 DEF UsesOf
    <3> QED BY <3>1
            DEF Next, ShopStep, OfficeStep, AnyEdit, AnyDeal, CouponStep, PayoutStep, DealStep,
                LockCoupon, CheckCoupon, ReadPending, ReadDeal, Stamp, GrantRate, EditCoupon, Owing,
                SetRate, CloseDeal, SetDeal, Fail, vars
  <2>2. c = req[w].coupon /\ UsesOf(c)' = UsesOf(c) + 1
    BY <2>1, CountsGrow
  <2>3. Redeemable(c, req[w].customer)
    BY <2>1, <2>2 DEF LockInv, UseCoupon
  <2>4. UsesOf(c) \in Nat /\ \A u \in Customers : UsesBy(c, u) \in Nat
    <3>1. /\ IsFiniteSet({y \in UseIds : use[y].coupon = c})
          /\ \A u \in Customers : IsFiniteSet({y \in UseIds : use[y].coupon = c /\ use[y].customer = u})
      BY LimitsAssumption, FS_Subset
    <3> QED BY <3>1, FS_CardinalityType DEF UsesOf, UsesBy
  <2>5. coupon[c].limit \in Nat /\ coupon[c].each \in Nat
    BY LimitsAssumption DEF TypeInv, RowInv, CouponRow
  <2>6. coupon[c].active /\ (coupon[c].limit = NoLimit \/ UsesOf(c)' <= coupon[c].limit)
    BY <2>2, <2>3, <2>4, <2>5 DEF Redeemable, Within
  <2>7. ASSUME NEW u \in Customers, UsesBy(c, u)' # UsesBy(c, u)
        PROVE  coupon[c].each = NoLimit \/ UsesBy(c, u)' <= coupon[c].each
    <3>1. u = req[w].customer /\ UsesBy(c, u)' = UsesBy(c, u) + 1
      BY <2>1, <2>7, CountsGrow
    <3> QED BY <2>3, <2>4, <2>5, <3>1 DEF Redeemable, Within
  <2> QED BY <2>6, <2>7
<1>2. Init => LockInv
  BY DEF Init, LockInv, Holds, At, Idle, Redeeming
<1>3. TypeInv /\ LockInv /\ [Next]_vars => LockInv' /\ [Step]_vars
  BY <1>1, LockStep
<1> QED BY <1>2, <1>3, TypeInvariant, PTL DEF Spec, RedeemedWithinLimits
=============================================================================
