--------------------------- MODULE AccountsProofs --------------------------
(***************************************************************************)
(* What holds of Accounts for every set of requests, capabilities, coupons *)
(* and keys, and every length of trial, period and grace.                  *)
(***************************************************************************)
EXTENDS Accounts, FiniteSetTheorems, SequenceTheorems, WellFoundedInduction, TLAPS

(***************************************************************************)
(* The most recent of some rows is one of them: of the sets of rows that   *)
(* are no older than some row, one has no smaller one.                     *)
(***************************************************************************)
LEMMA LatestIn ==
    ASSUME NEW n \in Nat, NEW ids \in SUBSET (1..n)
    PROVE  Latest(ids) \in ids \cup {0} /\ (Latest(ids) = 0 <=> ids = {})
<1>1. CASE ids = {}
  BY <1>1 DEF Latest
<1>2. CASE ids # {}
  <2> DEFINE since(i) == {j \in ids : i <= j}
             tails == {since(i) : i \in ids}
             fin == FiniteSubsetsOf(1..n)
  <2>1. tails \subseteq fin /\ tails # {}
    <3>1. IsFiniteSet(1..n)
      BY FS_Interval
    <3>2. \A S \in SUBSET (1..n) : IsFiniteSet(S)
      BY <3>1, FS_Subset
    <3>3. \A i \in ids : since(i) \in SUBSET (1..n)
      OBVIOUS
    <3> QED BY <1>2, <3>2, <3>3 DEF FiniteSubsetsOf
  <2>2. PICK x \in tails : \A y \in tails : <<y, x>> \notin StrictSubsetOrdering(1..n)
    <3> HIDE DEF tails
    <3> QED BY <2>1, FS_StrictSubsetOrderingWellFounded, WFMin
  <2>3. PICK i \in ids : x = since(i)
    OBVIOUS
  <2>4. ASSUME NEW j \in ids, ~(j <= i) PROVE FALSE
    <3>1. since(j) \in tails /\ since(j) \in fin /\ since(i) \in fin
      BY <2>1
    <3>2. i \in Int /\ j \in Int /\ i < j
      BY <2>4
    <3>3. ASSUME NEW k \in since(j) PROVE k \in since(i)
      <4>1. k \in ids /\ k \in Int /\ j <= k
        OBVIOUS
      <4>2. i <= k
        BY <3>2, <4>1
      <4> QED BY <4>1, <4>2
    <3>4. i \in since(i) /\ i \notin since(j)
      BY <3>2
    <3>5. <<since(j), since(i)>> \in StrictSubsetOrdering(1..n)
      BY <3>1, <3>3, <3>4 DEF StrictSubsetOrdering
    <3> QED BY <2>2, <2>3, <3>1, <3>5
  <2>5. Latest(ids) \in ids
    BY <1>2, <2>4 DEF Latest
  <2> QED BY <1>2, <2>5
<1> QED BY <1>1, <1>2

---------------------------------------------------------------------------
(***************************************************************************)
(* TypeOK is inductive once the rows a task carries are known to exist.    *)
(* Rows are never deleted, so they go on existing.                         *)
(***************************************************************************)
RowInv ==
    /\ business \in BusinessStatuses \cup {None}
    /\ capability \in [Capabilities -> {"ON", "OFF", None}]
    /\ contract \in Seq(Contract)
    /\ membership \in Membership
    /\ redeemed \in [AdminCoupons -> Nat]
    /\ bill \in Seq(Bill)
    /\ card \in Seq(Card)
    /\ \A p \in 1..Len(card) : card[p].bill \in 1..Len(bill)
    /\ now \in Nat
    /\ sweep \in Sweep

Signing == {"signing", "signFirst", "signMore"}
Setting == {"govern", "set"}
OnCard == {"confirm", "charge"}
OnBill == {"attach", "verify", "reject", "open", "settle"} \cup OnCard
Special == Signing \cup Setting \cup OnBill \cup {"renew", "redeem"}

WellFormed(t) ==
    /\ t \in Task
    /\ t.pc \in Setting => t.cap # None
    /\ t.pc \in Signing => t.contract \in 1..Len(contract)
    /\ t.pc \in OnBill => t.bill \in 1..Len(bill)
    /\ t.pc \in OnCard => t.card \in 1..Len(card)
    /\ t.pc \in {"renew", "open"} => t.key \in PayKeys
    /\ t.pc = "renew" => t.due # 0
    /\ t.pc = "redeem" => t.coupon # None

ReqInv == req \in [Requests -> Task] /\ \A w \in Requests : WellFormed(req[w])

TypeInv == RowInv /\ ReqInv

RowsGrow ==
    /\ Len(contract') \in Nat /\ Len(contract) <= Len(contract')
    /\ Len(bill') \in Nat /\ Len(bill) <= Len(bill')
    /\ Len(card') \in Nat /\ Len(card) <= Len(card')

LEMMA NoneIsNoCapability == None \notin Capabilities
BY GateAssumption

LEMMA Lengths ==
    ASSUME TypeInv
    PROVE  Len(contract) \in Nat /\ Len(bill) \in Nat /\ Len(card) \in Nat
BY LenProperties DEF TypeInv, RowInv

LEMMA IdleTask == Idle \in Task /\ Idle.pc = "idle" /\ Idle.period = NoPeriod
BY DEF Idle, Task, Steps, NoPeriod, Period

LEMMA PlainTask ==
    ASSUME NEW t \in Task, t.pc \notin Special
    PROVE  WellFormed(t)
BY DEF WellFormed, Special, Signing, Setting, OnBill, OnCard

LEMMA IdleWellFormed == WellFormed(Idle)
BY IdleTask, PlainTask DEF Special, Signing, Setting, OnBill, OnCard

LEMMA StillWellFormed ==
    ASSUME TypeInv, RowsGrow, NEW t, WellFormed(t)
    PROVE  WellFormed(t)'
BY Lengths DEF RowsGrow, WellFormed

LEMMA TaskWritten ==
    ASSUME TypeInv, RowsGrow, NEW w \in Requests, NEW t, WellFormed(t)',
           req' = [req EXCEPT ![w] = t]
    PROVE  ReqInv'
<1>1. ASSUME NEW x, WellFormed(x) PROVE WellFormed(x)'
  BY <1>1, StillWellFormed
<1> QED BY <1>1 DEF TypeInv, ReqInv, WellFormed

LEMMA TaskMove ==
    ASSUME TypeInv, RowsGrow, NEW w \in Requests, NEW t, WellFormed(t),
           req' = [req EXCEPT ![w] = t]
    PROVE  ReqInv'
BY StillWellFormed, TaskWritten

LEMMA TaskEnd ==
    ASSUME TypeInv, RowsGrow, NEW w \in Requests, Finish(w)
    PROVE  ReqInv'
BY TaskMove, IdleWellFormed DEF Finish

LEMMA TaskKept == ASSUME TypeInv, RowsGrow, UNCHANGED req PROVE ReqInv'
<1>1. ASSUME NEW x, WellFormed(x) PROVE WellFormed(x)'
  BY <1>1, Lengths DEF RowsGrow, WellFormed
<1> QED BY <1>1 DEF TypeInv, ReqInv, WellFormed

\* What a task becomes when only its step changes.
LEMMA TaskAt ==
    ASSUME NEW t \in Task, NEW step \in Steps
    PROVE  /\ [t EXCEPT !.pc = step] \in Task
           /\ [t EXCEPT !.pc = step].pc = step
           /\ [t EXCEPT !.pc = step].caps = t.caps
           /\ [t EXCEPT !.pc = step].cap = t.cap
           /\ [t EXCEPT !.pc = step].on = t.on
           /\ [t EXCEPT !.pc = step].contract = t.contract
           /\ [t EXCEPT !.pc = step].bill = t.bill
           /\ [t EXCEPT !.pc = step].card = t.card
           /\ [t EXCEPT !.pc = step].period = t.period
BY DEF Task

LEMMA PlainMove ==
    ASSUME TypeInv, RowsGrow, NEW w \in Requests, NEW step \in Steps \ Special, GoTo(w, step)
    PROVE  ReqInv'
<1>1. req[w] \in Task
  BY DEF TypeInv, ReqInv
<1>2. [req[w] EXCEPT !.pc = step] \in Task /\ [req[w] EXCEPT !.pc = step].pc = step
  BY <1>1, TaskAt
<1>3. WellFormed([req[w] EXCEPT !.pc = step])
  BY <1>2, PlainTask
<1> QED BY <1>3, TaskMove DEF GoTo

LEMMA SettingMove ==
    ASSUME TypeInv, RowsGrow, NEW w \in Requests, NEW step \in Setting, GoTo(w, step),
           req[w].cap # None
    PROVE  ReqInv'
<1>1. step \in Steps
  BY DEF Setting, Steps
<1>2. WellFormed([req[w] EXCEPT !.pc = step])
  BY <1>1, TaskAt DEF TypeInv, ReqInv, WellFormed, Special, Signing, Setting, OnBill, OnCard
<1> QED BY <1>2, TaskMove DEF GoTo

LEMMA SigningMove ==
    ASSUME TypeInv, RowsGrow, NEW w \in Requests, NEW step \in Signing, GoTo(w, step),
           req[w].contract \in 1..Len(contract)
    PROVE  ReqInv'
<1>1. step \in Steps
  BY DEF Signing, Steps
<1>2. WellFormed([req[w] EXCEPT !.pc = step])
  BY <1>1, TaskAt DEF TypeInv, ReqInv, WellFormed, Special, Signing, Setting, OnBill, OnCard
<1> QED BY <1>2, TaskMove DEF GoTo

LEMMA CardMove ==
    ASSUME TypeInv, RowsGrow, NEW w \in Requests, NEW step \in {"charge", "settle"}, GoTo(w, step),
           req[w].bill \in 1..Len(bill), req[w].card \in 1..Len(card)
    PROVE  ReqInv'
<1>1. step \in Steps
  BY DEF Steps
<1>2. WellFormed([req[w] EXCEPT !.pc = step])
  BY <1>1, TaskAt DEF TypeInv, ReqInv, WellFormed, Special, Signing, Setting, OnBill, OnCard
<1> QED BY <1>2, TaskMove DEF GoTo

---------------------------------------------------------------------------
(***************************************************************************)
(* What a step may do to a table: append a row, or write one in place.     *)
(* Bills keep their period and what was settled of them; contracts keep    *)
(* what they cover, and never wait for a signature again; a card payment   *)
(* stays with its bill.                                                    *)
(***************************************************************************)
ContractsKept ==
    /\ contract' \in Seq(Contract)
    /\ Len(contract) <= Len(contract')
    /\ \A k \in 1..Len(contract) :
        /\ contract'[k].covers = contract[k].covers
        /\ contract[k].status # "PENDING_SIGNATURE" => contract'[k].status # "PENDING_SIGNATURE"

BillsKept ==
    /\ bill' \in Seq(Bill)
    /\ Len(bill) <= Len(bill')
    /\ \A b \in 1..Len(bill) :
        /\ bill'[b].period = bill[b].period
        /\ bill[b].settled <= bill'[b].settled

CardsKept ==
    /\ card' \in Seq(Card)
    /\ Len(card) <= Len(card')
    /\ \A p \in 1..Len(card) : card'[p].bill = card[p].bill
    /\ \A p \in 1..Len(card') : p > Len(card) => card'[p].bill \in 1..Len(bill)

LEMMA Rows ==
    ASSUME TypeInv
    PROVE  /\ bill \in [1..Len(bill) -> Bill] /\ DOMAIN bill = 1..Len(bill)
           /\ card \in [1..Len(card) -> Card] /\ DOMAIN card = 1..Len(card)
           /\ contract \in [1..Len(contract) -> Contract]
           /\ DOMAIN contract = 1..Len(contract)
BY LenProperties DEF TypeInv, RowInv

LEMMA BillAppended ==
    ASSUME TypeInv, NEW row \in Bill, bill' = Append(bill, row)
    PROVE  /\ BillsKept /\ Len(bill') = Len(bill) + 1 /\ bill'[Len(bill) + 1] = row
           /\ \A b \in 1..Len(bill) : bill'[b] = bill[b]
<1>1. bill \in Seq(Bill)
  BY DEF TypeInv, RowInv
<1>2. /\ bill' \in Seq(Bill)
      /\ Len(bill') = Len(bill) + 1
      /\ \A j \in 1..Len(bill) : bill'[j] = bill[j]
      /\ bill'[Len(bill) + 1] = row
  BY <1>1, AppendProperties
<1>3. \A j \in 1..Len(bill) : bill[j].settled \in Nat
  BY Rows DEF Bill
<1> QED BY <1>2, <1>3, Lengths DEF BillsKept

LEMMA BillWritten ==
    ASSUME TypeInv, NEW b \in 1..Len(bill), NEW row \in Bill, bill' = [bill EXCEPT ![b] = row],
           row.period = bill[b].period, bill[b].settled <= row.settled
    PROVE  BillsKept /\ Len(bill') = Len(bill) /\ bill'[b] = row
           /\ \A c \in 1..Len(bill) : c # b => bill'[c] = bill[c]
<1>1. bill \in Seq(Bill)
  BY DEF TypeInv, RowInv
<1>2. /\ bill' \in Seq(Bill)
      /\ Len(bill') = Len(bill)
      /\ \A j \in 1..Len(bill) : bill'[j] = IF j = b THEN row ELSE bill[j]
  BY <1>1, ExceptSeq
<1>3. \A j \in 1..Len(bill) : bill[j].settled \in Nat
  BY Rows DEF Bill
<1> QED BY <1>2, <1>3, Lengths DEF BillsKept

LEMMA BillsSame == ASSUME TypeInv, UNCHANGED bill PROVE BillsKept /\ Len(bill') = Len(bill)
<1>1. \A j \in 1..Len(bill) : bill[j].settled \in Nat
  BY Rows DEF Bill
<1> QED BY <1>1, Lengths DEF BillsKept, TypeInv, RowInv

LEMMA NewBillRow ==
    ASSUME NEW period \in Period, NEW due \in Nat \ {0}
    PROVE  /\ NewBill(period, due) \in Bill
           /\ [NewBill(period, due) EXCEPT !.receipt = TRUE, !.method = "MANUAL"] \in Bill
BY DEF NewBill, Bill

LEMMA SettledRow ==
    ASSUME NEW row \in Bill, NEW mark \in {"MANUAL", "CARD", None}
    PROVE  [row EXCEPT !.status = "VERIFIED", !.settled = row.settled + 1, !.method = mark] \in Bill
<1>1. row.settled + 1 \in Nat
  BY DEF Bill
<1> QED BY <1>1 DEF Bill

LEMMA SettleEffect ==
    ASSUME TypeInv, NEW b \in 1..Len(bill), NEW method \in {None, "CARD"}, Settle(b, method)
    PROVE  /\ BillsKept /\ Len(bill') = Len(bill)
           /\ bill'[b].settled > 0
           /\ membership' \in Membership
           /\ membership'.period.start = bill[b].period.end
<1>1. bill[b] \in Bill
  BY SMTT(30), Rows
<1> DEFINE row == [bill[b] EXCEPT !.status  = "VERIFIED",
                                  !.settled = bill[b].settled + 1,
                                  !.method  = IF method = None THEN bill[b].method ELSE method]
<1>2. row \in Bill /\ row.period = bill[b].period /\ row.settled = bill[b].settled + 1
  <2>1. bill[b].method \in {"MANUAL", "CARD", None}
    BY <1>1 DEF Bill
  <2> DEFINE mark == IF method = None THEN bill[b].method ELSE method
  <2>2. mark \in {"MANUAL", "CARD", None}
    BY <2>1
  <2> HIDE DEF mark
  <2>3. [bill[b] EXCEPT !.status = "VERIFIED", !.settled = bill[b].settled + 1, !.method = mark] \in Bill
    BY <1>1, <2>2, SettledRow
  <2> QED BY <1>1, <2>3 DEF Bill, mark
<1>3. bill' = [bill EXCEPT ![b] = row]
  BY Rows DEF Settle
<1>4. bill[b].settled \in Nat /\ bill[b].settled <= row.settled /\ row.settled > 0
  BY <1>1, <1>2 DEF Bill
<1>5. BillsKept /\ Len(bill') = Len(bill) /\ bill'[b] = row
  BY <1>2, <1>3, <1>4, BillWritten
<1>6. NextPeriod(bill[b].period) \in Period /\ NextPeriod(bill[b].period).start = bill[b].period.end
  BY <1>1, TimesAssumption DEF NextPeriod, Bill, Period
<1>7. membership \in Membership
  BY DEF TypeInv, RowInv
<1>8. /\ membership' \in Membership
      /\ membership'.period = NextPeriod(bill[b].period)
  BY <1>6, <1>7 DEF Settle, Membership, Statuses, GoodStanding
<1> QED BY <1>4, <1>5, <1>6, <1>8

LEMMA BillStep == ASSUME TypeInv, [Next]_vars PROVE BillsKept
<1> USE DEF TypeInv
<1>1. ASSUME NEW w \in Requests, Attach(w) \/ Reject(w) PROVE BillsKept
  <2>1. req[w].bill \in 1..Len(bill)
    BY <1>1 DEF Attach, Reject, At, ReqInv, WellFormed, OnBill
  <2>2. bill[req[w].bill] \in Bill
    BY <2>1, Rows
  <2>3. bill[req[w].bill].settled \in Nat
    BY <2>2 DEF Bill
  <2>4. CASE Attach(w)
    <3> DEFINE row == [bill[req[w].bill] EXCEPT !.receipt = TRUE, !.method = "MANUAL"]
    <3>1. row \in Bill /\ row.period = bill[req[w].bill].period
          /\ row.settled = bill[req[w].bill].settled
      BY <2>2 DEF Bill
    <3>2. bill' = [bill EXCEPT ![req[w].bill] = row]
      BY <2>4, Rows DEF Attach
    <3>3. bill[req[w].bill].settled <= row.settled
      BY <2>3, <3>1
    <3> HIDE DEF row
    <3> QED BY <2>1, <3>1, <3>2, <3>3, BillWritten
  <2>5. CASE Reject(w)
    <3> DEFINE row == [bill[req[w].bill] EXCEPT !.status = "REJECTED"]
    <3>1. row \in Bill /\ row.period = bill[req[w].bill].period
          /\ row.settled = bill[req[w].bill].settled
      BY <2>2 DEF Bill
    <3>2. bill' = [bill EXCEPT ![req[w].bill] = row]
      BY <2>5, Rows DEF Reject
    <3>3. bill[req[w].bill].settled <= row.settled
      BY <2>3, <3>1
    <3> HIDE DEF row
    <3> QED BY <2>1, <3>1, <3>2, <3>3, BillWritten
  <2> QED BY <1>1, <2>4, <2>5
<1>2. ASSUME NEW w \in Requests, Submit(w) PROVE BillsKept
  <2>1. req[w].period \in Period /\ req[w].due \in Nat
    BY DEF ReqInv, Task
  <2>2. DueOr(req[w].due) \in Nat \ {0}
    BY <2>1, TimesAssumption DEF DueOr, RowInv
  <2> QED BY <1>2, <2>1, <2>2, NewBillRow, BillAppended DEF Submit
<1>3. ASSUME NEW w \in Requests, Renew(w) PROVE BillsKept
  <2>1. req[w].period \in Period /\ req[w].due \in Nat \ {0}
    BY <1>3 DEF Renew, At, ReqInv, WellFormed, Task
  <2> QED BY <1>3, <2>1, NewBillRow, BillAppended DEF Renew
<1>4. ASSUME NEW w \in Requests, Verify(w) \/ CardSettle(w) PROVE BillsKept
  <2>1. req[w].bill \in 1..Len(bill)
    BY <1>4 DEF Verify, CardSettle, At, ReqInv, WellFormed, OnBill
  <2> QED BY <1>4, <2>1, SettleEffect DEF Verify, CardSettle
<1>5. ASSUME NEW w \in Requests, Open(w) PROVE BillsKept
  <2>1. req[w].bill \in 1..Len(bill)
    BY <1>5 DEF Open, At, ReqInv, WellFormed, OnBill
  <2>2. bill[req[w].bill] \in Bill
    BY <2>1, Rows
  <2> DEFINE row == [bill[req[w].bill] EXCEPT !.method = "CARD"]
  <2>3. row \in Bill /\ row.period = bill[req[w].bill].period
        /\ row.settled = bill[req[w].bill].settled /\ bill[req[w].bill].settled \in Nat
    BY <2>2 DEF Bill
  <2>4. bill' = [bill EXCEPT ![req[w].bill] = row] \/ UNCHANGED bill
    BY <1>5, Rows DEF Open
  <2>5. bill[req[w].bill].settled <= row.settled
    BY <2>3
  <2> HIDE DEF row
  <2> QED BY <2>1, <2>3, <2>4, <2>5, BillWritten, BillsSame
<1>6. ASSUME CreateBill PROVE BillsKept
  <2>1. sweep.period \in Period /\ now + Grace \in Nat \ {0}
    BY TimesAssumption DEF RowInv, Sweep
  <2> QED BY <1>6, <2>1, NewBillRow, BillAppended DEF CreateBill
<1>7. CASE UNCHANGED bill
  BY <1>7, BillsSame
<1> QED BY ZenonT(40), <1>1, <1>2, <1>3, <1>4, <1>5, <1>6, <1>7
        DEF Next, RequestStep, ContractStep, MembershipStep, Decision, OtherHands, SweepStep,
            Apply, GrantDefaults, Join, ApproveRead, Approve, StartTrial, Decide, LookForGoverning,
            LookForPending, Draft, Propose, AddRead, OperateRead, SetsDirectly, Set, Cascade,
            SignRead, SignAs, SignFirst, SignMore, SetStatus, RedeemRead, RedeemWrite, SubmitRead,
            ReviewRead, CardRead, ConfirmRead, ConfirmAgain, Charge, ProviderReports, SweepStarts,
            InitializePeriod, FindDue, LookUp, FindOverdue, FlagPastDue, SweepFails, Tick, Fail,
            billing, profile, vars

LEMMA ContractRow == ASSUME TypeInv, [Next]_vars PROVE ContractsKept
<1>0. contract \in Seq(Contract)
  BY DEF TypeInv, RowInv
<1>1. ASSUME NEW w \in Requests, Propose(w) PROVE ContractsKept
  <2> DEFINE row == [covers |-> req[w].caps \cap Material, status |-> "PENDING_SIGNATURE"]
  <2>1. row \in Contract
    BY DEF Contract
  <2>2. contract' = Append(contract, row)
    BY <1>1 DEF Propose
  <2> HIDE DEF row
  <2>3. /\ contract' \in Seq(Contract)
        /\ Len(contract') = Len(contract) + 1
        /\ \A k \in 1..Len(contract) : contract'[k] = contract[k]
    BY <1>0, <2>1, <2>2, AppendProperties
  <2> QED BY <2>3, Lengths DEF ContractsKept
<1>2. ASSUME NEW w \in Requests, SignFirst(w) PROVE ContractsKept
  <2> DEFINE k == req[w].contract
             row == [contract[k] EXCEPT !.status = "SIGNED"]
  <2>1. k \in 1..Len(contract)
    BY <1>2 DEF SignFirst, At, TypeInv, ReqInv, WellFormed, Signing
  <2>2. contract[k] \in Contract
    BY <2>1, Rows
  <2>3. row \in Contract /\ row.covers = contract[k].covers /\ row.status = "SIGNED"
    BY <2>2 DEF Contract
  <2>4. contract' = [contract EXCEPT ![k] = row]
    BY <1>2, Rows DEF SignFirst
  <2> HIDE DEF k, row
  <2>5. /\ contract' \in Seq(Contract)
        /\ Len(contract') = Len(contract)
        /\ \A j \in 1..Len(contract) : contract'[j] = IF j = k THEN row ELSE contract[j]
    BY <1>0, <2>1, <2>3, <2>4, ExceptSeq
  <2> QED BY <2>3, <2>5, Lengths DEF ContractsKept
<1>3. ASSUME NEW w \in Requests, SignMore(w) PROVE ContractsKept
  <2> DEFINE k == req[w].contract
             row(j) == IF j \in Retired(k) THEN [contract[j] EXCEPT !.status = "SUPERSEDED"]
                       ELSE IF j = k THEN [contract[j] EXCEPT !.status = "SIGNED"]
                       ELSE contract[j]
  <2>1. k \in 1..Len(contract)
    BY <1>3 DEF SignMore, At, TypeInv, ReqInv, WellFormed, Signing
  <2>2. contract' = [j \in 1..Len(contract) |-> row(j)]
    BY <1>3, Rows DEF SignMore
  <2>3. ASSUME NEW j \in 1..Len(contract)
        PROVE  /\ row(j) \in Contract /\ row(j).covers = contract[j].covers
               /\ contract[j].status # "PENDING_SIGNATURE" => row(j).status # "PENDING_SIGNATURE"
    <3>1. contract[j] \in Contract
      BY Rows
    <3> QED BY <3>1 DEF Contract
  <2> HIDE DEF row
  <2>4. contract' \in Seq(Contract)
    BY <2>2, <2>3, IsASeq, Lengths
  <2>5. Len(contract') = Len(contract)
    BY <2>2, <2>4, LenProperties, Lengths
  <2> QED BY <2>2, <2>3, <2>4, <2>5, Lengths DEF ContractsKept
<1>4. CASE UNCHANGED contract
  BY <1>0, <1>4, Lengths DEF ContractsKept
<1> QED BY ZenonT(40), <1>1, <1>2, <1>3, <1>4
        DEF Next, RequestStep, ContractStep, MembershipStep, Decision, OtherHands, SweepStep,
            Apply, GrantDefaults, Join, ApproveRead, Approve, StartTrial, Decide, LookForGoverning,
            LookForPending, Draft, AddRead, OperateRead, SetsDirectly, Set, Cascade, SignRead,
            SignAs, SetStatus, RedeemRead, RedeemWrite, SubmitRead, Attach, Submit, ReviewRead,
            Verify, Reject, CardRead, Renew, Open, ConfirmRead, ConfirmAgain, Charge, CardSettle,
            ProviderReports, SweepStarts, InitializePeriod, FindDue, LookUp, CreateBill,
            FindOverdue, FlagPastDue, SweepFails, Tick, Fail, billing, profile, vars

LEMMA CardWritten ==
    ASSUME TypeInv, NEW p \in 1..Len(card), NEW status \in CardStatuses,
           card' = [card EXCEPT ![p].status = status]
    PROVE  CardsKept
<1> DEFINE row == [card[p] EXCEPT !.status = status]
<1>1. card[p] \in Card
  BY Rows
<1>2. row \in Card /\ row.bill = card[p].bill
  BY <1>1 DEF Card
<1>3. card' = [card EXCEPT ![p] = row]
  BY Rows
<1>4. card \in Seq(Card)
  BY DEF TypeInv, RowInv
<1> HIDE DEF row
<1>5. /\ card' \in Seq(Card)
      /\ Len(card') = Len(card)
      /\ \A j \in 1..Len(card) : card'[j] = IF j = p THEN row ELSE card[j]
  BY <1>2, <1>3, <1>4, ExceptSeq
<1> QED BY <1>2, <1>5, Lengths DEF CardsKept

LEMMA CardRow == ASSUME TypeInv, [Next]_vars PROVE CardsKept
<1>0. card \in Seq(Card)
  BY DEF TypeInv, RowInv
<1>1. CASE UNCHANGED card
  BY <1>0, <1>1, Lengths DEF CardsKept
<1>2. ASSUME NEW w \in Requests, Open(w) PROVE CardsKept
  <2> DEFINE row == [bill |-> req[w].bill, key |-> req[w].key, status |-> "PENDING"]
  <2>1. req[w].bill \in 1..Len(bill) /\ req[w].key \in PayKeys
    BY <1>2 DEF Open, At, TypeInv, ReqInv, WellFormed, OnBill
  <2>2. row \in Card /\ row.bill \in 1..Len(bill)
    BY <2>1, Lengths DEF Card, CardStatuses
  <2>3. card' = Append(card, row) \/ UNCHANGED card
    BY <1>2 DEF Open
  <2> HIDE DEF row
  <2>4. CASE card' = Append(card, row)
    <3>1. /\ card' \in Seq(Card)
          /\ Len(card') = Len(card) + 1
          /\ \A j \in 1..Len(card) : card'[j] = card[j]
          /\ card'[Len(card) + 1] = row
      BY <1>0, <2>2, <2>4, AppendProperties
    <3>2. \A p \in 1..Len(card') : p > Len(card) => p = Len(card) + 1
      BY <3>1, Lengths
    <3> QED BY <2>2, <3>1, <3>2, Lengths DEF CardsKept
  <2> QED BY <1>1, <2>3, <2>4
<1>3. ASSUME NEW w \in Requests, Charge(w) PROVE CardsKept
  <2>1. req[w].card \in 1..Len(card)
    BY <1>3 DEF Charge, At, TypeInv, ReqInv, WellFormed, OnCard
  <2>2. PICK outcome \in Outcomes : card' = [card EXCEPT ![req[w].card].status = outcome]
    BY <1>3 DEF Charge
  <2> QED BY <2>1, <2>2, CardWritten DEF Outcomes, CardStatuses
<1>4. ASSUME NEW p \in 1..Len(card), NEW status \in CardStatuses, ProviderReports(p, status)
      PROVE  CardsKept
  BY <1>4, CardWritten DEF ProviderReports
<1> QED BY ZenonT(40), <1>1, <1>2, <1>3, <1>4
        DEF Next, RequestStep, ContractStep, MembershipStep, Decision, OtherHands, SweepStep,
            Apply, GrantDefaults, Join, ApproveRead, Approve, StartTrial, Decide, LookForGoverning,
            LookForPending, Draft, Propose, AddRead, OperateRead, SetsDirectly, Set, Cascade,
            SignRead, SignAs, SignFirst, SignMore, SetStatus, RedeemRead, RedeemWrite, SubmitRead,
            Attach, Submit, ReviewRead, Verify, Reject, CardRead, Renew, ConfirmRead, ConfirmAgain,
            CardSettle, SweepStarts, InitializePeriod, FindDue, LookUp, CreateBill, FindOverdue,
            FlagPastDue, SweepFails, Tick, Fail, billing, profile, vars

LEMMA RowsOnlyGrow == ASSUME TypeInv, [Next]_vars PROVE RowsGrow
BY BillStep, ContractRow, CardRow, LenProperties DEF RowsGrow, BillsKept, ContractsKept, CardsKept

\* The date a coupon moves is the only part of a membership that it writes.
LEMMA MembershipRow == ASSUME TypeInv, [Next]_vars PROVE membership' \in Membership
<1>0. membership \in Membership /\ sweep.period \in Period
  BY DEF TypeInv, RowInv, Sweep
<1>1. CASE UNCHANGED membership
  BY <1>0, <1>1
<1>2. ASSUME StartsTrial PROVE membership' \in Membership
  <2>1. now + TrialLength \in Nat
    BY TimesAssumption DEF TypeInv, RowInv
  <2> QED BY <1>0, <1>2, <2>1
     DEF StartsTrial, NoMembership, NoPeriod, Membership, Period, Statuses, GoodStanding
<1>3. ASSUME NEW status \in SetByHand, SetStatus(status) PROVE membership' \in Membership
  BY <1>0, <1>3, InputsAssumption DEF SetStatus, Membership
<1>4. ASSUME NEW w \in Requests, RedeemWrite(w) PROVE membership' \in Membership
  <2>1. req[w].due \in Nat /\ req[w].period \in Period
    BY DEF TypeInv, ReqInv, Task
  <2>2. req[w].due + Extension \in Nat /\ req[w].period.end + Extension \in Nat
    BY <2>1, TimesAssumption DEF Period
  <2>3. [membership EXCEPT !.trialEnd = req[w].due + Extension] \in Membership
    BY <1>0, <2>2 DEF Membership
  <2>4. [membership EXCEPT !.period.end = req[w].period.end + Extension] \in Membership
    BY <1>0, <2>2 DEF Membership, Period
  <2> QED BY <1>0, <1>4, <2>3, <2>4 DEF RedeemWrite
<1>5. ASSUME NEW w \in Requests, Verify(w) \/ CardSettle(w) PROVE membership' \in Membership
  <2>1. req[w].bill \in 1..Len(bill)
    BY <1>5 DEF Verify, CardSettle, At, TypeInv, ReqInv, WellFormed, OnBill
  <2> QED BY <1>5, <2>1, SettleEffect DEF Verify, CardSettle
<1>6. ASSUME InitializePeriod PROVE membership' \in Membership
  BY <1>0, <1>6 DEF InitializePeriod, Membership
<1>7. ASSUME FlagPastDue PROVE membership' \in Membership
  BY <1>0, <1>7 DEF FlagPastDue, Membership, Statuses
<1> QED BY ZenonT(40), <1>1, <1>2, <1>3, <1>4, <1>5, <1>6, <1>7
        DEF Next, RequestStep, ContractStep, MembershipStep, Decision, OtherHands, SweepStep,
            Apply, GrantDefaults, Join, ApproveRead, Approve, StartTrial, Decide, LookForGoverning,
            LookForPending, Draft, Propose, AddRead, OperateRead, SetsDirectly, Set, Cascade,
            SignRead, SignAs, SignFirst, SignMore, RedeemRead, SubmitRead, Attach, Submit,
            ReviewRead, Reject, CardRead, Renew, Open, ConfirmRead, ConfirmAgain, Charge,
            ProviderReports, SweepStarts, FindDue, LookUp, CreateBill, FindOverdue, SweepFails,
            Tick, Fail, billing, profile, vars

LEMMA RowStep == ASSUME TypeInv, [Next]_vars PROVE RowInv'
<1>0. RowInv /\ ReqInv
  BY DEF TypeInv
<1>1. business' \in BusinessStatuses \cup {None}
  <2>1. CASE UNCHANGED business
    BY <1>0, <2>1 DEF RowInv
  <2>2. ASSUME NEW w \in Requests, NEW answers, Apply(w, answers) \/ Approve(w) \/ SignFirst(w)
        PROVE  business' \in BusinessStatuses
    BY <2>2 DEF Apply, Approve, SignFirst, BusinessStatuses
  <2>3. ASSUME Decision PROVE business' \in BusinessStatuses
    BY <2>3 DEF Decision, Decide, BusinessStatuses
  <2>4. ASSUME OtherHands PROVE UNCHANGED business
    BY <2>4 DEF OtherHands, SetStatus, ProviderReports, profile
  <2> QED BY ZenonT(40), <2>1, <2>2, <2>3, <2>4
        DEF Next, RequestStep, ContractStep, MembershipStep, SweepStep,
            GrantDefaults, Join, ApproveRead, StartTrial, LookForGoverning,
            LookForPending, Draft, Propose, AddRead, OperateRead, SetsDirectly, Set, Cascade,
            SignRead, SignAs, SignMore, RedeemRead, RedeemWrite, SubmitRead,
            Attach, Submit, ReviewRead, Verify, Reject, CardRead, Renew, Open, ConfirmRead,
            ConfirmAgain, Charge, CardSettle, SweepStarts, InitializePeriod,
            FindDue, LookUp, CreateBill, FindOverdue, FlagPastDue, SweepFails, Tick, Fail,
            billing, profile, vars
<1>2. capability' \in [Capabilities -> {"ON", "OFF", None}]
  <2>0. capability \in [Capabilities -> {"ON", "OFF", None}]
    BY <1>0 DEF RowInv
  <2>1. ASSUME NEW w \in Requests, GrantDefaults(w) \/ Set(w) \/ Cascade(w) \/ SignMore(w)
        PROVE  capability' \in [Capabilities -> {"ON", "OFF", None}]
    BY <2>0, <2>1 DEF GrantDefaults, OnOff, Set, Cascade, SignMore
  <2> QED BY ZenonT(40), <2>0, <2>1
       DEF  Next, RequestStep, ContractStep, MembershipStep, Decision, OtherHands, SweepStep,
            Apply, Join, ApproveRead, Approve, StartTrial, Decide, LookForGoverning,
            LookForPending, Draft, Propose, AddRead, OperateRead, SetsDirectly,
            SignRead, SignAs, SignFirst, SetStatus, RedeemRead, RedeemWrite, SubmitRead,
            Attach, Submit, ReviewRead, Verify, Reject, CardRead, Renew, Open, ConfirmRead,
            ConfirmAgain, Charge, CardSettle, ProviderReports, SweepStarts, InitializePeriod,
            FindDue, LookUp, CreateBill, FindOverdue, FlagPastDue, SweepFails, Tick, Fail,
            billing, profile, vars
<1>3. redeemed' \in [AdminCoupons -> Nat]
  <2>1. CASE UNCHANGED redeemed
    BY <1>0, <2>1 DEF RowInv
  <2>2. ASSUME NEW w \in Requests, RedeemWrite(w) PROVE redeemed' \in [AdminCoupons -> Nat]
    <3>1. redeemed' = [redeemed EXCEPT ![req[w].coupon] = @ + 1]
      BY <2>2 DEF RedeemWrite
    <3>2. req[w].coupon \in AdminCoupons
      BY <1>0, <2>2 DEF RedeemWrite, At, ReqInv, WellFormed, Task
    <3>3. redeemed[req[w].coupon] + 1 \in Nat
      BY <1>0, <3>2 DEF RowInv
    <3> QED BY <1>0, <3>1, <3>2, <3>3 DEF RowInv
  <2> QED BY ZenonT(40), <2>1, <2>2
        DEF Next, RequestStep, ContractStep, MembershipStep, Decision, OtherHands, SweepStep,
            Apply, GrantDefaults, Join, ApproveRead, Approve, StartTrial, Decide, LookForGoverning,
            LookForPending, Draft, Propose, AddRead, OperateRead, SetsDirectly, Set, Cascade,
            SignRead, SignAs, SignFirst, SignMore, SetStatus, RedeemRead, SubmitRead,
            Attach, Submit, ReviewRead, Verify, Reject, CardRead, Renew, Open, ConfirmRead,
            ConfirmAgain, Charge, CardSettle, ProviderReports, SweepStarts, InitializePeriod,
            FindDue, LookUp, CreateBill, FindOverdue, FlagPastDue, SweepFails, Tick, Fail,
            billing, profile, vars
<1>4. now' \in Nat
  <2>1. CASE UNCHANGED now
    BY <1>0, <2>1 DEF RowInv
  <2>2. ASSUME Tick PROVE now' \in Nat
    BY <1>0, <2>2 DEF Tick, RowInv
  <2>3. ASSUME OtherHands PROVE UNCHANGED now
    BY <2>3 DEF OtherHands, SetStatus, ProviderReports, profile
  <2> QED BY ZenonT(40), <2>1, <2>2, <2>3
        DEF Next, RequestStep, ContractStep, MembershipStep, Decision, SweepStep,
            Apply, GrantDefaults, Join, ApproveRead, Approve, StartTrial, Decide, LookForGoverning,
            LookForPending, Draft, Propose, AddRead, OperateRead, SetsDirectly, Set, Cascade,
            SignRead, SignAs, SignFirst, SignMore, RedeemRead, RedeemWrite, SubmitRead,
            Attach, Submit, ReviewRead, Verify, Reject, CardRead, Renew, Open, ConfirmRead,
            ConfirmAgain, Charge, CardSettle, SweepStarts, InitializePeriod,
            FindDue, LookUp, CreateBill, FindOverdue, FlagPastDue, SweepFails, Fail,
            billing, profile, vars
<1>5. sweep' \in Sweep
  <2>0. sweep \in Sweep /\ membership \in Membership /\ Resting \in Sweep
    BY <1>0 DEF RowInv, Resting, NoPeriod, Sweep, SweepSteps, Period
  <2>1. CASE SweepStarts
    BY <2>0, <2>1 DEF SweepStarts, CreatedAt, Sweep, SweepSteps, Membership, NoPeriod, Period
  <2>2. CASE InitializePeriod
    BY <2>2 DEF InitializePeriod, Sweep, SweepSteps, NoPeriod, Period
  <2>3. CASE FindDue
    BY <2>0, <2>3 DEF FindDue, Sweep, SweepSteps, Membership
  <2>4. CASE LookUp \/ CreateBill
    BY <2>0, <2>4 DEF LookUp, CreateBill, SweepTo, Sweep, SweepSteps
  <2>5. CASE FindOverdue \/ FlagPastDue \/ SweepFails
    BY <2>0, <2>5 DEF FindOverdue, FlagPastDue, SweepFails, Sweep, SweepSteps
  <2> QED BY ZenonT(40), <2>0, <2>1, <2>2, <2>3, <2>4, <2>5
       DEF  Next, RequestStep, ContractStep, MembershipStep, Decision, OtherHands, SweepStep,
            Apply, GrantDefaults, Join, ApproveRead, Approve, StartTrial, Decide, LookForGoverning,
            LookForPending, Draft, Propose, AddRead, OperateRead, SetsDirectly, Set, Cascade,
            SignRead, SignAs, SignFirst, SignMore, SetStatus, RedeemRead, RedeemWrite, SubmitRead,
            Attach, Submit, ReviewRead, Verify, Reject, CardRead, Renew, Open, ConfirmRead,
            ConfirmAgain, Charge, CardSettle, ProviderReports, Tick, Fail,
            billing, profile, vars
<1>6. \A p \in 1..Len(card') : card'[p].bill \in 1..Len(bill')
  <2>1. CardsKept /\ BillsKept
    BY CardRow, BillStep
  <2>2. Len(bill') \in Nat /\ Len(card') \in Nat
    BY RowsOnlyGrow DEF RowsGrow
  <2>3. ASSUME NEW p \in 1..Len(card') PROVE card'[p].bill \in 1..Len(bill)
    <3>1. CASE p <= Len(card)
      BY <1>0, <2>1, <2>2, <3>1, Lengths DEF CardsKept, RowInv
    <3>2. CASE p > Len(card)
      BY <2>1, <3>2 DEF CardsKept
    <3> QED BY <2>2, <3>1, <3>2, Lengths
  <2> QED BY <2>1, <2>2, <2>3, Lengths DEF BillsKept
<1> QED BY <1>1, <1>2, <1>3, <1>4, <1>5, <1>6, MembershipRow, ContractRow, BillStep, CardRow
        DEF RowInv, ContractsKept, BillsKept, CardsKept

---------------------------------------------------------------------------
(* The tasks: what each step leaves in req *)

LEMMA TaskStart ==
    ASSUME TypeInv, RowsGrow, NEW w \in Requests, NEW t, WellFormed(t), Start(w, t)
    PROVE  ReqInv'
BY TaskMove DEF Start

LEMMA SigningTask ==
    ASSUME NEW k \in 1..Len(contract), Len(contract) \in Nat
    PROVE  WellFormed([Idle EXCEPT !.pc = "signing", !.contract = k])
<1>0. k \in Nat
  OBVIOUS
<1>1. [Idle EXCEPT !.pc = "signing", !.contract = k] \in Task
  BY <1>0, IdleTask DEF Task, Steps
<1> QED BY <1>1, IdleTask DEF Task, WellFormed, Signing, Setting, OnBill, OnCard

\* The tasks that requests about money start with.
LEMMA RedeemTask ==
    ASSUME NEW c \in AdminCoupons, NEW period \in Period, NEW due \in Nat
    PROVE  WellFormed([Idle EXCEPT !.pc = "redeem", !.coupon = c, !.period = period, !.due = due])
<1>1. c # None
  BY InputsAssumption DEF None
<1>2. [Idle EXCEPT !.pc = "redeem", !.coupon = c, !.period = period, !.due = due] \in Task
  BY IdleTask DEF Task, Steps
<1> QED BY <1>1, <1>2, IdleTask DEF Task, WellFormed, Signing, Setting, OnBill, OnCard

LEMMA BillTask ==
    ASSUME NEW b \in 1..Len(bill), Len(bill) \in Nat, NEW step \in {"attach", "verify", "reject"}
    PROVE  WellFormed([Idle EXCEPT !.pc = step, !.bill = b])
<1>0. b \in Nat /\ step \in Steps
  BY DEF Steps
<1>1. [Idle EXCEPT !.pc = step, !.bill = b] \in Task
  BY <1>0, IdleTask DEF Task, Steps
<1> QED BY <1>1, IdleTask DEF Task, WellFormed, Signing, Setting, OnBill, OnCard

LEMMA RenewedTask ==
    ASSUME NEW t \in Task, NEW b \in Nat
    PROVE  /\ [t EXCEPT !.pc = "open", !.bill = b] \in Task
           /\ [t EXCEPT !.pc = "open", !.bill = b].pc = "open"
           /\ [t EXCEPT !.pc = "open", !.bill = b].bill = b
           /\ [t EXCEPT !.pc = "open", !.bill = b].key = t.key
BY DEF Task, Steps

LEMMA SubmitTask ==
    ASSUME NEW period \in Period, NEW due \in Nat
    PROVE  WellFormed([Idle EXCEPT !.pc = "submit", !.period = period, !.due = due])
<1>1. [Idle EXCEPT !.pc = "submit", !.period = period, !.due = due] \in Task
  BY IdleTask DEF Task, Steps
<1> QED BY <1>1, IdleTask DEF Task, WellFormed, Signing, Setting, OnBill, OnCard

LEMMA OpenTask ==
    ASSUME NEW b \in 1..Len(bill), Len(bill) \in Nat, NEW key \in PayKeys
    PROVE  WellFormed([Idle EXCEPT !.pc = "open", !.bill = b, !.key = key])
<1>0. b \in Nat
  OBVIOUS
<1>1. [Idle EXCEPT !.pc = "open", !.bill = b, !.key = key] \in Task
  BY <1>0, IdleTask DEF Task, Steps
<1> QED BY <1>1, IdleTask DEF Task, WellFormed, Signing, Setting, OnBill, OnCard

LEMMA RenewTask ==
    ASSUME NEW period \in Period, NEW due \in Nat \ {0}, NEW key \in PayKeys
    PROVE  WellFormed([Idle EXCEPT !.pc = "renew", !.period = period, !.due = due, !.key = key])
<1>1. [Idle EXCEPT !.pc = "renew", !.period = period, !.due = due, !.key = key] \in Task
  BY IdleTask DEF Task, Steps
<1> QED BY <1>1, IdleTask DEF Task, WellFormed, Signing, Setting, OnBill, OnCard

LEMMA ConfirmTask ==
    ASSUME NEW p \in 1..Len(card), Len(card) \in Nat, NEW b \in 1..Len(bill), Len(bill) \in Nat
    PROVE  WellFormed([Idle EXCEPT !.pc = "confirm", !.card = p, !.bill = b])
<1>0. p \in Nat /\ b \in Nat
  OBVIOUS
<1>1. [Idle EXCEPT !.pc = "confirm", !.card = p, !.bill = b] \in Task
  BY <1>0, IdleTask DEF Task, Steps
<1> QED BY <1>1, IdleTask DEF Task, WellFormed, Signing, Setting, OnBill, OnCard

LEMMA DuePeriodIn == ASSUME TypeInv PROVE DuePeriod \in Period
BY DEF DuePeriod, CreatedAt, TypeInv, RowInv, Membership, Period

LEMMA LatestBill ==
    ASSUME TypeInv, NEW period
    PROVE  /\ Latest(BillsOf(period)) \in 0..Len(bill)
           /\ Latest(BillsOf(period)) # 0 => Latest(BillsOf(period)) \in 1..Len(bill)
<1>1. BillsOf(period) \in SUBSET (1..Len(bill))
  BY Rows DEF BillsOf
<1>2. Len(bill) \in Nat
  BY Lengths
<1>3. BillsOf(period) # {} => Latest(BillsOf(period)) \in BillsOf(period)
  BY <1>1, <1>2, LatestIn
<1>4. BillsOf(period) = {} => Latest(BillsOf(period)) = 0
  BY <1>1, <1>2, LatestIn
<1> QED BY <1>1, <1>2, <1>3, <1>4

LEMMA LatestContract ==
    ASSUME TypeInv, NEW status
    PROVE  /\ Latest(WithStatus(status)) \in WithStatus(status) \cup {0}
           /\ WithStatus(status) \in SUBSET (1..Len(contract))
           /\ Latest(WithStatus(status)) = 0 <=> WithStatus(status) = {}
<1>1. WithStatus(status) \in SUBSET (1..Len(contract))
  BY Rows DEF WithStatus
<1> QED BY <1>1, LatestIn, Lengths

LEMMA ContractReq ==
    ASSUME TypeInv, RowsGrow, NEW w \in Requests, ContractStep(w)
    PROVE  ReqInv'
<1>0. req[w] \in Task /\ WellFormed(req[w])
  BY DEF TypeInv, ReqInv
<1>1. ASSUME NEW answers \in SUBSET Capabilities, Apply(w, answers) PROVE ReqInv'
  <2>1. WellFormed([Idle EXCEPT !.pc = "onboard", !.caps = answers])
    <3>1. [Idle EXCEPT !.pc = "onboard", !.caps = answers] \in Task
      BY IdleTask DEF Task, Steps
    <3> QED BY <3>1, IdleTask DEF Task, WellFormed, Signing, Setting, OnBill, OnCard
  <2> QED BY <1>1, <2>1, TaskStart DEF Apply
<1>2. CASE GrantDefaults(w)
  <2>1. "join" \in Steps \ Special
    BY DEF Steps, Special, Signing, Setting, OnBill, OnCard
  <2> QED BY <1>2, <2>1, PlainMove, TaskEnd DEF GrantDefaults
<1>3. CASE Join(w) \/ Propose(w) \/ SignFirst(w) \/ SignMore(w)
  BY <1>3, TaskEnd DEF Join, Propose, SignFirst, SignMore
<1>4. CASE ApproveRead(w)
  <2> DEFINE caps == {c \in Material : Enabled(c)}
  <2>1. [Idle EXCEPT !.pc = "approve", !.caps = caps] \in Task
    <3>1. caps \in SUBSET Capabilities
      BY DEF Capabilities
    <3> HIDE DEF caps
    <3> QED BY <3>1, IdleTask DEF Task, Steps
  <2> HIDE DEF caps
  <2>2. WellFormed([Idle EXCEPT !.pc = "approve", !.caps = caps])
    BY <2>1, IdleTask DEF Task, WellFormed, Signing, Setting, OnBill, OnCard
  <2>3. Start(w, [Idle EXCEPT !.pc = "approve", !.caps = caps])
    BY <1>4 DEF ApproveRead, caps
  <2> QED BY <2>2, <2>3, TaskStart
<1>5. CASE Approve(w)
  <2>1. {"trial", "find"} \subseteq Steps \ Special
    BY DEF Steps, Special, Signing, Setting, OnBill, OnCard
  <2> QED BY <1>5, <2>1, PlainMove DEF Approve
<1>6. CASE StartTrial(w)
  <2>1. "find" \in Steps \ Special /\ "govern" \in Setting
    BY DEF Steps, Special, Signing, Setting, OnBill, OnCard
  <2> QED BY <1>6, <2>1, PlainMove, SettingMove DEF StartTrial
<1>7. CASE LookForGoverning(w)
  <2>1. "find" \in Steps \ Special /\ "set" \in Setting
    BY DEF Steps, Special, Signing, Setting, OnBill, OnCard
  <2>2. req[w].cap # None
    BY <1>0, <1>7 DEF LookForGoverning, At, WellFormed, Setting
  <2> QED BY <1>7, <2>1, <2>2, PlainMove, SettingMove DEF LookForGoverning
<1>8. CASE LookForPending(w)
  <2>1. {"draft", "propose"} \subseteq Steps \ Special
    BY DEF Steps, Special, Signing, Setting, OnBill, OnCard
  <2> QED BY <1>8, <2>1, PlainMove, TaskEnd DEF LookForPending
<1>9. CASE Draft(w)
  <2> DEFINE caps == {c \in Material : Enabled(c)}
             t == [req[w] EXCEPT !.pc = "propose", !.caps = caps]
  <2>1. caps \in SUBSET Capabilities
    BY DEF Capabilities
  <2>2. req' = [req EXCEPT ![w] = t]
    BY <1>9 DEF Draft
  <2> HIDE DEF caps
  <2>3. t \in Task /\ t.pc = "propose"
    BY <1>0, <2>1 DEF Task, Steps
  <2>4. WellFormed(t)
    BY <2>3, PlainTask DEF Special, Signing, Setting, OnBill, OnCard
  <2> QED BY <2>2, <2>4, TaskMove
<1>10. ASSUME NEW c \in Capabilities, AddRead(w, c) PROVE ReqInv'
  <2> DEFINE caps == {c} \cup {d \in Material : Enabled(d)}
             step == IF c = "DIRECTORY_LISTING" THEN "trial" ELSE "govern"
             t == [Idle EXCEPT !.pc = step, !.cap = c, !.on = TRUE, !.caps = caps]
  <2>1. caps \in SUBSET Capabilities /\ step \in {"trial", "govern"}
    BY DEF Capabilities
  <2>2. Start(w, t)
    BY <1>10 DEF AddRead
  <2> HIDE DEF caps, step
  <2>3. t \in Task /\ t.pc = step /\ t.cap = c
    BY <2>1, IdleTask DEF Task, Steps
  <2>4. WellFormed(t)
    BY <2>1, <2>3, NoneIsNoCapability DEF WellFormed, Signing, Setting, OnBill, OnCard
  <2> QED BY <2>2, <2>4, TaskStart
<1>11. ASSUME NEW c \in Capabilities, NEW on \in BOOLEAN, OperateRead(w, c) \/ SetsDirectly(w, c, on)
       PROVE  ReqInv'
  <2>1. ASSUME NEW o \in BOOLEAN PROVE WellFormed([Idle EXCEPT !.pc = "set", !.cap = c, !.on = o])
    <3>1. [Idle EXCEPT !.pc = "set", !.cap = c, !.on = o] \in Task
      BY IdleTask DEF Task, Steps
    <3> QED BY <3>1, IdleTask, NoneIsNoCapability
            DEF Task, WellFormed, Signing, Setting, OnBill, OnCard
  <2> QED BY <1>11, <2>1, TaskStart DEF OperateRead, SetsDirectly
<1>12. CASE Set(w)
  <2>1. CASE Finish(w)
    BY <2>1, TaskEnd
  <2>2. CASE ~Finish(w)
    <3> DEFINE caps == Depending(req[w].cap)
               t == [req[w] EXCEPT !.pc = "cascade", !.caps = caps]
    <3>1. req' = [req EXCEPT ![w] = t]
      BY <1>12, <2>2 DEF Set
    <3>2. caps \in SUBSET Capabilities
      BY DEF Depending, Capabilities
    <3> HIDE DEF caps
    <3>3. t \in Task /\ t.pc = "cascade"
      BY <1>0, <3>2 DEF Task, Steps
    <3>4. WellFormed(t)
      BY <3>3, PlainTask DEF Special, Signing, Setting, OnBill, OnCard
    <3> QED BY <3>1, <3>4, TaskMove
  <2> QED BY <2>1, <2>2
<1>13. CASE Cascade(w)
  <2>1. CASE Finish(w)
    BY <2>1, TaskEnd
  <2>2. ASSUME NEW c \in req[w].caps, req' = [req EXCEPT ![w].caps = @ \ {c}] PROVE ReqInv'
    <3> DEFINE t == [req[w] EXCEPT !.caps = req[w].caps \ {c}]
    <3>1. req' = [req EXCEPT ![w] = t]
      BY <2>2
    <3>2. t \in Task /\ t.pc = "cascade"
      BY <1>0, <1>13 DEF Cascade, At, Task
    <3>3. WellFormed(t)
      BY <3>2, PlainTask DEF Special, Signing, Setting, OnBill, OnCard
    <3> QED BY <3>1, <3>3, TaskMove
  <2> QED BY <1>13, <2>1, <2>2 DEF Cascade
<1>14. CASE SignRead(w)
  <2>1. Pending \in 1..Len(contract)
    BY <1>14, LatestContract DEF SignRead, Pending
  <2> QED BY <1>14, <2>1, SigningTask, TaskStart, Lengths DEF SignRead
<1>15. CASE SignAs(w)
  <2>1. {"signFirst", "signMore"} \subseteq Signing /\ req[w].contract \in 1..Len(contract)
    BY <1>0, <1>15 DEF SignAs, At, WellFormed, Signing
  <2> QED BY <1>15, <2>1, SigningMove DEF SignAs
<1> QED BY <1>1, <1>2, <1>3, <1>4, <1>5, <1>6, <1>7, <1>8, <1>9, <1>10, <1>11, <1>12, <1>13,
           <1>14, <1>15 DEF ContractStep

LEMMA MembershipReq ==
    ASSUME TypeInv, RowsGrow, NEW w \in Requests, MembershipStep(w)
    PROVE  ReqInv'
<1>0. req[w] \in Task /\ WellFormed(req[w])
  BY DEF TypeInv, ReqInv
<1>1. ASSUME NEW c \in AdminCoupons, RedeemRead(w, c) PROVE ReqInv'
  <2>1. membership.period \in Period /\ membership.trialEnd \in Nat
    BY DEF TypeInv, RowInv, Membership
  <2> QED BY <1>1, <2>1, RedeemTask, TaskStart DEF RedeemRead
<1>2. CASE SubmitRead(w)
  <2> DEFINE b == Latest(BillsOf(DuePeriod))
  <2>1. b \in 0..Len(bill) /\ (b # 0 => b \in 1..Len(bill))
    BY LatestBill
  <2>2. InheritedDue(b) \in Nat
    BY <2>1, Rows DEF InheritedDue, Bill
  <2>3. Start(w, IF b # 0 /\ bill[b].status = "PENDING"
                 THEN [Idle EXCEPT !.pc = "attach", !.bill = b]
                 ELSE [Idle EXCEPT !.pc = "submit", !.period = DuePeriod, !.due = InheritedDue(b)])
    BY <1>2 DEF SubmitRead
  <2> HIDE DEF b
  <2>4. CASE b # 0 /\ bill[b].status = "PENDING"
    <3>1. WellFormed([Idle EXCEPT !.pc = "attach", !.bill = b])
      BY <2>1, <2>4, BillTask, Lengths
    <3> QED BY SMTT(30), <2>3, <2>4, <3>1, TaskStart
  <2>5. CASE ~(b # 0 /\ bill[b].status = "PENDING")
    <3>1. WellFormed([Idle EXCEPT !.pc = "submit", !.period = DuePeriod, !.due = InheritedDue(b)])
      BY <2>2, DuePeriodIn, SubmitTask
    <3> QED BY <2>3, <2>5, <3>1, TaskStart
  <2> QED BY <2>4, <2>5
<1>3. ASSUME NEW b \in 1..Len(bill), NEW step \in {"verify", "reject"}, ReviewRead(w, b, step)
      PROVE  ReqInv'
  BY <1>3, BillTask, TaskStart, Lengths DEF ReviewRead
<1>4. ASSUME NEW k \in PayKeys, CardRead(w, k) PROVE ReqInv'
  <2> DEFINE b == Latest(BillsOf(DuePeriod))
  <2>1. b \in 1..Len(bill)
    BY <1>4, LatestBill DEF CardRead
  <2>2. bill[b].due \in Nat \ {0}
    BY <2>1, Rows DEF Bill
  <2>3. \/ Start(w, [Idle EXCEPT !.pc = "open", !.bill = b, !.key = k])
        \/ Start(w, [Idle EXCEPT !.pc = "renew", !.period = DuePeriod, !.due = bill[b].due, !.key = k])
    BY <1>4 DEF CardRead
  <2> HIDE DEF b
  <2>4. WellFormed([Idle EXCEPT !.pc = "open", !.bill = b, !.key = k])
    BY <2>1, OpenTask, Lengths
  <2>5. WellFormed([Idle EXCEPT !.pc = "renew", !.period = DuePeriod, !.due = bill[b].due, !.key = k])
    BY <2>2, DuePeriodIn, RenewTask
  <2> QED BY <2>3, <2>4, <2>5, TaskStart
<1>5. CASE ConfirmRead(w)
  <2>1. Len(card) \in 1..Len(card)
    BY <1>5, Lengths, EmptySeq DEF ConfirmRead, TypeInv, RowInv
  <2>2. card[Len(card)].bill \in 1..Len(bill)
    BY <2>1 DEF TypeInv, RowInv
  <2>3. WellFormed([Idle EXCEPT !.pc = "confirm", !.card = Len(card), !.bill = card[Len(card)].bill])
    BY <2>1, <2>2, ConfirmTask, Lengths
  <2> QED BY <1>5, <2>3, TaskStart DEF ConfirmRead
<1>6. CASE RedeemWrite(w) \/ Attach(w) \/ Submit(w) \/ Verify(w) \/ Reject(w) \/ Open(w) \/ CardSettle(w)
  BY <1>6, TaskEnd DEF RedeemWrite, Attach, Submit, Verify, Reject, Open, CardSettle
<1>7. CASE Renew(w)
  <2>1. req[w].key \in PayKeys /\ req[w].due \in Nat \ {0} /\ req[w].period \in Period
    BY <1>0, <1>7 DEF Renew, At, WellFormed, Task
  <2>2. Len(bill) + 1 \in Nat
    BY Lengths
  <2>3. PICK t \in Task :
          /\ t = [req[w] EXCEPT !.pc = "open", !.bill = Len(bill) + 1]
          /\ t.pc = "open" /\ t.bill = Len(bill) + 1 /\ t.key \in PayKeys
    <3> DEFINE u == [req[w] EXCEPT !.pc = "open", !.bill = Len(bill) + 1]
    <3>1. u \in Task /\ u.pc = "open" /\ u.bill = Len(bill) + 1 /\ u.key = req[w].key
      BY <1>0, <2>2, RenewedTask
    <3> HIDE DEF u
    <3>2. \E t \in Task : t = u /\ t.pc = "open" /\ t.bill = Len(bill) + 1 /\ t.key \in PayKeys
      BY <2>1, <3>1
    <3> QED BY <3>2 DEF u
  <2>4. req' = [req EXCEPT ![w] = t]
    BY <1>7, <2>3 DEF Renew
  <2>5. Len(bill') = Len(bill) + 1
    BY <1>7, <2>1, NewBillRow, BillAppended DEF Renew
  <2>6. t.bill \in 1..Len(bill')
    BY <2>2, <2>3, <2>5, Lengths
  <2>7. WellFormed(t)'
    BY <2>3, <2>6 DEF WellFormed, Signing, Setting, OnBill, OnCard
  <2> QED BY <2>4, <2>7, TaskWritten
<1>8. CASE ConfirmAgain(w) \/ Charge(w)
  <2>1. req[w].bill \in 1..Len(bill) /\ req[w].card \in 1..Len(card)
    BY <1>0, <1>8 DEF ConfirmAgain, Charge, At, WellFormed, OnBill, OnCard
  <2> QED BY <1>8, <2>1, CardMove, TaskEnd DEF ConfirmAgain, Charge
<1> QED BY <1>1, <1>2, <1>3, <1>4, <1>5, <1>6, <1>7, <1>8 DEF MembershipStep

LEMMA ReqStep == ASSUME TypeInv, [Next]_vars PROVE ReqInv'
<1>0. RowsGrow
  BY RowsOnlyGrow
<1>1. CASE UNCHANGED req
  BY <1>0, <1>1, TaskKept
<1>2. ASSUME NEW w \in Requests, ContractStep(w) PROVE ReqInv'
  BY <1>0, <1>2, ContractReq
<1>3. ASSUME NEW w \in Requests, MembershipStep(w) PROVE ReqInv'
  BY <1>0, <1>3, MembershipReq
<1>4. ASSUME NEW w \in Requests, Fail(w) PROVE ReqInv'
  BY <1>0, <1>4, TaskEnd DEF Fail
<1> QED BY <1>1, <1>2, <1>3, <1>4
        DEF Next, RequestStep, Decision, OtherHands, SweepStep, Decide, SetStatus,
            ProviderReports, SweepStarts, InitializePeriod, FindDue, LookUp, CreateBill,
            FindOverdue, FlagPastDue, SweepFails, Tick, vars

LEMMA TypeInit == Init => TypeInv
<1> SUFFICES ASSUME Init PROVE TypeInv
  OBVIOUS
<1>1. RowInv
  BY EmptySeq DEF Init, CreatedAt, RowInv, NoMembership, NoPeriod, Membership, Period, Resting, Sweep,
                  SweepSteps, BusinessStatuses
<1>2. ReqInv
  BY IdleTask, IdleWellFormed DEF Init, ReqInv
<1> QED BY <1>1, <1>2 DEF TypeInv

(***************************************************************************)
(* Tasks and rows are well formed, and a task only ever remembers rows     *)
(* that exist: no request reads what was never written.                    *)
(***************************************************************************)
THEOREM TypeInvariant == Spec => []TypeInv
<1>1. TypeInv /\ [Next]_vars => TypeInv'
  BY RowStep, ReqStep DEF TypeInv
<1> QED BY <1>1, TypeInit, PTL DEF Spec

(***************************************************************************)
(* The tables of an account only ever hold rows of their schema.           *)
(***************************************************************************)
THEOREM TypeCorrect == Spec => []TypeOK
<1>1. TypeInv => TypeOK
  BY DEF TypeInv, RowInv, ReqInv, TypeOK
<1> QED BY <1>1, TypeInvariant, PTL

---------------------------------------------------------------------------
(***************************************************************************)
(* PaidUpToPeriod is inductive once it holds of every period that a bill,  *)
(* a task or the sweep carries: any of them may be written later.          *)
(***************************************************************************)
Covered(start) == \A day \in CreatedAt..(start - 1) : PaidFor(day)

PaidInv ==
    /\ Covered(membership.period.start)
    /\ Covered(sweep.period.start)
    /\ \A b \in 1..Len(bill) : Covered(bill[b].period.start)
    /\ \A w \in Requests : Covered(req[w].period.start)

\* Nothing is owed for the time before the trial.
LEMMA NothingToPay == Covered(0) /\ Covered(CreatedAt)
BY DEF Covered, CreatedAt

\* Bills stay, with their periods; what was settled stays settled.
LEMMA CoveredStays ==
    ASSUME TypeInv, BillsKept, NEW start, Covered(start)
    PROVE  Covered(start)'
<1>1. ASSUME NEW day, PaidFor(day) PROVE PaidFor(day)'
  <2>1. PICK b \in 1..Len(bill) :
          bill[b].settled > 0 /\ bill[b].period.start <= day /\ day < bill[b].period.end
    BY <1>1, Rows DEF PaidFor
  <2>2. bill[b].settled \in Nat /\ b \in 1..Len(bill') /\ bill'[b] \in Bill
    <3>1. bill[b].settled \in Nat
      BY Rows DEF Bill
    <3>2. Len(bill') \in Nat /\ bill' \in [1..Len(bill') -> Bill]
      BY LenProperties DEF BillsKept
    <3>3. b \in 1..Len(bill')
      BY <3>2, Lengths DEF BillsKept
    <3> QED BY <3>1, <3>2, <3>3
  <2>3. bill'[b].settled \in Nat /\ bill'[b].settled > 0
    BY <2>1, <2>2 DEF BillsKept, Bill
  <2>4. bill'[b].period = bill[b].period /\ b \in DOMAIN bill'
    BY <2>2, LenProperties DEF BillsKept
  <2> QED BY <2>1, <2>3, <2>4 DEF PaidFor
<1> QED BY <1>1 DEF Covered

\* Settling a bill covers all up to the end of its period.
LEMMA SettleCovers ==
    ASSUME TypeInv, NEW b \in 1..Len(bill), NEW method \in {None, "CARD"}, Settle(b, method),
           Covered(bill[b].period.start)
    PROVE  Covered(membership.period.start)'
<1>1. /\ BillsKept /\ Len(bill') = Len(bill)
      /\ bill'[b].settled > 0
      /\ membership'.period.start = bill[b].period.end
  BY SettleEffect
<1>2. PICK start \in Nat, end \in Nat : bill[b].period.start = start /\ bill[b].period.end = end
  BY Rows DEF Bill, Period
<1>3. bill'[b].period.start = start /\ bill'[b].period.end = end /\ b \in DOMAIN bill'
  BY <1>1, <1>2, LenProperties DEF BillsKept
<1>4. Covered(start)'
  BY <1>1, <1>2, CoveredStays
<1>5. ASSUME NEW day \in CreatedAt..(end - 1) PROVE PaidFor(day)'
  <2>1. CASE day < start
    BY <1>2, <1>4, <2>1 DEF Covered, CreatedAt
  <2>2. CASE start <= day
    BY <1>1, <1>2, <1>3, <2>2 DEF PaidFor, CreatedAt
  <2> QED BY <1>2, <2>1, <2>2 DEF CreatedAt
<1> QED BY <1>1, <1>2, <1>5 DEF Covered

LEMMA MembershipPaid ==
    ASSUME TypeInv, PaidInv, [Next]_vars
    PROVE  Covered(membership.period.start)'
<1>0. membership \in Membership
  BY DEF TypeInv, RowInv
<1>1. BillsKept
  BY BillStep
<1>2. ASSUME NEW start, Covered(start), membership'.period.start = start
      PROVE  Covered(membership.period.start)'
  BY <1>1, <1>2, CoveredStays DEF Covered
<1>3. CASE membership'.period.start = membership.period.start
  BY <1>2, <1>3 DEF PaidInv
<1>4. ASSUME StartsTrial PROVE Covered(membership.period.start)'
  <2>1. \/ membership'.period.start = 0
        \/ membership'.period.start = membership.period.start
    BY <1>0, <1>4 DEF StartsTrial, NoMembership, NoPeriod, Membership
  <2> QED BY <1>2, <1>3, <2>1, NothingToPay
<1>5. ASSUME NEW w \in Requests, Verify(w) \/ CardSettle(w) PROVE Covered(membership.period.start)'
  <2>1. req[w].bill \in 1..Len(bill)
    BY <1>5 DEF Verify, CardSettle, At, TypeInv, ReqInv, WellFormed, OnBill
  <2>2. PICK b \in 1..Len(bill) : b = req[w].bill
    BY <2>1
  <2>3. Covered(bill[b].period.start)
    BY DEF PaidInv
  <2>4. Settle(b, None) \/ Settle(b, "CARD")
    BY <1>5, <2>2 DEF Verify, CardSettle
  <2> QED BY <2>3, <2>4, SettleCovers
<1>6. CASE InitializePeriod
  <2>1. membership'.period.start = sweep.period.start
    BY <1>0, <1>6 DEF InitializePeriod, Membership
  <2> QED BY <1>2, <2>1 DEF PaidInv
<1>7. ASSUME NEW w \in Requests, RedeemWrite(w) PROVE membership'.period.start = membership.period.start
  <2>1. [membership EXCEPT !.trialEnd = req[w].due + Extension].period.start = membership.period.start
    BY <1>0 DEF Membership
  <2>2. [membership EXCEPT !.period.end = req[w].period.end + Extension].period.start
          = membership.period.start
    BY <1>0 DEF Membership, Period
  <2> QED BY <1>7, <2>1, <2>2 DEF RedeemWrite
<1>8. ASSUME NEW status, SetStatus(status) PROVE membership'.period.start = membership.period.start
  BY <1>0, <1>8 DEF SetStatus, Membership
<1>9. ASSUME FlagPastDue PROVE membership'.period.start = membership.period.start
  BY <1>0, <1>9 DEF FlagPastDue, Membership
<1> QED BY ZenonT(40), <1>3, <1>4, <1>5, <1>6, <1>7, <1>8, <1>9
        DEF Next, RequestStep, ContractStep, MembershipStep, Decision, OtherHands, SweepStep,
            Apply, GrantDefaults, Join, ApproveRead, Approve, StartTrial, Decide, LookForGoverning,
            LookForPending, Draft, Propose, AddRead, OperateRead, SetsDirectly, Set, Cascade,
            SignRead, SignAs, SignFirst, SignMore, RedeemRead, SubmitRead, Attach, Submit,
            ReviewRead, Reject, CardRead, Renew, Open, ConfirmRead, ConfirmAgain, Charge,
            ProviderReports, SweepStarts, FindDue, LookUp, CreateBill, FindOverdue, SweepFails,
            Tick, Fail, billing, profile, vars

LEMMA SweepPaid ==
    ASSUME TypeInv, PaidInv, [Next]_vars
    PROVE  Covered(sweep.period.start)'
<1>1. sweep'.period.start \in {0, CreatedAt, sweep.period.start, membership.period.start}
  <2>0. sweep \in Sweep
    BY DEF TypeInv, RowInv
  <2>1. CASE UNCHANGED sweep
    BY <2>1
  <2>2. CASE SweepStarts \/ InitializePeriod \/ FindDue
    BY <2>0, <2>2 DEF SweepStarts, InitializePeriod, FindDue, NoPeriod, CreatedAt, Sweep
  <2>3. CASE LookUp \/ CreateBill
    BY <2>0, <2>3 DEF LookUp, CreateBill, SweepTo, Sweep
  <2>4. CASE FindOverdue \/ FlagPastDue \/ SweepFails
    BY <2>0, <2>4 DEF FindOverdue, FlagPastDue, SweepFails, Resting, NoPeriod, Sweep
  <2>5. ASSUME OtherHands PROVE UNCHANGED sweep
    BY <2>5 DEF OtherHands, SetStatus, ProviderReports
  <2>6. ASSUME NEW w \in Requests, RequestStep(w) PROVE UNCHANGED sweep
    BY <2>6
       DEF  RequestStep, ContractStep, MembershipStep,
            Apply, GrantDefaults, Join, ApproveRead, Approve, StartTrial, LookForGoverning,
            LookForPending, Draft, Propose, AddRead, OperateRead, SetsDirectly, Set, Cascade,
            SignRead, SignAs, SignFirst, SignMore, RedeemRead, RedeemWrite, SubmitRead,
            Attach, Submit, ReviewRead, Verify, Reject, CardRead, Renew, Open, ConfirmRead,
            ConfirmAgain, Charge, CardSettle, Fail
  <2> QED BY <2>1, <2>2, <2>3, <2>4, <2>5, <2>6
          DEF Next, Decision, Decide, SweepStep, Tick, vars
<1>2. PICK start : start = sweep'.period.start
  OBVIOUS
<1>3. Covered(start)
  BY <1>1, <1>2, NothingToPay DEF PaidInv
<1>4. Covered(start)'
  BY <1>3, BillStep, CoveredStays
<1> QED BY <1>2, <1>4 DEF Covered

\* A new bill is of a period that a task or the sweep carried.
LEMMA BillsPaid ==
    ASSUME TypeInv, PaidInv, [Next]_vars
    PROVE  \A b \in 1..Len(bill') : Covered(bill[b].period.start)'
<1>0. BillsKept
  BY BillStep
<1>1. ASSUME NEW b \in 1..Len(bill') PROVE Covered(bill'[b].period.start)
  <2>1. CASE b <= Len(bill)
    BY <1>0, <2>1, Lengths DEF BillsKept, PaidInv
  <2>2. CASE b > Len(bill)
    <3>1. CASE Len(bill') = Len(bill)
      BY <2>2, <3>1, Lengths
    <3>2. ASSUME NEW row \in Bill, bill' = Append(bill, row), Covered(row.period.start)
          PROVE  Covered(bill'[b].period.start)
      <4>1. Len(bill') = Len(bill) + 1 /\ bill'[Len(bill) + 1] = row
        BY <3>2, BillAppended
      <4> QED BY <2>2, <3>2, <4>1, Lengths
    <3>3. ASSUME NEW w \in Requests, Submit(w) PROVE Covered(bill'[b].period.start)
      <4>1. req[w].period \in Period /\ DueOr(req[w].due) \in Nat \ {0}
        BY SMTT(30), TimesAssumption DEF TypeInv, RowInv, ReqInv, Task, DueOr
      <4> DEFINE row == [NewBill(req[w].period, DueOr(req[w].due)) EXCEPT
                            !.receipt = TRUE, !.method = "MANUAL"]
      <4>2. row \in Bill /\ row.period = req[w].period
        BY <4>1, NewBillRow DEF NewBill, Bill
      <4>3. bill' = Append(bill, row)
        BY <3>3 DEF Submit
      <4> HIDE DEF row
      <4> QED BY <3>2, <4>2, <4>3 DEF PaidInv
    <3>4. ASSUME NEW w \in Requests, Renew(w) PROVE Covered(bill'[b].period.start)
      <4>1. req[w].period \in Period /\ req[w].due \in Nat \ {0}
        BY <3>4 DEF Renew, At, TypeInv, ReqInv, WellFormed, Task
      <4>2. NewBill(req[w].period, req[w].due) \in Bill
        BY <4>1, NewBillRow
      <4>3. NewBill(req[w].period, req[w].due).period = req[w].period
        BY DEF NewBill
      <4> QED BY <3>2, <3>4, <4>2, <4>3 DEF Renew, PaidInv
    <3>5. ASSUME CreateBill PROVE Covered(bill'[b].period.start)
      <4>1. sweep.period \in Period /\ now + Grace \in Nat \ {0}
        BY TimesAssumption DEF TypeInv, RowInv, Sweep
      <4>2. NewBill(sweep.period, now + Grace) \in Bill
        BY <4>1, NewBillRow
      <4>3. NewBill(sweep.period, now + Grace).period = sweep.period
        BY DEF NewBill
      <4> QED BY <3>2, <3>5, <4>2, <4>3 DEF CreateBill, PaidInv
    <3>6. ASSUME NEW c \in DOMAIN bill, NEW row, bill' = [bill EXCEPT ![c] = row]
          PROVE  Len(bill') = Len(bill)
      <4>1. DOMAIN bill' = 1..Len(bill) /\ bill' \in Seq(Bill)
        BY <1>0, <3>6, Rows DEF BillsKept
      <4> QED BY <4>1, LenProperties, Lengths
    <3>7. ASSUME NEW w \in Requests, Attach(w) \/ Reject(w) \/ Open(w) \/ Verify(w) \/ CardSettle(w)
          PROVE  Len(bill') = Len(bill)
      <4>1. req[w].bill \in DOMAIN bill
        BY <3>7, Rows DEF Attach, Reject, Open, Verify, CardSettle, At, TypeInv, ReqInv, WellFormed, OnBill
      <4>2. CASE Verify(w) \/ CardSettle(w)
        BY <4>1, <4>2, Rows, SettleEffect DEF Verify, CardSettle
      <4>3. CASE Attach(w) \/ Reject(w) \/ Open(w)
        <5>1. DOMAIN bill' = 1..Len(bill) /\ bill' \in Seq(Bill)
          BY <1>0, <4>3, Rows DEF BillsKept, Attach, Reject, Open
        <5> QED BY <5>1, LenProperties, Lengths
      <4> QED BY <3>7, <4>2, <4>3
    <3>8. CASE UNCHANGED bill
      BY <3>1, <3>8
    <3> QED BY ZenonT(40), <3>1, <3>3, <3>4, <3>5, <3>7, <3>8
        DEF Next, RequestStep, ContractStep, MembershipStep, Decision, OtherHands, SweepStep,
            Apply, GrantDefaults, Join, ApproveRead, Approve, StartTrial, Decide, LookForGoverning,
            LookForPending, Draft, Propose, AddRead, OperateRead, SetsDirectly, Set, Cascade,
            SignRead, SignAs, SignFirst, SignMore, SetStatus, RedeemRead, RedeemWrite, SubmitRead,
            ReviewRead, CardRead, ConfirmRead, ConfirmAgain, Charge, ProviderReports, SweepStarts,
            InitializePeriod, FindDue, LookUp, FindOverdue, FlagPastDue, SweepFails, Tick, Fail,
            billing, profile, vars
  <2> QED BY <2>1, <2>2, Lengths, LenProperties, <1>0 DEF BillsKept
<1>2. ASSUME NEW b \in 1..Len(bill') PROVE Covered(bill[b].period.start)'
  <2>1. PICK start : start = bill'[b].period.start
    OBVIOUS
  <2>2. Covered(start)'
    BY <1>0, <1>1, <2>1, CoveredStays
  <2> QED BY <2>1, <2>2 DEF Covered
<1> QED BY <1>2

LEMMA PeriodAtStart ==
    ASSUME NEW step, NEW caps, NEW c, NEW on, NEW k, NEW b, NEW p, NEW key, NEW period, NEW due
    PROVE  /\ [Idle EXCEPT !.pc = step, !.caps = caps].period = NoPeriod
           /\ [Idle EXCEPT !.pc = step, !.cap = c, !.on = on, !.caps = caps].period = NoPeriod
           /\ [Idle EXCEPT !.pc = step, !.cap = c, !.on = on].period = NoPeriod
           /\ [Idle EXCEPT !.pc = step, !.contract = k].period = NoPeriod
           /\ [Idle EXCEPT !.pc = step, !.bill = b].period = NoPeriod
           /\ [Idle EXCEPT !.pc = step, !.bill = b, !.key = key].period = NoPeriod
           /\ [Idle EXCEPT !.pc = step, !.card = p, !.bill = b].period = NoPeriod
           /\ [Idle EXCEPT !.pc = step, !.coupon = c, !.period = period, !.due = due].period = period
           /\ [Idle EXCEPT !.pc = step, !.period = period, !.due = due].period = period
           /\ [Idle EXCEPT !.pc = step, !.period = period, !.due = due, !.key = key].period = period
BY DEF Idle

\* A task carries no period, the one it carried, or the membership's.
LEMMA PeriodsCarried ==
    ASSUME TypeInv, NEW w \in Requests, RequestStep(w), NEW v \in Requests
    PROVE  req'[v].period.start \in {0, CreatedAt, req[v].period.start, membership.period.start}
<1>0. req \in [Requests -> Task] /\ req[w] \in Task /\ Idle \in Task /\ Idle.period.start = 0
  BY IdleTask DEF TypeInv, ReqInv, NoPeriod
<1>1. ASSUME NEW t, req' = [req EXCEPT ![w] = t],
             t.period.start \in {0, CreatedAt, req[w].period.start, membership.period.start}
      PROVE  req'[v].period.start \in {0, CreatedAt, req[v].period.start, membership.period.start}
  BY <1>0, <1>1
<1>2. CASE Finish(w)
  BY <1>0, <1>1, <1>2 DEF Finish
<1>3. ASSUME NEW step, GoTo(w, step)
      PROVE  req'[v].period.start \in {0, CreatedAt, req[v].period.start, membership.period.start}
  BY <1>0, <1>3 DEF GoTo, Task
<1>4. DuePeriod.start \in {0, CreatedAt, membership.period.start}
  BY DEF DuePeriod
<1>5. ASSUME req'[w].period.start \in {0, CreatedAt, membership.period.start}, v # w => req'[v] = req[v]
      PROVE  req'[v].period.start \in {0, CreatedAt, req[v].period.start, membership.period.start}
  BY <1>5
<1>6. CASE ContractStep(w)
  <2>1. ASSUME NEW answers, Apply(w, answers)
       PROVE  /\ req'[w].period.start \in {0, CreatedAt, membership.period.start}
              /\ v # w => req'[v] = req[v]
    BY <1>0, <1>4, <2>1, PeriodAtStart DEF Apply, Start, NoPeriod
  <2>3. ASSUME ApproveRead(w)
       PROVE  /\ req'[w].period.start \in {0, CreatedAt, membership.period.start}
              /\ v # w => req'[v] = req[v]
    BY <1>0, <1>4, <2>3, PeriodAtStart DEF ApproveRead, Start, NoPeriod
  <2>4. ASSUME NEW c, AddRead(w, c)
       PROVE  /\ req'[w].period.start \in {0, CreatedAt, membership.period.start}
              /\ v # w => req'[v] = req[v]
    BY <1>0, <1>4, <2>4, PeriodAtStart DEF AddRead, Start, NoPeriod
  <2>5. ASSUME NEW c, OperateRead(w, c)
       PROVE  /\ req'[w].period.start \in {0, CreatedAt, membership.period.start}
              /\ v # w => req'[v] = req[v]
    BY <1>0, <1>4, <2>5, PeriodAtStart DEF OperateRead, Start, NoPeriod
  <2>6. ASSUME NEW c, NEW on, SetsDirectly(w, c, on)
       PROVE  /\ req'[w].period.start \in {0, CreatedAt, membership.period.start}
              /\ v # w => req'[v] = req[v]
    BY <1>0, <1>4, <2>6, PeriodAtStart DEF SetsDirectly, Start, NoPeriod
  <2>7. ASSUME SignRead(w)
       PROVE  /\ req'[w].period.start \in {0, CreatedAt, membership.period.start}
              /\ v # w => req'[v] = req[v]
    BY <1>0, <1>4, <2>7, PeriodAtStart DEF SignRead, Start, NoPeriod
  <2>2. CASE Draft(w) \/ Set(w) \/ Cascade(w)
    BY <1>0, <1>2, <2>2 DEF Draft, Set, Cascade, Task
  <2>8. CASE GrantDefaults(w) \/ Join(w) \/ Approve(w) \/ StartTrial(w) \/ LookForGoverning(w)
             \/ LookForPending(w) \/ Propose(w) \/ SignAs(w) \/ SignFirst(w) \/ SignMore(w)
    BY <1>2, <1>3, <2>8
       DEF GrantDefaults, Join, Approve, StartTrial, LookForGoverning, LookForPending, Propose,
           SignAs, SignFirst, SignMore
  <2> QED BY <1>5, <1>6, <2>1, <2>2, <2>3, <2>4, <2>5, <2>6, <2>7, <2>8 DEF ContractStep
<1>7. CASE MembershipStep(w)
  <2>1. ASSUME NEW c, RedeemRead(w, c)
       PROVE  /\ req'[w].period.start \in {0, CreatedAt, membership.period.start}
              /\ v # w => req'[v] = req[v]
    BY <1>0, <1>4, <2>1, PeriodAtStart DEF RedeemRead, Start, NoPeriod
  <2>3. ASSUME SubmitRead(w)
       PROVE  /\ req'[w].period.start \in {0, CreatedAt, membership.period.start}
              /\ v # w => req'[v] = req[v]
    BY <1>0, <1>4, <2>3, PeriodAtStart DEF SubmitRead, Start, NoPeriod
  <2>4. ASSUME NEW b, NEW step, ReviewRead(w, b, step)
       PROVE  /\ req'[w].period.start \in {0, CreatedAt, membership.period.start}
              /\ v # w => req'[v] = req[v]
    BY <1>0, <1>4, <2>4, PeriodAtStart DEF ReviewRead, Start, NoPeriod
  <2>5. ASSUME NEW k, CardRead(w, k)
       PROVE  /\ req'[w].period.start \in {0, CreatedAt, membership.period.start}
              /\ v # w => req'[v] = req[v]
    <3> DEFINE b == Latest(BillsOf(DuePeriod))
    <3>1. \/ Start(w, [Idle EXCEPT !.pc = "open", !.bill = b, !.key = k])
          \/ Start(w, [Idle EXCEPT !.pc = "renew", !.period = DuePeriod, !.due = bill[b].due, !.key = k])
      BY <2>5 DEF CardRead
    <3> HIDE DEF b
    <3>2. CASE Start(w, [Idle EXCEPT !.pc = "open", !.bill = b, !.key = k])
      BY <1>0, <3>2, PeriodAtStart DEF Start, NoPeriod
    <3>3. CASE Start(w, [Idle EXCEPT !.pc = "renew", !.period = DuePeriod, !.due = bill[b].due, !.key = k])
      BY <1>0, <1>4, <3>3, PeriodAtStart DEF Start
    <3> QED BY <3>1, <3>2, <3>3
  <2>6. ASSUME ConfirmRead(w)
       PROVE  /\ req'[w].period.start \in {0, CreatedAt, membership.period.start}
              /\ v # w => req'[v] = req[v]
    BY <1>0, <1>4, <2>6, PeriodAtStart DEF ConfirmRead, Start, NoPeriod
  <2>2. CASE Renew(w)
    BY SMTT(30), <1>0, <2>2 DEF Renew, Task
  <2>7. CASE RedeemWrite(w) \/ Attach(w) \/ Submit(w) \/ Verify(w) \/ Reject(w) \/ Open(w)
             \/ ConfirmAgain(w) \/ Charge(w) \/ CardSettle(w)
    BY <1>2, <1>3, <2>7
       DEF RedeemWrite, Attach, Submit, Verify, Reject, Open, ConfirmAgain, Charge, CardSettle
  <2> QED BY <1>5, <1>7, <2>1, <2>2, <2>3, <2>4, <2>5, <2>6, <2>7 DEF MembershipStep
<1>8. CASE Fail(w)
  BY <1>2, <1>8 DEF Fail
<1> QED BY <1>6, <1>7, <1>8 DEF RequestStep

LEMMA PaidStep == ASSUME TypeInv, PaidInv, [Next]_vars PROVE PaidInv'
<1>1. ASSUME NEW v \in Requests
      PROVE  req'[v].period.start \in {0, CreatedAt, req[v].period.start, membership.period.start}
  <2>1. CASE UNCHANGED req
    BY <2>1
  <2>2. ASSUME NEW w \in Requests, RequestStep(w)
        PROVE  req'[v].period.start \in {0, CreatedAt, req[v].period.start, membership.period.start}
    BY <2>2, PeriodsCarried
  <2> QED BY <2>1, <2>2
       DEF Next, Decision, OtherHands, SweepStep, Decide, SetStatus, ProviderReports, SweepStarts,
           InitializePeriod, FindDue, LookUp, CreateBill, FindOverdue, FlagPastDue, SweepFails,
           Tick, vars
<1>2. ASSUME NEW v \in Requests PROVE Covered(req[v].period.start)'
  <2>1. PICK start : start = req'[v].period.start
    OBVIOUS
  <2>2. Covered(start)
    BY <1>1, <2>1, NothingToPay DEF PaidInv
  <2>3. Covered(start)'
    BY <2>2, BillStep, CoveredStays
  <2> QED BY <2>1, <2>3 DEF Covered
<1> QED BY <1>2, MembershipPaid, SweepPaid, BillsPaid DEF PaidInv

(***************************************************************************)
(* No time is given away: the period a business is in starts where periods *)
(* it paid for end, whatever order bills are made, settled and extended    *)
(* in, and however often a sweep or a request dies half-way.               *)
(***************************************************************************)
THEOREM NoTimeGivenAway == Spec => []PaidUpToPeriod
<1>1. Init => PaidInv
  <2> SUFFICES ASSUME Init PROVE PaidInv
    OBVIOUS
  <2>1. /\ membership.period.start = 0 /\ sweep.period.start = 0
        /\ \A w \in Requests : req[w].period.start = 0
        /\ 1..Len(bill) = {}
    BY IdleTask, EmptySeq DEF Init, NoMembership, NoPeriod, Resting
  <2> QED BY <2>1, NothingToPay DEF PaidInv
<1>2. TypeInv /\ PaidInv /\ [Next]_vars => PaidInv'
  BY PaidStep
<1>3. PaidInv => PaidUpToPeriod
  BY DEF PaidInv, Covered, PaidUpToPeriod
<1> QED BY <1>1, <1>2, <1>3, TypeInvariant, PTL DEF Spec

---------------------------------------------------------------------------
LEMMA GovernedStep == ASSUME TypeInv, NeverUngoverned, [Next]_vars PROVE NeverUngoverned'
<1>1. ASSUME NEW w \in Requests, SignFirst(w) PROVE NeverUngoverned'
  <2>1. req[w].contract \in DOMAIN contract /\ contract[req[w].contract] \in Contract
    BY <1>1, Rows DEF SignFirst, At, TypeInv, ReqInv, WellFormed, Signing
  <2>2. req[w].contract \in DOMAIN contract' /\ contract'[req[w].contract].status = "SIGNED"
    BY <1>1, <2>1 DEF SignFirst, Contract
  <2> QED BY <2>2 DEF NeverUngoverned, WithStatus
<1>2. ASSUME NEW w \in Requests, SignMore(w) PROVE NeverUngoverned'
  <2>1. req[w].contract \in DOMAIN contract /\ contract[req[w].contract] \in Contract
    BY <1>2, Rows DEF SignMore, At, TypeInv, ReqInv, WellFormed, Signing
  <2>2. req[w].contract \in DOMAIN contract' /\ contract'[req[w].contract].status = "SIGNED"
    BY <1>2, <2>1 DEF SignMore, Retired, Contract
  <2> QED BY <2>2 DEF NeverUngoverned, WithStatus
<1>3. ASSUME NEW w \in Requests, Propose(w) PROVE NeverUngoverned'
  <2> DEFINE row == [covers |-> req[w].caps \cap Material, status |-> "PENDING_SIGNATURE"]
  <2>1. row \in Contract /\ row.status = "PENDING_SIGNATURE"
    BY DEF Contract
  <2>2. contract \in Seq(Contract) /\ contract' = Append(contract, row)
    BY <1>3 DEF Propose, TypeInv, RowInv
  <2> HIDE DEF row
  <2>3. /\ contract' \in Seq(Contract)
        /\ Len(contract') = Len(contract) + 1
        /\ \A k \in 1..Len(contract) : contract'[k] = contract[k]
        /\ contract'[Len(contract) + 1] = row
    BY <2>1, <2>2, AppendProperties
  <2>4. DOMAIN contract' = 1..(Len(contract) + 1) /\ DOMAIN contract = 1..Len(contract)
    BY <2>2, <2>3, LenProperties
  <2> QED BY <2>1, <2>3, <2>4, Lengths DEF NeverUngoverned, WithStatus
<1>4. CASE UNCHANGED contract
  BY <1>4 DEF NeverUngoverned, WithStatus
<1> QED BY ZenonT(40), <1>1, <1>2, <1>3, <1>4
        DEF Next, RequestStep, ContractStep, MembershipStep, Decision, OtherHands, SweepStep,
            Apply, GrantDefaults, Join, ApproveRead, Approve, StartTrial, Decide, LookForGoverning,
            LookForPending, Draft, AddRead, OperateRead, SetsDirectly, Set, Cascade, SignRead,
            SignAs, SetStatus, RedeemRead, RedeemWrite, SubmitRead, Attach, Submit, ReviewRead,
            Verify, Reject, CardRead, Renew, Open, ConfirmRead, ConfirmAgain, Charge, CardSettle,
            ProviderReports, SweepStarts, InitializePeriod, FindDue, LookUp, CreateBill,
            FindOverdue, FlagPastDue, SweepFails, Tick, Fail, billing, profile, vars

(***************************************************************************)
(* Whoever signs last, and however many sign at once, a business that      *)
(* signed has a contract in force: a signature never retires its own.      *)
(***************************************************************************)
THEOREM AlwaysGoverned == Spec => []NeverUngoverned
<1>1. Init => NeverUngoverned
  BY EmptySeq DEF Init, NeverUngoverned
<1>2. TypeInv /\ NeverUngoverned /\ [Next]_vars => NeverUngoverned'
  BY GovernedStep
<1> QED BY <1>1, <1>2, TypeInvariant, PTL DEF Spec

---------------------------------------------------------------------------
(***************************************************************************)
(* ConsentFirst, from what a task remembers: one that is to switch a       *)
(* capability on saw a signed contract that covers it, and what a signed   *)
(* contract covers never changes.                                          *)
(***************************************************************************)
ConsentSteps == {"approve", "trial", "govern", "set"}

Consented(t) ==
    /\ t.pc = "approve" => t.cap = None
    /\ t.pc \in {"trial", "govern"} /\ t.cap # None => t.cap \in t.caps
    /\ t.pc = "set" /\ t.on /\ t.cap \in Material => AgreedTo(t.cap)

ConsentInv == \A w \in Requests : Consented(req[w])

LEMMA AgreedStays ==
    ASSUME TypeInv, ContractsKept, NEW c, AgreedTo(c)
    PROVE  AgreedTo(c)'
<1>1. PICK k \in 1..Len(contract) :
        contract[k].status # "PENDING_SIGNATURE" /\ c \in contract[k].covers
  BY Rows DEF AgreedTo
<1>2. contract' \in Seq(Contract) /\ Len(contract') \in Nat /\ DOMAIN contract' = 1..Len(contract')
  BY LenProperties DEF ContractsKept
<1>3. k \in DOMAIN contract'
  BY <1>2, Lengths DEF ContractsKept
<1> QED BY <1>1, <1>3 DEF ContractsKept, AgreedTo

LEMMA MaterialIsNotOperational ==
    ASSUME NEW c \in Material PROVE c \notin Operational /\ c # None
BY GateAssumption DEF Capabilities

\* Where a request that is not about to set a capability goes.
LEMMA OtherStep ==
    ASSUME TypeInv, NEW w \in Requests, RequestStep(w), req'[w].pc \in ConsentSteps
    PROVE  \/ ApproveRead(w) \/ Approve(w) \/ StartTrial(w) \/ LookForGoverning(w)
           \/ \E c \in Capabilities : \/ AddRead(w, c)
                                       \/ OperateRead(w, c)
                                       \/ \E on \in BOOLEAN : SetsDirectly(w, c, on)
<1>0. req \in [Requests -> Task] /\ req[w] \in Task
  BY DEF TypeInv, ReqInv
<1>1. ~Finish(w)
  BY <1>0, IdleTask DEF Finish, ConsentSteps
<1>2. ASSUME NEW step, GoTo(w, step) PROVE req'[w].pc = step
  BY <1>0, <1>2 DEF GoTo, Task
<1>3. ASSUME NEW answers, Apply(w, answers) PROVE FALSE
  BY <1>0, <1>3, IdleTask DEF Apply, Start, ConsentSteps, Task
<1>4. ~GrantDefaults(w) /\ ~Join(w) /\ ~LookForPending(w) /\ ~Propose(w)
  BY <1>1, <1>2 DEF GrantDefaults, Join, LookForPending, Propose, ConsentSteps
<1>5. ~SignAs(w) /\ ~SignFirst(w) /\ ~SignMore(w)
  BY <1>1, <1>2 DEF SignAs, SignFirst, SignMore, ConsentSteps
<1>6. ~Draft(w)
  BY <1>0 DEF Draft, ConsentSteps, Task
<1>7. ~Set(w)
  BY <1>0, <1>1 DEF Set, ConsentSteps, Task
<1>8. ~Cascade(w)
  BY <1>0, <1>1 DEF Cascade, At, ConsentSteps, Task
<1>9. ~SignRead(w)
  BY ZenonT(40), <1>0, IdleTask DEF SignRead, Start, ConsentSteps, Task
<1>10. ~Fail(w)
  BY <1>1 DEF Fail
<1>11. ~MembershipStep(w)
  <2>1. ASSUME NEW c, RedeemRead(w, c) PROVE FALSE
    BY <1>0, <2>1, IdleTask DEF RedeemRead, Start, ConsentSteps, Task
  <2>2. ~SubmitRead(w)
    <3> DEFINE b == Latest(BillsOf(DuePeriod))
    <3> SUFFICES ASSUME SubmitRead(w) PROVE FALSE
      OBVIOUS
    <3>1. \/ Start(w, [Idle EXCEPT !.pc = "attach", !.bill = b])
          \/ Start(w, [Idle EXCEPT !.pc = "submit", !.period = DuePeriod, !.due = InheritedDue(b)])
      BY DEF SubmitRead
    <3> HIDE DEF b
    <3>2. req'[w].pc \in {"attach", "submit"}
      BY <1>0, <3>1 DEF Start, Idle
    <3> QED BY <3>2 DEF ConsentSteps
  <2>3. ASSUME NEW b, NEW step \in {"verify", "reject"}, ReviewRead(w, b, step) PROVE FALSE
    BY <1>0, <2>3, IdleTask DEF ReviewRead, Start, ConsentSteps, Task
  <2>4. ASSUME NEW k, CardRead(w, k) PROVE FALSE
    <3> DEFINE b == Latest(BillsOf(DuePeriod))
    <3>1. \/ Start(w, [Idle EXCEPT !.pc = "open", !.bill = b, !.key = k])
          \/ Start(w, [Idle EXCEPT !.pc = "renew", !.period = DuePeriod, !.due = bill[b].due, !.key = k])
      BY <2>4 DEF CardRead
    <3> HIDE DEF b
    <3>2. req'[w].pc \in {"open", "renew"}
      BY <1>0, <3>1 DEF Start, Idle
    <3> QED BY <3>2 DEF ConsentSteps
  <2>5. ~ConfirmRead(w)
    BY ZenonT(40), <1>0, IdleTask DEF ConfirmRead, Start, ConsentSteps, Task
  <2>6. ~Renew(w)
    BY <1>0 DEF Renew, ConsentSteps, Task
  <2> QED BY <1>1, <1>2, <2>1, <2>2, <2>3, <2>4, <2>5, <2>6
          DEF MembershipStep, RedeemWrite, Attach, Submit, Verify, Reject, Open, ConfirmAgain,
              Charge, CardSettle, ConsentSteps
<1> QED BY <1>3, <1>4, <1>5, <1>6, <1>7, <1>8, <1>9, <1>10, <1>11 DEF RequestStep, ContractStep

LEMMA ConsentTaskStep ==
    ASSUME TypeInv, ConsentInv, NEW w \in Requests, RequestStep(w), NEW t, t = req'[w],
           t.pc \in ConsentSteps
    PROVE  Consented(t)
<1>0. req \in [Requests -> Task] /\ req[w] \in Task /\ Consented(req[w])
  BY DEF TypeInv, ReqInv, ConsentInv
<1>1. CASE ApproveRead(w)
  <2>1. t.pc = "approve" /\ t.cap = None
    BY <1>0, <1>1 DEF ApproveRead, Start, Idle
  <2> QED BY <2>1 DEF Consented
<1>2. CASE Approve(w)
  <2>1. t.pc \in {"trial", "find"} /\ t.cap = req[w].cap
    BY <1>0, <1>2 DEF Approve, GoTo, Task
  <2>2. req[w].cap = None
    BY <1>0, <1>2 DEF Approve, At, Consented
  <2> QED BY <2>1, <2>2 DEF Consented
<1>3. CASE StartTrial(w)
  <2>1. t.pc \in {"find", "govern"} /\ t.cap = req[w].cap /\ t.caps = req[w].caps
    BY <1>0, <1>3 DEF StartTrial, GoTo, Task
  <2>2. req[w].cap # None => req[w].cap \in req[w].caps
    BY <1>0, <1>3 DEF StartTrial, At, Consented
  <2> QED BY <2>1, <2>2 DEF Consented
<1>4. CASE LookForGoverning(w)
  <2>1. /\ t.pc = IF Covers(req[w].caps) THEN "set" ELSE "find"
        /\ t.cap = req[w].cap /\ t.caps = req[w].caps
    BY <1>0, <1>4 DEF LookForGoverning, GoTo, Task
  <2>2. req[w].cap # None => req[w].cap \in req[w].caps
    BY <1>0, <1>4 DEF LookForGoverning, At, Consented
  <2>3. ASSUME NEW c \in Material, t.cap = c, Covers(req[w].caps) PROVE AgreedTo(c)
    <3>1. c \in req[w].caps
      BY <2>1, <2>2, <2>3, MaterialIsNotOperational
    <3>2. Governing \in WithStatus("SIGNED") /\ c \in contract[Governing].covers
      BY <2>3, <3>1, LatestContract DEF Covers, Governing
    <3> QED BY <3>2 DEF AgreedTo, WithStatus
  <2> QED BY <2>1, <2>3 DEF Consented
<1>5. ASSUME NEW c \in Capabilities, AddRead(w, c) PROVE Consented(t)
  <2> DEFINE caps == {c} \cup {d \in Material : Enabled(d)}
             step == IF c = "DIRECTORY_LISTING" THEN "trial" ELSE "govern"
  <2>1. Start(w, [Idle EXCEPT !.pc = step, !.cap = c, !.on = TRUE, !.caps = caps])
    BY <1>5 DEF AddRead
  <2>2. c \in caps /\ step \in {"trial", "govern"}
    OBVIOUS
  <2> HIDE DEF caps, step
  <2>3. t.pc = step /\ t.cap = c /\ t.caps = caps
    BY <1>0, <2>1 DEF Start, Idle
  <2> QED BY <2>2, <2>3 DEF Consented
<1>6. ASSUME NEW c \in Capabilities, NEW on \in BOOLEAN, OperateRead(w, c) \/ SetsDirectly(w, c, on)
      PROVE  Consented(t)
  <2>1. t.pc = "set" /\ t.cap = c /\ (c \in Operational \/ ~t.on)
    BY ZenonT(40), <1>0, <1>6 DEF OperateRead, SetsDirectly, Start, Idle
  <2> QED BY <2>1, MaterialIsNotOperational DEF Consented
<1> QED BY <1>1, <1>2, <1>3, <1>4, <1>5, <1>6, OtherStep

LEMMA ConsentStays ==
    ASSUME TypeInv, ContractsKept, NEW t, Consented(t)
    PROVE  Consented(t)'
BY AgreedStays DEF Consented

LEMMA OthersWait ==
    ASSUME TypeInv, NEW w \in Requests, RequestStep(w), NEW v \in Requests, v # w
    PROVE  req'[v] = req[v]
<1>1. CASE ContractStep(w)
  BY <1>1 DEF ContractStep, Apply, GrantDefaults, Join, ApproveRead, Approve, StartTrial,
              LookForGoverning, LookForPending, Draft, Propose, AddRead, OperateRead, SetsDirectly,
              Set, Cascade, SignRead, SignAs, SignFirst, SignMore, Start, GoTo, Finish, TypeInv, ReqInv
<1>2. CASE MembershipStep(w)
  BY <1>2 DEF MembershipStep, RedeemRead, RedeemWrite, SubmitRead, Attach, Submit, ReviewRead,
              Verify, Reject, CardRead, Renew, Open, ConfirmRead, ConfirmAgain, Charge, CardSettle,
              Start, GoTo, Finish, TypeInv, ReqInv
<1>3. CASE Fail(w)
  BY <1>3 DEF Fail, Finish, TypeInv, ReqInv
<1> QED BY <1>1, <1>2, <1>3 DEF RequestStep

LEMMA ConsentStep == ASSUME TypeInv, ConsentInv, [Next]_vars PROVE ConsentInv'
<1>1. ASSUME NEW v \in Requests PROVE Consented(req'[v])
  <2>1. CASE UNCHANGED req
    BY <2>1 DEF ConsentInv
  <2>2. ASSUME NEW w \in Requests, RequestStep(w) PROVE Consented(req'[v])
    <3>1. CASE v # w
      BY <2>2, <3>1, OthersWait DEF ConsentInv
    <3>2. CASE v = w /\ req'[v].pc \in ConsentSteps
      <4>1. PICK t : t = req'[w]
        OBVIOUS
      <4> QED BY <2>2, <3>2, <4>1, ConsentTaskStep
    <3>3. CASE req'[v].pc \notin ConsentSteps
      BY <3>3 DEF Consented, ConsentSteps
    <3> QED BY <3>1, <3>2, <3>3
  <2> QED BY <2>1, <2>2
       DEF Next, Decision, OtherHands, SweepStep, Decide, SetStatus, ProviderReports, SweepStarts,
           InitializePeriod, FindDue, LookUp, CreateBill, FindOverdue, FlagPastDue, SweepFails,
           Tick, vars
<1>2. ASSUME NEW v \in Requests PROVE Consented(req[v])'
  <2>1. PICK t : t = req'[v]
    OBVIOUS
  <2>2. Consented(t)'
    BY <1>1, <2>1, ContractRow, ConsentStays
  <2> QED BY <2>1, <2>2 DEF Consented
<1> QED BY <1>2 DEF ConsentInv

LEMMA ConsentAction ==
    ASSUME TypeInv, ConsentInv, [Next]_vars, NEW c \in Material, ~Enabled(c), Enabled(c)'
    PROVE  AgreedTo(c)' \/ \E w \in Requests : At(w, "onboard") /\ req'[w] # req[w]
<1>0. capability[c] # "ON" /\ capability'[c] = "ON" /\ c \in Capabilities
      /\ capability \in [Capabilities -> {"ON", "OFF", None}] /\ req \in [Requests -> Task]
  BY DEF Enabled, Capabilities, TypeInv, RowInv, ReqInv
<1>1. ASSUME NEW w \in Requests, GrantDefaults(w)
      PROVE  At(w, "onboard") /\ req'[w] # req[w]
  <2>1. req[w].pc = "onboard" /\ (GoTo(w, "join") \/ Finish(w))
    BY <1>1 DEF GrantDefaults, At
  <2>2. req'[w].pc \in {"join", "idle"}
    BY <1>0, <2>1, IdleTask DEF GoTo, Finish, Task
  <2> QED BY <2>1, <2>2 DEF At
<1>2. ASSUME NEW w \in Requests, Set(w) PROVE AgreedTo(c)'
  <2>1. req[w].pc = "set" /\ capability' = [capability EXCEPT ![req[w].cap] = OnOff(req[w].on)]
    BY <1>2 DEF Set, At
  <2>2. req[w].cap = c /\ req[w].on
    BY <1>0, <2>1 DEF OnOff
  <2>3. AgreedTo(c)
    BY <2>1, <2>2 DEF ConsentInv, Consented
  <2> QED BY <2>3, ContractRow, AgreedStays
<1>3. ASSUME NEW w \in Requests, Cascade(w) PROVE FALSE
  BY <1>0, <1>3 DEF Cascade
<1>4. ASSUME NEW w \in Requests, SignMore(w) PROVE AgreedTo(c)'
  <2>1. req[w].contract \in DOMAIN contract /\ contract[req[w].contract] \in Contract
    BY <1>4, Rows DEF SignMore, At, TypeInv, ReqInv, WellFormed, Signing
  <2>2. /\ req[w].contract \in DOMAIN contract'
        /\ contract'[req[w].contract].status = "SIGNED"
        /\ contract'[req[w].contract].covers = contract[req[w].contract].covers
    BY <1>4, <2>1 DEF SignMore, Retired, Contract
  <2>3. c \in contract[req[w].contract].covers
    BY <1>0, <1>4 DEF SignMore
  <2> QED BY <2>2, <2>3 DEF AgreedTo
<1>5. ~UNCHANGED capability
  BY <1>0
<1> QED BY ZenonT(40), <1>1, <1>2, <1>3, <1>4, <1>5
        DEF Next, RequestStep, ContractStep, MembershipStep, Decision, OtherHands, SweepStep,
            Apply, Join, ApproveRead, Approve, StartTrial, Decide, LookForGoverning,
            LookForPending, Draft, Propose, AddRead, OperateRead, SetsDirectly,
            SignRead, SignAs, SignFirst, SetStatus, RedeemRead, RedeemWrite, SubmitRead,
            Attach, Submit, ReviewRead, Verify, Reject, CardRead, Renew, Open, ConfirmRead,
            ConfirmAgain, Charge, CardSettle, ProviderReports, SweepStarts, InitializePeriod,
            FindDue, LookUp, CreateBill, FindOverdue, FlagPastDue, SweepFails, Tick, Fail,
            billing, profile, vars

(***************************************************************************)
(* Selling and being listed are only switched on under a signed contract   *)
(* that covers them, although the contract is read before and the          *)
(* capability set after other requests' signatures.                        *)
(***************************************************************************)
THEOREM ConsentCorrect == Spec => ConsentFirst
<1>1. Init => ConsentInv
  <2> SUFFICES ASSUME Init PROVE ConsentInv
    OBVIOUS
  <2>1. \A w \in Requests : req[w].pc = "idle"
    BY IdleTask DEF Init
  <2> QED BY <2>1 DEF ConsentInv, Consented
<1>2. TypeInv /\ ConsentInv /\ [Next]_vars => ConsentInv'
  BY ConsentStep
<1>3. TypeInv /\ ConsentInv /\ [Next]_vars =>
        [\A c \in Material :
            ~Enabled(c) /\ Enabled(c)' =>
                \/ AgreedTo(c)'
                \/ \E w \in Requests : At(w, "onboard") /\ req'[w] # req[w]]_vars
  BY ConsentAction
<1> QED BY <1>1, <1>2, <1>3, TypeInvariant, PTL DEF Spec, ConsentFirst
=============================================================================
