------------------------------ MODULE Payouts ------------------------------
(***************************************************************************)
(* PayoutsService: what the platform owes riders (RiderEarning) and        *)
(* businesses (Order, Booking) is swept into Payout rows.  The six         *)
(* "mark paid" methods are one transaction each: the rows that are owed    *)
(* are read, a Payout with their total is created, and an update guarded   *)
(* by payoutId = null stamps them; if it stamps fewer than were read, all  *)
(* is rolled back.  The database is READ COMMITTED, so other transactions  *)
(* commit between the read and the update.                                 *)
(***************************************************************************)
EXTENDS SettlementRows

(***************************************************************************)
(* What makes a row owed happens elsewhere: a delivery is completed, an    *)
(* order is paid, a card payment of a booking settles.  Only an order can  *)
(* be cancelled, and only a booking's payment reported FAILED, since.      *)
(***************************************************************************)
Falls(i) == ~owed[i]
Lapses(i) == owed[i] /\ KindOf[i] # "EARNING"

Owing(i) ==
    /\ Falls(i) \/ Lapses(i)
    /\ owed' = [owed EXCEPT ![i] = ~@]
    /\ UNCHANGED <<sweptBy, payout, rate, coupon, use, deal, redeemed, req>>

Pending(i) == owed[i] /\ sweptBy[i] = None

\* Orders are only paid out at a rate that somebody set and that still runs.
HasRate(payee) == \E s \in Rates : rate[payee][s] > 0 /\ (s \in Deals => deal[s].open)

\* What the pending query of one kind finds for a payee.
PendingOf(payee, kind) == {i \in Items : KindOf[i] = kind /\ PayeeOf[i] = payee /\ Pending(i)}

(***************************************************************************)
(* The first half of a transaction, for the ids the administrator ticked   *)
(* (one payee's balance as a whole is the case of all ids).                *)
(***************************************************************************)
ReadPending(w, payee, kind, found) ==
    /\ found # {}
    /\ kind = "ORDER" => HasRate(payee)
    /\ Start(w, [Idle EXCEPT !.pc = "stamp", !.items = found, !.payee = payee])
    /\ UNCHANGED <<owed, sweptBy, payout, rate, coupon, use, deal, redeemed>>

\* The guard of updateMany (mutants: none; and no comparison of the counts).
StampedAnyway(items) == items
Stamped(items) == {i \in items : sweptBy[i] = None}
CountIgnored(items) == TRUE
AllStamped(items) == Stamped(items) = items

\* Creating the Payout, stamping and committing; or rolling back.
Stamp(w, p) ==
    /\ At(w, "stamp")
    /\ payout[p] = NoPayout
    /\ LET items == req[w].items IN
        IF AllStamped(items)
        THEN /\ sweptBy' = [i \in Items |-> IF i \in Stamped(items) THEN p ELSE sweptBy[i]]
             /\ payout' = [payout EXCEPT ![p] =
                    [payee |-> req[w].payee, amount |-> Cardinality(items)]]
        ELSE UNCHANGED <<sweptBy, payout>>
    /\ Finish(w)
    /\ UNCHANGED <<owed, rate, coupon, use, deal, redeemed>>

\* BusinessesService.approve gives a business its first rate.
SetRate(payee) ==
    /\ rate[payee]["BASE"] = 0
    /\ rate' = [rate EXCEPT ![payee]["BASE"] = 1]
    /\ UNCHANGED <<owed, sweptBy, payout, coupon, use, deal, redeemed, req>>

PayoutStep(w) ==
    \/ \E payee \in Payees, kind \in Kinds :
            \E found \in SUBSET PendingOf(payee, kind) : ReadPending(w, payee, kind, found)
    \/ \E p \in PayoutIds : Stamp(w, p)
=============================================================================
