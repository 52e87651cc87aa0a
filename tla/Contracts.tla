----------------------------- MODULE Contracts -----------------------------
(***************************************************************************)
(* BusinessesService, ContractsService and BusinessCapabilitiesService: a  *)
(* business applies, is approved, signs and becomes active; later changes  *)
(* of what it owes wait for another signature.                             *)
(***************************************************************************)
EXTENDS Memberships

Enabled(c) == capability[c] = "ON"
OnOff(on) == IF on THEN "ON" ELSE "OFF"
Depending(gate) == {c \in Operational : Gate[c] = gate}

---------------------------------------------------------------------------
(* apply: the business, its capabilities and its membership, one by one *)

Apply(w, answers) ==
    /\ business = None
    /\ business' = "PENDING"
    /\ Start(w, [Idle EXCEPT !.pc = "onboard", !.caps = answers])
    /\ UNCHANGED <<capability, contract, billing, now, sweep>>

\* createMany with skipDuplicates: only who sells chooses how to deliver.
Answered(answers) ==
    Material \cup (IF "SELLS_PRODUCTS" \in answers THEN Depending("SELLS_PRODUCTS") ELSE {})

GrantDefaults(w) ==
    /\ At(w, "onboard")
    /\ LET answers == req[w].caps IN
        /\ capability' = [c \in Capabilities |->
                IF c \in Answered(answers) /\ capability[c] = None
                THEN OnOff(c \in answers) ELSE capability[c]]
        /\ IF "DIRECTORY_LISTING" \in answers THEN GoTo(w, "join") ELSE Finish(w)
    /\ UNCHANGED <<business, contract, billing, now, sweep>>

Join(w) ==
    /\ At(w, "join")
    /\ StartsTrial
    /\ Finish(w)
    /\ UNCHANGED <<profile, redeemed, bill, card, now, sweep>>

---------------------------------------------------------------------------
(* approve, activate, reject and suspend *)

\* Whether the business is listed is read with its status.
ApproveRead(w) ==
    /\ business \notin {None, "ACTIVE"}
    /\ Start(w, [Idle EXCEPT !.pc = "approve", !.caps = {c \in Material : Enabled(c)}])
    /\ UNCHANGED <<profile, billing, now, sweep>>

Approve(w) ==
    /\ At(w, "approve")
    /\ business' = "APPROVED"
    /\ GoTo(w, IF "DIRECTORY_LISTING" \in req[w].caps THEN "trial" ELSE "find")
    /\ UNCHANGED <<capability, contract, billing, now, sweep>>

\* startTrialIfMissing, for approve and for a capability that is added.
StartTrial(w) ==
    /\ At(w, "trial")
    /\ StartsTrial
    /\ GoTo(w, IF req[w].cap = None THEN "find" ELSE "govern")
    /\ UNCHANGED <<profile, redeemed, bill, card, now, sweep>>

Decide(status) ==
    /\ business # None
    /\ business' = status
    /\ UNCHANGED <<capability, contract, billing, now, sweep, req>>

---------------------------------------------------------------------------
(* createForApprovedBusiness and requestCapabilityChange *)

WithStatus(status) == {k \in DOMAIN contract : contract[k].status = status}
Pending == Latest(WithStatus("PENDING_SIGNATURE"))
Governing == Latest(WithStatus("SIGNED"))

\* The contract in force covers all that is wanted (mutant: or some of it).
CoversSome(wanted) == Governing # 0 /\ wanted \cap contract[Governing].covers # {}
Covers(wanted) == Governing # 0 /\ wanted \subseteq contract[Governing].covers

LookForGoverning(w) ==
    /\ At(w, "govern")
    /\ GoTo(w, IF Covers(req[w].caps) THEN "set" ELSE "find")
    /\ UNCHANGED <<profile, billing, now, sweep>>

\* A contract that waits for a signature is used again, whatever it covers.
LookForPending(w) ==
    /\ At(w, "find")
    /\ IF Pending # 0 THEN Finish(w)
       ELSE GoTo(w, IF req[w].cap = None THEN "draft" ELSE "propose")
    /\ UNCHANGED <<profile, billing, now, sweep>>

Draft(w) ==
    /\ At(w, "draft")
    /\ req' = [req EXCEPT ![w].pc = "propose", ![w].caps = {c \in Material : Enabled(c)}]
    /\ UNCHANGED <<profile, billing, now, sweep>>

Propose(w) ==
    /\ At(w, "propose")
    /\ Len(contract) < MaxContracts
    /\ contract' = Append(contract, [covers |-> req[w].caps \cap Material, status |-> "PENDING_SIGNATURE"])
    /\ Finish(w)
    /\ UNCHANGED <<business, capability, billing, now, sweep>>

---------------------------------------------------------------------------
(* setCapabilityAsAdmin and setOperationalCapability *)

\* What is added is read together with what is there, and needs a contract.
AddRead(w, c) ==
    /\ business # None
    /\ c \in Material
    /\ Start(w, [Idle EXCEPT !.pc = IF c = "DIRECTORY_LISTING" THEN "trial" ELSE "govern",
                             !.cap = c, !.on = TRUE,
                             !.caps = {c} \cup {d \in Material : Enabled(d)}])
    /\ UNCHANGED <<profile, billing, now, sweep>>

SetsDirectly(w, c, on) ==
    /\ business # None
    /\ c \in Operational \/ ~on
    /\ Start(w, [Idle EXCEPT !.pc = "set", !.cap = c, !.on = on])
    /\ UNCHANGED <<profile, billing, now, sweep>>

\* The business itself may only switch on what its gate allows.
OperateRead(w, c) ==
    /\ c \in Operational
    /\ Enabled(Gate[c])
    /\ Start(w, [Idle EXCEPT !.pc = "set", !.cap = c, !.on = TRUE])
    /\ UNCHANGED <<profile, billing, now, sweep>>

Set(w) ==
    /\ At(w, "set")
    /\ LET c == req[w].cap IN
        /\ capability' = [capability EXCEPT ![c] = OnOff(req[w].on)]
        /\ IF ~req[w].on /\ c \in Material
           THEN req' = [req EXCEPT ![w].pc = "cascade", ![w].caps = Depending(c)]
           ELSE Finish(w)
    /\ UNCHANGED <<business, contract, billing, now, sweep>>

\* setManyDisabled: one update for each, in any order.
Cascade(w) ==
    /\ At(w, "cascade")
    /\ \/ \E c \in req[w].caps :
            /\ capability' = [capability EXCEPT ![c] = "OFF"]
            /\ req' = [req EXCEPT ![w].caps = @ \ {c}]
       \/ req[w].caps = {} /\ Finish(w) /\ UNCHANGED capability
    /\ UNCHANGED <<business, contract, billing, now, sweep>>

---------------------------------------------------------------------------
(* sign *)

SignRead(w) ==
    /\ Pending # 0
    /\ Start(w, [Idle EXCEPT !.pc = "signing", !.contract = Pending])
    /\ UNCHANGED <<profile, billing, now, sweep>>

\* The status decides which contract this is; the document is made after.
SignAs(w) ==
    /\ At(w, "signing")
    /\ GoTo(w, IF business = "APPROVED" THEN "signFirst" ELSE "signMore")
    /\ UNCHANGED <<profile, billing, now, sweep>>

SignFirst(w) ==
    /\ At(w, "signFirst")
    /\ contract' = [contract EXCEPT ![req[w].contract].status = "SIGNED"]
    /\ business' = "ACTIVE"
    /\ Finish(w)
    /\ UNCHANGED <<capability, billing, now, sweep>>

\* Which contracts a signature retires (mutant: its own too).
RetiredAll(k) == WithStatus("SIGNED") \cup {k}
Retired(k) == WithStatus("SIGNED") \ {k}

SignMore(w) ==
    /\ At(w, "signMore")
    /\ LET k == req[w].contract IN
        /\ contract' = [j \in DOMAIN contract |->
                IF j \in Retired(k) THEN [contract[j] EXCEPT !.status = "SUPERSEDED"]
                ELSE IF j = k THEN [contract[j] EXCEPT !.status = "SIGNED"]
                ELSE contract[j]]
        /\ capability' = [c \in Capabilities |->
                IF c \in contract[k].covers THEN "ON" ELSE capability[c]]
    /\ Finish(w)
    /\ UNCHANGED <<business, billing, now, sweep>>

---------------------------------------------------------------------------
ContractStep(w) ==
    \/ \E answers \in SUBSET Capabilities : Apply(w, answers)
    \/ GrantDefaults(w) \/ Join(w)
    \/ ApproveRead(w) \/ Approve(w) \/ StartTrial(w)
    \/ LookForGoverning(w) \/ LookForPending(w) \/ Draft(w) \/ Propose(w)
    \/ \E c \in Capabilities : \/ AddRead(w, c)
                               \/ OperateRead(w, c)
                               \/ \E on \in BOOLEAN : SetsDirectly(w, c, on)
    \/ Set(w) \/ Cascade(w)
    \/ SignRead(w) \/ SignAs(w) \/ SignFirst(w) \/ SignMore(w)

\* activate, reject and suspend ask for nothing.
Decision == \E status \in {"ACTIVE", "REJECTED", "SUSPENDED"} : Decide(status)
=============================================================================
