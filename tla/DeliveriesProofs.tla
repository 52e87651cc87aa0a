-------------------------- MODULE DeliveriesProofs --------------------------
(***************************************************************************)
(* What holds of Deliveries for every set of requests, sweeps, riders and  *)
(* deliveries, and every number of attempts.                               *)
(***************************************************************************)
EXTENDS Deliveries, TLAPS

(***************************************************************************)
(* TypeOK is inductive once the ids a task carries are known to be ids,    *)
(* and what it is about to write a value of the column.                    *)
(***************************************************************************)
RowInv ==
    /\ rider \in [Riders -> RiderRow]
    /\ delivery \in [Deliveries -> DeliveryRow]
    /\ history \in [Deliveries -> History]
    /\ proven \in [Deliveries -> BOOLEAN]
    /\ earned \in [Deliveries -> Nat]

OnRider == {"assign", "assignWrite", "replace", "accept", "verify", "complete", "availability"}

WellFormed(t) ==
    /\ t \in Task
    /\ t.pc \notin {"idle", "availability"} => t.delivery \in Deliveries
    /\ t.pc \in OnRider => t.rider \in Riders
    /\ t.pc \in {"assign", "assignWrite"} => t.source \in {"AUTO", "ADMIN"}
    /\ t.pc \in {"reassign", "rematch"} => t.action \in Answers
    /\ t.pc = "transition" => t.target \in TransitionTargets
    /\ t.pc = "availability" => t.status \in Availabilities

ReqInv == req \in [Workers -> Task] /\ \A w \in Workers : WellFormed(req[w])

TypeInv == RowInv /\ ReqInv

LEMMA IdleTask == Idle \in Task /\ Idle.pc = "idle"
BY DEF Idle, Task, Steps, None

LEMMA IdleWellFormed == WellFormed(Idle)
BY IdleTask DEF WellFormed, OnRider

LEMMA TaskMove ==
    ASSUME ReqInv, NEW w \in Workers, NEW t, WellFormed(t), req' = [req EXCEPT ![w] = t]
    PROVE  ReqInv'
BY DEF ReqInv, WellFormed

LEMMA TaskEnd == ASSUME ReqInv, NEW w \in Workers, Finish(w) PROVE ReqInv'
BY TaskMove, IdleWellFormed DEF Finish

(***************************************************************************)
(* The tasks a request or a sweep starts with are well formed.             *)
(***************************************************************************)
LEMMA CreateTask ==
    ASSUME NEW d \in Deliveries, NEW r \in Riders \cup {None}
    PROVE  WellFormed([Idle EXCEPT !.pc = "create", !.delivery = d, !.rider = r])
<1> DEFINE t == [Idle EXCEPT !.pc = "create", !.delivery = d, !.rider = r]
<1>0. "create" \in Steps
  BY DEF Steps
<1>1. t \in Task /\ t.pc = "create" /\ t.delivery = d
  BY IdleTask, <1>0 DEF Task
<1> QED BY <1>1 DEF WellFormed, OnRider

LEMMA RetryTask ==
    ASSUME NEW d \in Deliveries, NEW r \in Riders
    PROVE  WellFormed([Idle EXCEPT !.pc = "assign", !.delivery = d, !.rider = r,
                                   !.source = "AUTO"])
<1> DEFINE t == [Idle EXCEPT !.pc = "assign", !.delivery = d, !.rider = r, !.source = "AUTO"]
<1>0. "assign" \in Steps
  BY DEF Steps
<1>1. t \in Task /\ t.pc = "assign" /\ t.delivery = d /\ t.rider = r /\ t.source = "AUTO"
  BY IdleTask, <1>0 DEF Task
<1> QED BY <1>1 DEF WellFormed, OnRider

LEMMA AdminTask ==
    ASSUME NEW pc \in {"assign", "replace"}, NEW d \in Deliveries, NEW r \in Riders,
           NEW prev \in Riders \cup {None}
    PROVE  WellFormed([Idle EXCEPT !.pc = pc, !.delivery = d, !.rider = r, !.prev = prev,
                                   !.source = "ADMIN"])
<1> DEFINE t == [Idle EXCEPT !.pc = pc, !.delivery = d, !.rider = r, !.prev = prev,
                             !.source = "ADMIN"]
<1>0. pc \in Steps
  BY DEF Steps
<1>1. t \in Task /\ t.pc = pc /\ t.delivery = d /\ t.rider = r /\ t.source = "ADMIN"
  BY IdleTask, <1>0 DEF Task
<1> QED BY <1>1 DEF WellFormed, OnRider

LEMMA ReassignTask ==
    ASSUME NEW d \in Deliveries, NEW action \in {"REJECTED", "TIMED_OUT"}
    PROVE  WellFormed([Idle EXCEPT !.pc = "reassign", !.delivery = d, !.action = action])
<1> DEFINE t == [Idle EXCEPT !.pc = "reassign", !.delivery = d, !.action = action]
<1>0. "reassign" \in Steps /\ action \in HistoryActions
  BY DEF Steps, HistoryActions
<1>1. t \in Task /\ t.pc = "reassign" /\ t.delivery = d /\ t.action = action
  BY IdleTask, <1>0 DEF Task
<1> QED BY <1>1 DEF WellFormed, OnRider, Answers

LEMMA CancelTask ==
    ASSUME NEW d \in Deliveries, NEW prev \in Riders \cup {None}
    PROVE  WellFormed([Idle EXCEPT !.pc = "cancel", !.delivery = d, !.prev = prev])
<1> DEFINE t == [Idle EXCEPT !.pc = "cancel", !.delivery = d, !.prev = prev]
<1>0. "cancel" \in Steps
  BY DEF Steps
<1>1. t \in Task /\ t.pc = "cancel" /\ t.delivery = d
  BY IdleTask, <1>0 DEF Task
<1> QED BY <1>1 DEF WellFormed, OnRider

LEMMA RiderTask ==
    ASSUME NEW pc \in {"accept", "verify"}, NEW d \in Deliveries, NEW r \in Riders
    PROVE  WellFormed([Idle EXCEPT !.pc = pc, !.delivery = d, !.rider = r])
<1> DEFINE t == [Idle EXCEPT !.pc = pc, !.delivery = d, !.rider = r]
<1>0. pc \in Steps
  BY DEF Steps
<1>1. t \in Task /\ t.pc = pc /\ t.delivery = d /\ t.rider = r
  BY IdleTask, <1>0 DEF Task
<1> QED BY <1>1 DEF WellFormed, OnRider

LEMMA TransitionTask ==
    ASSUME NEW d \in Deliveries, NEW target \in TransitionTargets
    PROVE  WellFormed([Idle EXCEPT !.pc = "transition", !.delivery = d, !.target = target])
<1> DEFINE t == [Idle EXCEPT !.pc = "transition", !.delivery = d, !.target = target]
<1>0. "transition" \in Steps /\ target \in DeliveryStatuses
  BY DEF Steps, TransitionTargets, DeliveryStatuses
<1>1. t \in Task /\ t.pc = "transition" /\ t.delivery = d /\ t.target = target
  BY IdleTask, <1>0 DEF Task
<1> QED BY <1>1 DEF WellFormed, OnRider

LEMMA AvailabilityTask ==
    ASSUME NEW r \in Riders, NEW status \in Availabilities
    PROVE  WellFormed([Idle EXCEPT !.pc = "availability", !.rider = r, !.status = status])
<1> DEFINE t == [Idle EXCEPT !.pc = "availability", !.rider = r, !.status = status]
<1>0. "availability" \in Steps
  BY DEF Steps
<1>1. t \in Task /\ t.pc = "availability" /\ t.rider = r /\ t.status = status
  BY IdleTask, <1>0 DEF Task
<1> QED BY <1>1 DEF WellFormed, OnRider

(***************************************************************************)
(* ... and stay well formed from one step of the work to the next.         *)
(***************************************************************************)
LEMMA AssignTask ==
    ASSUME NEW t, WellFormed(t), t.pc = "assign"
    PROVE  WellFormed([t EXCEPT !.pc = "assignWrite"])
<1> DEFINE u == [t EXCEPT !.pc = "assignWrite"]
<1>0. "assignWrite" \in Steps
  BY DEF Steps
<1>1. t \in Task /\ t.delivery \in Deliveries /\ t.rider \in Riders /\ t.source \in {"AUTO", "ADMIN"}
  BY DEF WellFormed, OnRider
<1>2. /\ u \in Task /\ u.pc = "assignWrite" /\ u.delivery = t.delivery /\ u.rider = t.rider
      /\ u.source = t.source
  BY <1>0, <1>1 DEF Task
<1> QED BY <1>1, <1>2 DEF WellFormed, OnRider

LEMMA CompleteTask ==
    ASSUME NEW t, WellFormed(t), t.pc = "verify"
    PROVE  WellFormed([t EXCEPT !.pc = "complete"])
<1> DEFINE u == [t EXCEPT !.pc = "complete"]
<1>0. "complete" \in Steps
  BY DEF Steps
<1>1. t \in Task /\ t.delivery \in Deliveries /\ t.rider \in Riders
  BY DEF WellFormed, OnRider
<1>2. u \in Task /\ u.pc = "complete" /\ u.delivery = t.delivery /\ u.rider = t.rider
  BY <1>0, <1>1 DEF Task
<1> QED BY <1>1, <1>2 DEF WellFormed, OnRider

LEMMA RematchTask ==
    ASSUME NEW t, WellFormed(t), t.pc = "reassign",
           NEW prev \in Riders \cup {None}, NEW r \in Riders \cup {None}
    PROVE  WellFormed([t EXCEPT !.pc = "rematch", !.prev = prev, !.rider = r])
<1> DEFINE u == [t EXCEPT !.pc = "rematch", !.prev = prev, !.rider = r]
<1>0. "rematch" \in Steps
  BY DEF Steps
<1>1. t \in Task /\ t.delivery \in Deliveries /\ t.action \in Answers
  BY DEF WellFormed
<1>2. u \in Task /\ u.pc = "rematch" /\ u.delivery = t.delivery /\ u.action = t.action
  BY <1>0, <1>1 DEF Task
<1> QED BY <1>1, <1>2 DEF WellFormed, OnRider

(***************************************************************************)
(* The rows that are written.                                              *)
(***************************************************************************)
LEMMA LoggedTyped ==
    ASSUME NEW h \in History, NEW action \in HistoryActions, NEW r \in Riders \cup {None}
    PROVE  /\ Logged(h, action, r) \in History
           /\ Logged(h, action, r).last = [action |-> action, rider |-> r]
BY DEF Logged, History, HistoryRow

LEMMA RematchedTyped ==
    ASSUME NEW h \in History, NEW action \in HistoryActions,
           NEW prev \in Riders \cup {None}, NEW r \in Riders
    PROVE  /\ Rematched(h, action, prev, r) \in History
           /\ Rematched(h, action, prev, r).last = [action |-> "ASSIGNED", rider |-> r]
<1>1. "ASSIGNED" \in HistoryActions
  BY DEF HistoryActions
<1> QED BY <1>1, LoggedTyped DEF Rematched

LEMMA FreedTyped ==
    ASSUME rider \in [Riders -> RiderRow], NEW r \in Riders \cup {None}
    PROVE  Freed(r) \in [Riders -> RiderRow]
BY DEF Freed, RiderRow, Availabilities

LEMMA AssignedTyped ==
    ASSUME NEW r \in Riders, NEW source \in {"AUTO", "ADMIN"}
    PROVE  /\ Assigned(r, source) \in DeliveryRow
           /\ Assigned(r, source).status = "RIDER_ASSIGNED" /\ Assigned(r, source).rider = r
BY DEF Assigned, DeliveryRow, DeliveryStatuses

LEMMA StatusTyped ==
    ASSUME delivery \in [Deliveries -> DeliveryRow], NEW d \in Deliveries,
           NEW s \in DeliveryStatuses
    PROVE  [delivery EXCEPT ![d].status = s] \in [Deliveries -> DeliveryRow]
BY DEF DeliveryRow

LEMMA PicksTyped == ASSUME NEW excluded PROVE Picks(excluded) \subseteq Riders \cup {None}
BY DEF Picks, Candidates

LEMMA InitTypeInv == Init => TypeInv
<1> SUFFICES ASSUME Init PROVE TypeInv
    OBVIOUS
<1>1. rider \in [Riders -> RiderRow]
  BY DEF Init, RiderRow, Availabilities
<1>2. delivery \in [Deliveries -> DeliveryRow]
  BY DEF Init, NoDelivery, DeliveryRow
<1>3. history \in [Deliveries -> History]
  BY DEF Init, NoHistory, NoRow, History, HistoryRow
<1>4. RowInv
  BY <1>1, <1>2, <1>3 DEF Init, RowInv
<1>5. ReqInv
  BY IdleTask, IdleWellFormed DEF Init, ReqInv
<1> QED BY <1>4, <1>5 DEF TypeInv

LEMMA FailTypeInv == ASSUME TypeInv, NEW w \in Workers, Fail(w) PROVE TypeInv'
<1>1. ReqInv'
  BY TaskEnd DEF Fail, TypeInv
<1> QED BY <1>1 DEF Fail, TypeInv, RowInv

LEMMA DispatchRequestTypeInv ==
    ASSUME TypeInv, NEW w \in Workers, DispatchRequest(w)
    PROVE  TypeInv'
<1>w. ReqInv /\ RowInv /\ WellFormed(req[w])
  BY DEF TypeInv, ReqInv
<1>1. ASSUME NEW d \in Deliveries, CreateRead(w, d) PROVE TypeInv'
  <2>1. PICK r \in Riders \cup {None} :
            req' = [req EXCEPT ![w] = [Idle EXCEPT !.pc = "create", !.delivery = d, !.rider = r]]
    BY <1>1, PicksTyped DEF CreateRead, Start
  <2>2. ReqInv'
    BY <1>w, <2>1, CreateTask, TaskMove
  <2> QED BY <1>w, <1>1, <2>2 DEF CreateRead, TypeInv, RowInv
<1>2. ASSUME NEW d \in Deliveries, RejectRead(w, d) PROVE TypeInv'
  <2>1. ReqInv'
    BY <1>w, <1>2, ReassignTask, TaskMove DEF RejectRead, Start
  <2> QED BY <1>w, <1>2, <2>1 DEF RejectRead, TypeInv, RowInv
<1>3. ASSUME NEW d \in Deliveries, CancelRead(w, d) PROVE TypeInv'
  <2>1. delivery[d].rider \in Riders \cup {None}
    BY <1>w DEF RowInv, DeliveryRow
  <2>2. ReqInv'
    BY <1>w, <1>3, <2>1, CancelTask, TaskMove DEF CancelRead, Start
  <2> QED BY <1>w, <1>3, <2>2 DEF CancelRead, TypeInv, RowInv
<1>4. ASSUME NEW d \in Deliveries, NEW r \in Riders, AdminRead(w, d, r) PROVE TypeInv'
  <2>1. delivery[d].rider \in Riders \cup {None}
    BY <1>w DEF RowInv, DeliveryRow
  <2> DEFINE pc == IF delivery[d].rider = None THEN "assign" ELSE "replace"
  <2>2. pc \in {"assign", "replace"}
    OBVIOUS
  <2>3. req' = [req EXCEPT ![w] = [Idle EXCEPT !.pc = pc, !.delivery = d, !.rider = r,
                                       !.prev = delivery[d].rider, !.source = "ADMIN"]]
    BY <1>4 DEF AdminRead, Start
  <2>4. WellFormed([Idle EXCEPT !.pc = pc, !.delivery = d, !.rider = r,
                                !.prev = delivery[d].rider, !.source = "ADMIN"])
    BY <2>1, <2>2, AdminTask
  <2>5. ReqInv'
    BY <1>w, <2>3, <2>4, TaskMove
  <2> QED BY <1>w, <1>4, <2>5 DEF AdminRead, TypeInv, RowInv
<1>5. CASE CreateCommit(w)
  <2> DEFINE d == req[w].delivery
             r == req[w].rider
  <2>1. d \in Deliveries /\ r \in Riders \cup {None}
    BY <1>w, <1>5 DEF CreateCommit, At, WellFormed, Task
  <2>2. "ASSIGNED" \in HistoryActions /\ "SEARCHING_RIDER" \in DeliveryStatuses
    BY DEF HistoryActions, DeliveryStatuses
  <2>3. ReqInv'
    BY <1>w, <1>5, TaskEnd DEF CreateCommit
  <2>4. CASE delivery[d] # NoDelivery
    BY <1>w, <1>5, <2>3, <2>4 DEF CreateCommit, TypeInv, RowInv
  <2>5. CASE delivery[d] = NoDelivery /\ r = None
    <3>1. delivery' = [delivery EXCEPT ![d].status = "SEARCHING_RIDER"] /\ UNCHANGED history
      BY <1>5, <2>5 DEF CreateCommit
    <3>2. delivery' \in [Deliveries -> DeliveryRow]
      BY <1>w, <2>1, <2>2, <3>1, StatusTyped DEF RowInv
    <3> QED BY <1>w, <1>5, <2>3, <3>1, <3>2 DEF CreateCommit, TypeInv, RowInv
  <2>6. CASE delivery[d] = NoDelivery /\ r # None
    <3>1. /\ delivery' = [delivery EXCEPT ![d] = Assigned(r, "AUTO")]
          /\ history' = [history EXCEPT ![d] = Logged(history[d], "ASSIGNED", r)]
      BY <1>5, <2>6 DEF CreateCommit
    <3>2. Assigned(r, "AUTO") \in DeliveryRow
      BY <2>1, <2>6, AssignedTyped
    <3>3. Logged(history[d], "ASSIGNED", r) \in History
      BY <1>w, <2>1, <2>2, LoggedTyped DEF RowInv
    <3> QED BY <1>w, <1>5, <2>3, <3>1, <3>2, <3>3 DEF CreateCommit, TypeInv, RowInv
  <2> QED BY <2>4, <2>5, <2>6
<1>6. CASE ReplaceCommit(w)
  <2> DEFINE d == req[w].delivery
             r == req[w].rider
             prev == req[w].prev
             logged == Logged(Logged(history[d], "REASSIGNED", prev), "ASSIGNED", r)
  <2>1. d \in Deliveries /\ r \in Riders /\ prev \in Riders \cup {None}
    BY <1>w, <1>6 DEF ReplaceCommit, At, WellFormed, Task, OnRider
  <2>2. "ASSIGNED" \in HistoryActions /\ "REASSIGNED" \in HistoryActions
    BY DEF HistoryActions
  <2>3. /\ delivery' = [delivery EXCEPT ![d] = Assigned(r, "ADMIN")]
        /\ history' = [history EXCEPT ![d] = logged]
        /\ rider' = Freed(prev)
    BY <1>6 DEF ReplaceCommit
  <2>4. logged \in History
    BY <1>w, <2>1, <2>2, LoggedTyped DEF RowInv
  <2>5. Assigned(r, "ADMIN") \in DeliveryRow /\ rider' \in [Riders -> RiderRow]
    BY <1>w, <2>1, <2>3, AssignedTyped, FreedTyped DEF RowInv
  <2>6. ReqInv'
    BY <1>w, <1>6, TaskEnd DEF ReplaceCommit
  <2>7. history' \in [Deliveries -> History] /\ delivery' \in [Deliveries -> DeliveryRow]
    BY <1>w, <2>3, <2>4, <2>5 DEF RowInv
  <2> QED BY <1>w, <1>6, <2>5, <2>6, <2>7 DEF ReplaceCommit, TypeInv, RowInv
<1>7. CASE CancelCommit(w)
  <2> DEFINE d == req[w].delivery
             prev == req[w].prev
             logged == Logged(history[d], "CANCELLED", prev)
  <2>1. d \in Deliveries /\ prev \in Riders \cup {None}
    BY <1>w, <1>7 DEF CancelCommit, At, WellFormed, Task
  <2>2. "CANCELLED" \in HistoryActions /\ "CANCELLED" \in DeliveryStatuses
    BY DEF HistoryActions, DeliveryStatuses
  <2>3. /\ delivery' = [delivery EXCEPT ![d].status = "CANCELLED"]
        /\ history' = [history EXCEPT ![d] = logged]
        /\ rider' = Freed(prev)
    BY <1>7 DEF CancelCommit
  <2>4. logged \in History
    BY <1>w, <2>1, <2>2, LoggedTyped DEF RowInv
  <2>5. delivery' \in [Deliveries -> DeliveryRow] /\ rider' \in [Riders -> RiderRow]
    BY <1>w, <2>1, <2>2, <2>3, StatusTyped, FreedTyped DEF RowInv
  <2>6. ReqInv'
    BY <1>w, <1>7, TaskEnd DEF CancelCommit
  <2>7. history' \in [Deliveries -> History]
    BY <1>w, <2>3, <2>4 DEF RowInv
  <2> QED BY <1>w, <1>7, <2>5, <2>6, <2>7 DEF CancelCommit, TypeInv, RowInv
<1> QED BY <1>1, <1>2, <1>3, <1>4, <1>5, <1>6, <1>7 DEF DispatchRequest

LEMMA SweepTypeInv == ASSUME TypeInv, NEW w \in Workers, Sweep(w) PROVE TypeInv'
<1>w. ReqInv /\ RowInv
  BY DEF TypeInv
<1>1. ASSUME NEW d \in Deliveries, RetryRead(w, d) PROVE TypeInv'
  <2>1. PICK r \in Riders :
            req' = [req EXCEPT ![w] = [Idle EXCEPT !.pc = "assign", !.delivery = d,
                                                   !.rider = r, !.source = "AUTO"]]
    BY <1>1 DEF RetryRead, Start, Candidates
  <2>2. ReqInv'
    BY <1>w, <2>1, RetryTask, TaskMove
  <2> QED BY <1>w, <1>1, <2>2 DEF RetryRead, TypeInv, RowInv
<1>2. ASSUME NEW d \in Deliveries, TimeoutRead(w, d) PROVE TypeInv'
  <2>1. ReqInv'
    BY <1>w, <1>2, ReassignTask, TaskMove DEF TimeoutRead, Start
  <2> QED BY <1>w, <1>2, <2>1 DEF TimeoutRead, TypeInv, RowInv
<1> QED BY <1>1, <1>2 DEF Sweep

LEMMA DispatchStepTypeInv == ASSUME TypeInv, NEW w \in Workers, DispatchStep(w) PROVE TypeInv'
<1>w. ReqInv /\ RowInv /\ WellFormed(req[w])
  BY DEF TypeInv, ReqInv
<1>1. CASE AssignRead(w)
  <2>1. ReqInv'
    BY <1>w, <1>1, AssignTask, TaskMove, TaskEnd DEF AssignRead, At, Continue
  <2> QED BY <1>w, <1>1, <2>1 DEF AssignRead, TypeInv, RowInv
<1>2. CASE AssignWrite(w)
  <2> DEFINE d == req[w].delivery
             r == req[w].rider
             source == req[w].source
  <2>1. d \in Deliveries /\ r \in Riders /\ source \in {"AUTO", "ADMIN"}
    BY <1>w, <1>2 DEF AssignWrite, At, WellFormed, OnRider
  <2>2. "ASSIGNED" \in HistoryActions
    BY DEF HistoryActions
  <2>3. /\ delivery' = [delivery EXCEPT ![d] = Assigned(r, source)]
        /\ history' = [history EXCEPT ![d] = Logged(history[d], "ASSIGNED", r)]
    BY <1>2 DEF AssignWrite
  <2>4. Logged(history[d], "ASSIGNED", r) \in History /\ Assigned(r, source) \in DeliveryRow
    BY <1>w, <2>1, <2>2, LoggedTyped, AssignedTyped DEF RowInv
  <2>5. ReqInv'
    BY <1>w, <1>2, TaskEnd DEF AssignWrite
  <2> QED BY <1>w, <1>2, <2>3, <2>4, <2>5 DEF AssignWrite, TypeInv, RowInv
<1>3. CASE Reassign(w)
  <2> DEFINE prev == delivery[req[w].delivery].rider
  <2>1. req[w].delivery \in Deliveries /\ At(w, "reassign")
    BY <1>w, <1>3 DEF Reassign, At, WellFormed
  <2>2. prev \in Riders \cup {None}
    BY <1>w, <2>1 DEF RowInv, DeliveryRow
  <2>3. \/ Finish(w)
        \/ \E r \in Riders \cup {None} :
            req' = [req EXCEPT ![w] = [req[w] EXCEPT !.pc = "rematch", !.prev = prev, !.rider = r]]
    BY <1>3, PicksTyped DEF Reassign, Continue
  <2>4. ASSUME NEW r \in Riders \cup {None},
               req' = [req EXCEPT ![w] = [req[w] EXCEPT !.pc = "rematch", !.prev = prev, !.rider = r]]
        PROVE  ReqInv'
    <3>1. WellFormed([req[w] EXCEPT !.pc = "rematch", !.prev = prev, !.rider = r])
      BY <1>w, <2>1, <2>2, RematchTask DEF At
    <3> QED BY <1>w, <2>4, <3>1, TaskMove
  <2>5. ReqInv'
    BY <1>w, <2>3, <2>4, TaskEnd
  <2> QED BY <1>w, <1>3, <2>5 DEF Reassign, TypeInv, RowInv
<1>4. CASE RematchCommit(w)
  <2> DEFINE d == req[w].delivery
             r == req[w].rider
             prev == req[w].prev
             action == req[w].action
  <2>1. d \in Deliveries /\ r \in Riders \cup {None} /\ prev \in Riders \cup {None}
    BY <1>w, <1>4 DEF RematchCommit, At, WellFormed, Task
  <2>2. action \in HistoryActions /\ "SEARCHING_RIDER" \in DeliveryStatuses
    BY <1>w, <1>4 DEF RematchCommit, At, WellFormed, Answers, HistoryActions, DeliveryStatuses
  <2>3. rider' = Freed(prev)
    BY <1>4 DEF RematchCommit
  <2>4. rider' \in [Riders -> RiderRow]
    BY <1>w, <2>1, <2>3, FreedTyped DEF RowInv
  <2>5. ReqInv'
    BY <1>w, <1>4, TaskEnd DEF RematchCommit
  <2>6. CASE r = None
    <3>1. /\ delivery' = [delivery EXCEPT ![d].status = "SEARCHING_RIDER", ![d].rider = None]
          /\ history' = [history EXCEPT ![d] = Logged(history[d], action, prev)]
      BY <1>4, <2>6 DEF RematchCommit
    <3>2. delivery' \in [Deliveries -> DeliveryRow]
      BY <1>w, <2>1, <2>2, <3>1 DEF RowInv, DeliveryRow
    <3>3. history' \in [Deliveries -> History]
      BY <1>w, <2>1, <2>2, <3>1, LoggedTyped DEF RowInv
    <3> QED BY <1>w, <1>4, <2>4, <2>5, <3>2, <3>3 DEF RematchCommit, TypeInv, RowInv
  <2>7. CASE r # None
    <3>1. /\ delivery' = [delivery EXCEPT ![d] = Assigned(r, "AUTO")]
          /\ history' = [history EXCEPT ![d] = Rematched(history[d], action, prev, r)]
      BY <1>4, <2>7 DEF RematchCommit
    <3>2. Assigned(r, "AUTO") \in DeliveryRow /\ Rematched(history[d], action, prev, r) \in History
      BY <1>w, <2>1, <2>2, <2>7, AssignedTyped, RematchedTyped DEF RowInv
    <3>3. delivery' \in [Deliveries -> DeliveryRow] /\ history' \in [Deliveries -> History]
      BY <1>w, <3>1, <3>2 DEF RowInv
    <3> QED BY <1>w, <1>4, <2>4, <2>5, <3>3 DEF RematchCommit, TypeInv, RowInv
  <2> QED BY <2>6, <2>7
<1> QED BY <1>1, <1>2, <1>3, <1>4 DEF DispatchStep

LEMMA CourierStepTypeInv == ASSUME TypeInv, NEW w \in Workers, CourierStep(w) PROVE TypeInv'
<1>w. ReqInv /\ RowInv /\ WellFormed(req[w])
  BY DEF TypeInv, ReqInv
<1>1. ASSUME NEW d \in Deliveries, NEW r \in Riders, AcceptRead(w, d, r) PROVE TypeInv'
  <2>1. ReqInv'
    BY <1>w, <1>1, RiderTask, TaskMove DEF AcceptRead, Start
  <2> QED BY <1>w, <1>1, <2>1 DEF AcceptRead, TypeInv, RowInv
<1>2. ASSUME NEW d \in Deliveries, NEW r \in Riders, CompleteRead(w, d, r) PROVE TypeInv'
  <2>1. ReqInv'
    BY <1>w, <1>2, RiderTask, TaskMove DEF CompleteRead, Start
  <2> QED BY <1>w, <1>2, <2>1 DEF CompleteRead, TypeInv, RowInv
<1>3. ASSUME NEW d \in Deliveries, NEW target \in TransitionTargets, TransitionRead(w, d, target)
      PROVE  TypeInv'
  <2>1. ReqInv'
    BY <1>w, <1>3, TransitionTask, TaskMove DEF TransitionRead, Start
  <2> QED BY <1>w, <1>3, <2>1 DEF TransitionRead, TypeInv, RowInv
<1>4. CASE AcceptCommit(w)
  <2> DEFINE d == req[w].delivery
             r == req[w].rider
  <2>1. d \in Deliveries /\ r \in Riders
    BY <1>w, <1>4 DEF AcceptCommit, At, WellFormed, OnRider
  <2>2. "ACCEPTED" \in HistoryActions /\ "GOING_TO_PICKUP" \in DeliveryStatuses
    BY DEF HistoryActions, DeliveryStatuses
  <2>3. ReqInv'
    BY <1>w, <1>4, TaskEnd DEF AcceptCommit
  <2>4. CASE ~StillOffered(d, r)
    BY <1>w, <1>4, <2>3, <2>4 DEF AcceptCommit, TypeInv, RowInv
  <2>5. CASE StillOffered(d, r)
    <3>1. /\ delivery' = [delivery EXCEPT ![d].status = "GOING_TO_PICKUP"]
          /\ history' = [history EXCEPT ![d] = Logged(history[d], "ACCEPTED", r)]
          /\ rider' = [rider EXCEPT ![r].status = "BUSY"]
      BY <1>4, <2>5 DEF AcceptCommit
    <3>2. delivery' \in [Deliveries -> DeliveryRow]
      BY <1>w, <2>1, <2>2, <3>1, StatusTyped DEF RowInv
    <3>3. Logged(history[d], "ACCEPTED", r) \in History
      BY <1>w, <2>1, <2>2, LoggedTyped DEF RowInv
    <3>4. rider' \in [Riders -> RiderRow]
      BY <1>w, <2>1, <3>1 DEF RowInv, RiderRow, Availabilities
    <3> QED BY <1>w, <1>4, <2>3, <3>1, <3>2, <3>3, <3>4 DEF AcceptCommit, TypeInv, RowInv
  <2> QED BY <2>4, <2>5
<1>5. CASE TransitionWrite(w)
  <2>1. req[w].delivery \in Deliveries /\ req[w].target \in DeliveryStatuses
    BY <1>w, <1>5 DEF TransitionWrite, At, WellFormed, TransitionTargets, DeliveryStatuses
  <2>2. delivery' \in [Deliveries -> DeliveryRow]
    BY <1>w, <1>5, <2>1, StatusTyped DEF TransitionWrite, RowInv
  <2>3. ReqInv'
    BY <1>w, <1>5, TaskEnd DEF TransitionWrite
  <2> QED BY <1>w, <1>5, <2>2, <2>3 DEF TransitionWrite, TypeInv, RowInv
<1>6. CASE Verify(w)
  <2>1. WellFormed([req[w] EXCEPT !.pc = "complete"])
    BY <1>w, <1>6, CompleteTask DEF Verify, At
  <2>2. ReqInv'
    BY <1>w, <1>6, <2>1, TaskMove DEF Verify, Continue
  <2>3. proven' \in [Deliveries -> BOOLEAN]
    BY <1>w, <1>6 DEF Verify, RowInv
  <2> QED BY <1>w, <1>6, <2>2, <2>3 DEF Verify, TypeInv, RowInv
<1>7. CASE CompleteCommit(w)
  <2> DEFINE d == req[w].delivery
             r == req[w].rider
  <2>1. d \in Deliveries /\ r \in Riders
    BY <1>w, <1>7 DEF CompleteCommit, At, WellFormed, OnRider
  <2>2. "DELIVERED" \in DeliveryStatuses
    BY DEF DeliveryStatuses
  <2>3. ReqInv'
    BY <1>w, <1>7, TaskEnd DEF CompleteCommit
  <2>4. CASE ~AtCustomer(d)
    BY <1>w, <1>7, <2>3, <2>4 DEF CompleteCommit, TypeInv, RowInv
  <2>5. CASE AtCustomer(d)
    <3>1. /\ delivery' = [delivery EXCEPT ![d].status = "DELIVERED"]
          /\ earned' = [earned EXCEPT ![d] = earned[d] + 1]
          /\ rider' = Freed(r)
      BY <1>7, <2>5 DEF CompleteCommit
    <3>2. delivery' \in [Deliveries -> DeliveryRow]
      BY <1>w, <2>1, <2>2, <3>1, StatusTyped DEF RowInv
    <3>3. rider' \in [Riders -> RiderRow]
      BY <1>w, <2>1, <3>1, FreedTyped DEF RowInv
    <3>4. earned[d] + 1 \in Nat
      BY <1>w, <2>1 DEF RowInv
    <3>5. earned' \in [Deliveries -> Nat]
      BY <1>w, <3>1, <3>4 DEF RowInv
    <3> QED BY <1>w, <1>7, <2>3, <3>2, <3>3, <3>5 DEF CompleteCommit, TypeInv, RowInv
  <2> QED BY <2>4, <2>5
<1> QED BY <1>1, <1>2, <1>3, <1>4, <1>5, <1>6, <1>7 DEF CourierStep

LEMMA RiderStepTypeInv == ASSUME TypeInv, NEW w \in Workers, RiderStep(w) PROVE TypeInv'
<1>w. ReqInv /\ RowInv /\ WellFormed(req[w])
  BY DEF TypeInv, ReqInv
<1>1. ASSUME NEW r \in Riders, NEW status \in Availabilities, AvailabilityRead(w, r, status)
      PROVE  TypeInv'
  <2>1. ReqInv'
    BY <1>w, <1>1, AvailabilityTask, TaskMove DEF AvailabilityRead, Start
  <2> QED BY <1>w, <1>1, <2>1 DEF AvailabilityRead, TypeInv, RowInv
<1>2. ASSUME NEW r \in Riders, Suspend(w, r) \/ Reactivate(w, r) PROVE TypeInv'
  <2>0. rider[r] \in RiderRow
    BY <1>w DEF RowInv
  <2>1. [rider[r] EXCEPT !.active = FALSE, !.status = "OFFLINE"] \in RiderRow
    BY <2>0 DEF RiderRow, Availabilities
  <2>2. [rider[r] EXCEPT !.active = TRUE] \in RiderRow
    BY <2>0 DEF RiderRow
  <2>3. rider' \in [Riders -> RiderRow]
    BY <1>w, <1>2, <2>1, <2>2 DEF Suspend, Reactivate, RowInv
  <2> QED BY <1>w, <1>2, <2>3 DEF Suspend, Reactivate, TypeInv, RowInv, ReqInv
<1>3. CASE AvailabilityWrite(w)
  <2>1. req[w].status \in Availabilities
    BY <1>w, <1>3 DEF AvailabilityWrite, At, WellFormed
  <2>2. rider' \in [Riders -> RiderRow]
    BY <1>w, <1>3, <2>1 DEF AvailabilityWrite, RowInv, RiderRow
  <2>3. ReqInv'
    BY <1>w, <1>3, TaskEnd DEF AvailabilityWrite
  <2> QED BY <1>w, <1>3, <2>2, <2>3 DEF AvailabilityWrite, TypeInv, RowInv
<1> QED BY <1>1, <1>2, <1>3 DEF RiderStep

LEMMA NextTypeInv == ASSUME TypeInv, [Next]_vars PROVE TypeInv'
<1>1. ASSUME NEW w \in Requests, DispatchRequest(w) \/ CourierStep(w) \/ RiderStep(w)
      PROVE  TypeInv'
  BY <1>1, DispatchRequestTypeInv, CourierStepTypeInv, RiderStepTypeInv DEF Workers
<1>2. ASSUME NEW w \in Sweepers, Sweep(w) PROVE TypeInv'
  BY <1>2, SweepTypeInv DEF Workers
<1>3. ASSUME NEW w \in Workers, DispatchStep(w) \/ Fail(w) PROVE TypeInv'
  BY <1>3, DispatchStepTypeInv, FailTypeInv
<1>4. ASSUME NEW r \in Riders, Roam(r) PROVE TypeInv'
  <2>1. rider' \in [Riders -> RiderRow]
    BY <1>4 DEF Roam, TypeInv, RowInv, RiderRow
  <2> QED BY <1>4, <2>1 DEF Roam, TypeInv, RowInv, ReqInv
<1>5. CASE UNCHANGED vars
  BY <1>5 DEF vars, TypeInv, RowInv, ReqInv
<1> QED BY <1>1, <1>2, <1>3, <1>4, <1>5 DEF Next

THEOREM DeliveryTypeInvariant == Spec => []TypeInv
BY InitTypeInv, NextTypeInv, PTL DEF Spec

(***************************************************************************)
(* Every row keeps its type; in particular no null rider gets into the     *)
(* set of riders a search excludes (dispatch, reassign).                   *)
(***************************************************************************)
THEOREM DeliveryTypeCorrect == Spec => []TypeOK
<1>1. TypeInv => TypeOK
  BY DEF TypeInv, RowInv, ReqInv, TypeOK
<1> QED BY <1>1, DeliveryTypeInvariant, PTL

---------------------------------------------------------------------------
(***************************************************************************)
(* Offers.  OfferIsOnRecord needs no strengthening to be inductive, but    *)
(* OfferAnsweredOnce does: a reassignment that holds the lock of a row     *)
(* must still find there, when it commits, the offer it took from it, and  *)
(* it must be the only one (LockInv).                                      *)
(***************************************************************************)
LockInv ==
    \A w \in Workers :
        At(w, "rematch") =>
            /\ delivery[req[w].delivery].status = "RIDER_ASSIGNED"
            /\ delivery[req[w].delivery].rider = req[w].prev
            /\ \A v \in Workers :
                At(v, "rematch") /\ req[v].delivery = req[w].delivery => v = w

OfferInv == TypeInv /\ OfferIsOnRecord /\ LockInv

Answered(d) ==
    history'[d].last # history[d].last /\ history'[d].last.action \in Answers =>
        history[d].last.action = "ASSIGNED" /\ history[d].last.rider = history'[d].last.rider

\* Worker w goes on with a task that holds no lock, or with no task.
GoesOn(w) == \E t : t.pc # "rematch" /\ req' = [req EXCEPT ![w] = t]

(***************************************************************************)
(* What a step does to offers.  It leaves the deliveries and their history *)
(* alone; or it takes the lock of an offer; or it writes one delivery that *)
(* nobody else has locked, leaving its offer on record.                    *)
(***************************************************************************)
Leaves == UNCHANGED <<delivery, history>> /\ (UNCHANGED req \/ \E w \in Workers : GoesOn(w))

Takes(w, d) ==
    /\ UNCHANGED <<delivery, history>>
    /\ delivery[d].status = "RIDER_ASSIGNED" /\ LockFree(d)
    /\ \E t : /\ t.pc = "rematch" /\ t.delivery = d /\ t.prev = delivery[d].rider
              /\ req' = [req EXCEPT ![w] = t]

Unlocked(w, d) ==
    \A v \in Workers \ {w} : At(v, "rematch") => req[v].delivery # d

Writes(w, d) ==
    /\ Unlocked(w, d)
    /\ req' = [req EXCEPT ![w] = Idle]
    /\ \A e \in Deliveries \ {d} : delivery'[e] = delivery[e] /\ history'[e] = history[e]
    /\ delivery'[d].status = "RIDER_ASSIGNED" =>
            history'[d].last = [action |-> "ASSIGNED", rider |-> delivery'[d].rider]
    /\ Answered(d)

OfferStep == Leaves \/ \E w \in Workers, d \in Deliveries : Takes(w, d) \/ Writes(w, d)

LEMMA StartGoesOn ==
    ASSUME NEW w, NEW t, t.pc # "rematch", req' = [req EXCEPT ![w] = t]
    PROVE  GoesOn(w)
BY DEF GoesOn

LEMMA FinishGoesOn == ASSUME NEW w, Finish(w) PROVE GoesOn(w)
BY IdleTask, StartGoesOn DEF Finish

(***************************************************************************)
(* Steps of these three kinds keep OfferInv and answer offers once.        *)
(***************************************************************************)
LEMMA OfferStepSound ==
    ASSUME OfferInv, TypeInv', OfferStep
    PROVE  OfferInv' /\ \A d \in Deliveries : Answered(d)
<1>t. /\ req \in [Workers -> Task] /\ req' \in [Workers -> Task]
      /\ \A w \in Workers : At(w, "rematch") => req[w].delivery \in Deliveries
      /\ LockInv /\ OfferIsOnRecord
  BY DEF OfferInv, TypeInv, ReqInv, WellFormed, At
<1>1. CASE Leaves
  <2>1. OfferIsOnRecord'
    BY <1>t, <1>1 DEF Leaves, OfferIsOnRecord
  <2>2. \A w \in Workers : At(w, "rematch")' => At(w, "rematch") /\ req'[w] = req[w]
    BY <1>t, <1>1 DEF Leaves, GoesOn, At
  <2>3. LockInv'
    BY <1>t, <1>1, <2>2 DEF Leaves, LockInv, At
  <2> QED BY <1>1, <2>1, <2>3 DEF OfferInv, Leaves, Answered
<1>2. ASSUME NEW w \in Workers, NEW d \in Deliveries, Takes(w, d)
      PROVE  OfferInv' /\ \A e \in Deliveries : Answered(e)
  <2>1. OfferIsOnRecord'
    BY <1>t, <1>2 DEF Takes, OfferIsOnRecord
  <2>2. /\ req'[w].pc = "rematch" /\ req'[w].delivery = d /\ req'[w].prev = delivery[d].rider
        /\ \A v \in Workers \ {w} : req'[v] = req[v]
    BY <1>t, <1>2 DEF Takes
  <2>3. \A v \in Workers : At(v, "rematch") => req[v].delivery # d
    BY <1>2 DEF Takes, LockFree
  <2>4. LockInv'
    BY <1>t, <1>2, <2>2, <2>3 DEF Takes, LockInv, At
  <2> QED BY <1>2, <2>1, <2>4 DEF OfferInv, Takes, Answered
<1>3. ASSUME NEW w \in Workers, NEW d \in Deliveries, Writes(w, d)
      PROVE  OfferInv' /\ \A e \in Deliveries : Answered(e)
  <2>1. OfferIsOnRecord'
    BY <1>t, <1>3 DEF Writes, OfferIsOnRecord
  <2>2. \A v \in Workers : At(v, "rematch")' =>
            v # w /\ At(v, "rematch") /\ req'[v] = req[v] /\ req[v].delivery # d
    BY <1>t, <1>3, IdleTask DEF Writes, At, Unlocked
  <2>3. LockInv'
    BY <1>t, <1>3, <2>2 DEF Writes, LockInv, At
  <2>4. \A e \in Deliveries : Answered(e)
    BY <1>3 DEF Writes, Answered
  <2> QED BY <2>1, <2>3, <2>4 DEF OfferInv
<1> QED BY <1>1, <1>2, <1>3 DEF OfferStep

(***************************************************************************)
(* Every step is of one of the three kinds: first those that only read.    *)
(***************************************************************************)
LEMMA ReadsLeave ==
    ASSUME NEW w \in Workers, UNCHANGED <<delivery, history>>,
           NEW t, t.pc # "rematch", req' = [req EXCEPT ![w] = t]
    PROVE  OfferStep
BY StartGoesOn DEF OfferStep, Leaves

LEMMA FinishLeaves ==
    ASSUME NEW w \in Workers, UNCHANGED <<delivery, history>>, Finish(w)
    PROVE  OfferStep
BY FinishGoesOn DEF OfferStep, Leaves

LEMMA DispatchReadsOffer ==
    ASSUME NEW w \in Workers, NEW d \in Deliveries,
           \/ CreateRead(w, d) \/ RejectRead(w, d) \/ CancelRead(w, d)
           \/ RetryRead(w, d) \/ TimeoutRead(w, d) \/ \E r \in Riders : AdminRead(w, d, r)
    PROVE  OfferStep
<1>1. CASE CreateRead(w, d)
  <2>1. PICK q : req' = [req EXCEPT ![w] = [Idle EXCEPT !.pc = "create", !.delivery = d,
                                                        !.rider = q]]
    BY <1>1 DEF CreateRead, Start
  <2>2. [Idle EXCEPT !.pc = "create", !.delivery = d, !.rider = q].pc # "rematch"
    BY IdleTask DEF Task
  <2> QED BY <1>1, <2>1, <2>2, ReadsLeave DEF CreateRead
<1>2. CASE RetryRead(w, d)
  <2>1. PICK q : req' = [req EXCEPT ![w] = [Idle EXCEPT !.pc = "assign", !.delivery = d,
                                                        !.rider = q, !.source = "AUTO"]]
    BY <1>2 DEF RetryRead, Start
  <2>2. [Idle EXCEPT !.pc = "assign", !.delivery = d, !.rider = q,
                     !.source = "AUTO"].pc # "rematch"
    BY IdleTask DEF Task
  <2> QED BY <1>2, <2>1, <2>2, ReadsLeave DEF RetryRead
<1>3. CASE RejectRead(w, d)
  <2>1. [Idle EXCEPT !.pc = "reassign", !.delivery = d, !.action = "REJECTED"].pc # "rematch"
    BY IdleTask DEF Task
  <2> QED BY <1>3, <2>1, ReadsLeave DEF RejectRead, Start
<1>4. CASE TimeoutRead(w, d)
  <2>1. [Idle EXCEPT !.pc = "reassign", !.delivery = d, !.action = "TIMED_OUT"].pc # "rematch"
    BY IdleTask DEF Task
  <2> QED BY <1>4, <2>1, ReadsLeave DEF TimeoutRead, Start
<1>5. CASE CancelRead(w, d)
  <2>1. [Idle EXCEPT !.pc = "cancel", !.delivery = d, !.prev = delivery[d].rider].pc # "rematch"
    BY IdleTask DEF Task
  <2> QED BY <1>5, <2>1, ReadsLeave DEF CancelRead, Start
<1>6. ASSUME NEW r \in Riders, AdminRead(w, d, r) PROVE OfferStep
  <2>1. PICK pc \in {"assign", "replace"} :
            req' = [req EXCEPT ![w] = [Idle EXCEPT !.pc = pc, !.delivery = d, !.rider = r,
                                            !.prev = delivery[d].rider, !.source = "ADMIN"]]
    BY <1>6 DEF AdminRead, Start
  <2>2. [Idle EXCEPT !.pc = pc, !.delivery = d, !.rider = r,
                     !.prev = delivery[d].rider, !.source = "ADMIN"].pc # "rematch"
    BY IdleTask DEF Task
  <2>3. UNCHANGED <<delivery, history>>
    BY <1>6 DEF AdminRead
  <2> QED BY <2>1, <2>2, <2>3, ReadsLeave
<1> QED BY <1>1, <1>2, <1>3, <1>4, <1>5, <1>6

LEMMA CourierReadsOffer ==
    ASSUME NEW w \in Workers,
           \/ \E d \in Deliveries :
                \/ \E r \in Riders : AcceptRead(w, d, r) \/ CompleteRead(w, d, r)
                \/ \E target \in TransitionTargets : TransitionRead(w, d, target)
           \/ \E r \in Riders, status \in Availabilities : AvailabilityRead(w, r, status)
    PROVE  OfferStep
<1>1. ASSUME NEW d, NEW r, AcceptRead(w, d, r) PROVE OfferStep
  <2>1. [Idle EXCEPT !.pc = "accept", !.delivery = d, !.rider = r].pc # "rematch"
    BY IdleTask DEF Task
  <2> QED BY <1>1, <2>1, ReadsLeave DEF AcceptRead, Start
<1>2. ASSUME NEW d, NEW r, CompleteRead(w, d, r) PROVE OfferStep
  <2>1. [Idle EXCEPT !.pc = "verify", !.delivery = d, !.rider = r].pc # "rematch"
    BY IdleTask DEF Task
  <2> QED BY <1>2, <2>1, ReadsLeave DEF CompleteRead, Start
<1>3. ASSUME NEW d, NEW target, TransitionRead(w, d, target) PROVE OfferStep
  <2>1. [Idle EXCEPT !.pc = "transition", !.delivery = d, !.target = target].pc # "rematch"
    BY IdleTask DEF Task
  <2> QED BY <1>3, <2>1, ReadsLeave DEF TransitionRead, Start
<1>4. ASSUME NEW r, NEW status, AvailabilityRead(w, r, status) PROVE OfferStep
  <2>1. [Idle EXCEPT !.pc = "availability", !.rider = r, !.status = status].pc # "rematch"
    BY IdleTask DEF Task
  <2> QED BY <1>4, <2>1, ReadsLeave DEF AvailabilityRead, Start
<1> QED BY <1>1, <1>2, <1>3, <1>4

(***************************************************************************)
(* Then the steps of dispatch that write.                                  *)
(***************************************************************************)
LEMMA FreeIsUnlocked ==
    ASSUME NEW w, NEW d, LockFree(d)
    PROVE  Unlocked(w, d)
BY DEF LockFree, Unlocked

LEMMA Record ==
    ASSUME NEW h, NEW action, NEW r
    PROVE  /\ Logged(h, action, r).last.action = action
           /\ Logged(h, action, r).last.rider = r
           /\ Logged(h, action, r).last = [action |-> action, rider |-> r]
BY DEF Logged

LEMMA CreateCommitOffer ==
    ASSUME OfferInv, NEW w \in Workers, CreateCommit(w)
    PROVE  OfferStep
<1> DEFINE d == req[w].delivery
           r == req[w].rider
<1>t. /\ d \in Deliveries /\ r \in Riders \cup {None} /\ "ASSIGNED" \in HistoryActions
      /\ delivery \in [Deliveries -> DeliveryRow] /\ history \in [Deliveries -> History]
  BY DEF OfferInv, TypeInv, RowInv, ReqInv, WellFormed, CreateCommit, At, Task, HistoryActions
<1>1. CASE delivery[d] # NoDelivery
  BY <1>1, FinishLeaves DEF CreateCommit
<1>2. CASE delivery[d] = NoDelivery
  <2>1. delivery[d].status # "RIDER_ASSIGNED"
    BY <1>2 DEF NoDelivery, None
  <2>2. Unlocked(w, d)
    BY <2>1 DEF OfferInv, LockInv, Unlocked
  <2>3. req' = [req EXCEPT ![w] = Idle]
    BY DEF CreateCommit, Finish
  <2>4. CASE r = None
    <3>1. delivery' = [delivery EXCEPT ![d].status = "SEARCHING_RIDER"] /\ UNCHANGED history
      BY <1>2, <2>4 DEF CreateCommit
    <3>2. delivery'[d].status = "SEARCHING_RIDER"
      BY <1>t, <3>1 DEF DeliveryRow
    <3>3. Writes(w, d)
      BY <1>t, <2>2, <2>3, <3>1, <3>2 DEF Writes, Answered
    <3> QED BY <1>t, <3>3 DEF OfferStep
  <2>5. CASE r # None
    <3>1. /\ delivery' = [delivery EXCEPT ![d] = Assigned(r, "AUTO")]
          /\ history' = [history EXCEPT ![d] = Logged(history[d], "ASSIGNED", r)]
      BY <1>2, <2>5 DEF CreateCommit
    <3>2. delivery'[d].rider = r /\ history'[d].last = [action |-> "ASSIGNED", rider |-> r]
      BY <1>t, <3>1, Record DEF Assigned
    <3>3. Writes(w, d)
      BY <1>t, <2>2, <2>3, <3>1, <3>2 DEF Writes, Answered, Answers
    <3> QED BY <1>t, <3>3 DEF OfferStep
  <2> QED BY <2>4, <2>5
<1> QED BY <1>1, <1>2

LEMMA AssignmentsOffer ==
    ASSUME OfferInv, NEW w \in Workers, AssignWrite(w) \/ ReplaceCommit(w) \/ CancelCommit(w)
    PROVE  OfferStep
<1> DEFINE d == req[w].delivery
           r == req[w].rider
           prev == req[w].prev
<1>t. /\ d \in Deliveries /\ prev \in Riders \cup {None} /\ r \in Riders \cup {None}
      /\ {"ASSIGNED", "REASSIGNED", "CANCELLED"} \subseteq HistoryActions
      /\ delivery \in [Deliveries -> DeliveryRow] /\ history \in [Deliveries -> History]
  BY DEF OfferInv, TypeInv, RowInv, ReqInv, WellFormed, AssignWrite, ReplaceCommit, CancelCommit,
         At, Task, HistoryActions
<1>u. Unlocked(w, d) /\ req' = [req EXCEPT ![w] = Idle]
  BY FreeIsUnlocked DEF AssignWrite, ReplaceCommit, CancelCommit, Finish
<1>1. CASE AssignWrite(w)
  <2>1. /\ delivery' = [delivery EXCEPT ![d] = Assigned(r, req[w].source)]
        /\ history' = [history EXCEPT ![d] = Logged(history[d], "ASSIGNED", r)]
    BY <1>1 DEF AssignWrite
  <2>2. delivery'[d].rider = r /\ history'[d].last = [action |-> "ASSIGNED", rider |-> r]
    BY <1>t, <2>1, Record DEF Assigned
  <2>3. Writes(w, d)
    BY <1>t, <1>u, <2>1, <2>2 DEF Writes, Answered, Answers
  <2> QED BY <1>t, <2>3 DEF OfferStep
<1>2. CASE ReplaceCommit(w)
  <2> DEFINE h == Logged(history[d], "REASSIGNED", prev)
  <2>1. /\ delivery' = [delivery EXCEPT ![d] = Assigned(r, "ADMIN")]
        /\ history' = [history EXCEPT ![d] = Logged(h, "ASSIGNED", r)]
    BY <1>2 DEF ReplaceCommit
  <2>2. h \in History
    BY <1>t, LoggedTyped
  <2>3. delivery'[d].rider = r
    BY <1>t, <2>1 DEF Assigned
  <2>4. history'[d].last = [action |-> "ASSIGNED", rider |-> r]
    BY <1>t, <2>1, <2>2, Record
  <2>5. Writes(w, d)
    BY <1>t, <1>u, <2>1, <2>3, <2>4 DEF Writes, Answered, Answers
  <2> QED BY <1>t, <2>5 DEF OfferStep
<1>3. CASE CancelCommit(w)
  <2>1. /\ delivery' = [delivery EXCEPT ![d].status = "CANCELLED"]
        /\ history' = [history EXCEPT ![d] = Logged(history[d], "CANCELLED", prev)]
    BY <1>3 DEF CancelCommit
  <2>2. delivery'[d].status = "CANCELLED"
    BY <1>t, <2>1 DEF DeliveryRow
  <2>3. history'[d] = Logged(history[d], "CANCELLED", prev)
    BY <1>t, <2>1
  <2>4. history'[d].last.action = "CANCELLED"
    BY <2>3 DEF Logged
  <2>5. \A e \in Deliveries \ {d} : delivery'[e] = delivery[e] /\ history'[e] = history[e]
    BY <1>t, <2>1
  <2>6. Writes(w, d)
    BY <1>u, <2>2, <2>4, <2>5 DEF Writes, Answered, Answers
  <2> QED BY <1>t, <2>6 DEF OfferStep
<1> QED BY <1>1, <1>2, <1>3

(***************************************************************************)
(* Offers taken back.  While a reassignment holds the lock, the delivery   *)
(* is still the offer it took, so the last row on record is that offer.    *)
(***************************************************************************)
LEMMA ReassignOffer == ASSUME OfferInv, NEW w \in Workers, Reassign(w) PROVE OfferStep
<1> DEFINE d == req[w].delivery
<1>w. WellFormed(req[w]) /\ d \in Deliveries
  BY DEF OfferInv, TypeInv, ReqInv, WellFormed, Reassign, At
<1>1. CASE StillOpen(d)
  <2>1. PICK r : req' = [req EXCEPT ![w] = [req[w] EXCEPT !.pc = "rematch",
                                                 !.prev = delivery[d].rider, !.rider = r]]
    BY <1>1 DEF Reassign, Continue
  <2> DEFINE t == [req[w] EXCEPT !.pc = "rematch", !.prev = delivery[d].rider, !.rider = r]
  <2>2. t.pc = "rematch" /\ t.delivery = d /\ t.prev = delivery[d].rider
    BY <1>w DEF WellFormed, Task
  <2>3. /\ UNCHANGED <<delivery, history>>
        /\ delivery[d].status = "RIDER_ASSIGNED" /\ LockFree(d)
    BY <1>1 DEF Reassign, StillOpen
  <2>4. Takes(w, d)
    BY <2>1, <2>2, <2>3 DEF Takes
  <2> QED BY <1>w, <2>4 DEF OfferStep
<1>2. CASE ~StillOpen(d)
  BY <1>2, FinishLeaves DEF Reassign
<1> QED BY <1>1, <1>2

LEMMA RematchCommitOffer == ASSUME OfferInv, NEW w \in Workers, RematchCommit(w) PROVE OfferStep
<1> DEFINE d      == req[w].delivery
           r      == req[w].rider
           action == req[w].action
           prev   == req[w].prev
<1>t. /\ d \in Deliveries /\ prev \in Riders \cup {None} /\ r \in Riders \cup {None}
      /\ action \in Answers /\ action \in HistoryActions /\ "ASSIGNED" \in HistoryActions
      /\ delivery \in [Deliveries -> DeliveryRow] /\ history \in [Deliveries -> History]
  BY DEF OfferInv, TypeInv, RowInv, ReqInv, WellFormed, RematchCommit, At, Task,
         HistoryActions, Answers
<1>u. Unlocked(w, d)
  BY DEF OfferInv, LockInv, RematchCommit, Unlocked, At
<1>f. req' = [req EXCEPT ![w] = Idle]
  BY DEF RematchCommit, Finish
<1>l. delivery[d].status = "RIDER_ASSIGNED" /\ delivery[d].rider = prev
  BY DEF OfferInv, LockInv, RematchCommit
<1>h. history[d].last = [action |-> "ASSIGNED", rider |-> prev]
  BY <1>t, <1>l DEF OfferInv, OfferIsOnRecord
<1>o. history[d].last.action = "ASSIGNED" /\ history[d].last.rider = prev
  BY <1>h
<1>1. CASE r = None
  <2>1. /\ delivery' = [delivery EXCEPT ![d].status = "SEARCHING_RIDER", ![d].rider = None]
        /\ history' = [history EXCEPT ![d] = Logged(history[d], action, prev)]
    BY <1>1 DEF RematchCommit
  <2>2. delivery'[d].status = "SEARCHING_RIDER"
    BY <1>t, <2>1 DEF DeliveryRow
  <2>3. history'[d] = Logged(history[d], action, prev)
    BY <1>t, <2>1
  <2>4. history'[d].last.rider = prev
    BY <2>3 DEF Logged
  <2>5. \A e \in Deliveries \ {d} : delivery'[e] = delivery[e] /\ history'[e] = history[e]
    BY <1>t, <2>1
  <2>6. Writes(w, d)
    BY <1>u, <1>f, <1>o, <2>2, <2>4, <2>5 DEF Writes, Answered
  <2> QED BY <1>t, <2>6 DEF OfferStep
<1>2. CASE r # None
  <2> DEFINE h == Logged(history[d], action, prev)
  <2>1. /\ delivery' = [delivery EXCEPT ![d] = Assigned(r, "AUTO")]
        /\ history' = [history EXCEPT ![d] = Logged(h, "ASSIGNED", r)]
    BY <1>2 DEF RematchCommit, Rematched
  <2>2. h \in History
    BY <1>t, LoggedTyped
  <2>3. delivery'[d].rider = r
    BY <1>t, <2>1 DEF Assigned
  <2>4. history'[d].last = [action |-> "ASSIGNED", rider |-> r]
    BY <1>t, <2>1, <2>2, Record
  <2>5. \A e \in Deliveries \ {d} : delivery'[e] = delivery[e] /\ history'[e] = history[e]
    BY <1>t, <2>1
  <2>6. Writes(w, d)
    BY <1>u, <1>f, <2>3, <2>4, <2>5 DEF Writes, Answered, Answers
  <2> QED BY <1>t, <2>6 DEF OfferStep
<1> QED BY <1>1, <1>2

LEMMA AssignReadOffer == ASSUME OfferInv, NEW w \in Workers, AssignRead(w) PROVE OfferStep
<1>1. CASE CanTransition(delivery[req[w].delivery].status, "RIDER_ASSIGNED")
  <2>1. req[w] \in Task
    BY DEF OfferInv, TypeInv, ReqInv
  <2>2. [req[w] EXCEPT !.pc = "assignWrite"].pc # "rematch"
    BY <2>1 DEF Task
  <2>3. UNCHANGED <<delivery, history>> /\ req' = [req EXCEPT ![w] = [req[w] EXCEPT !.pc = "assignWrite"]]
    BY <1>1 DEF AssignRead, Continue
  <2> QED BY <2>2, <2>3, ReadsLeave
<1>2. CASE ~CanTransition(delivery[req[w].delivery].status, "RIDER_ASSIGNED")
  BY <1>2, FinishLeaves DEF AssignRead
<1> QED BY <1>1, <1>2

(***************************************************************************)
(* The steps of a courier.                                                 *)
(***************************************************************************)
LEMMA AcceptCommitOffer == ASSUME OfferInv, NEW w \in Workers, AcceptCommit(w) PROVE OfferStep
<1> DEFINE d == req[w].delivery
           r == req[w].rider
<1>t. /\ d \in Deliveries /\ r \in Riders \cup {None} /\ "ACCEPTED" \in HistoryActions
      /\ delivery \in [Deliveries -> DeliveryRow] /\ history \in [Deliveries -> History]
  BY DEF OfferInv, TypeInv, RowInv, ReqInv, WellFormed, AcceptCommit, At, Task, HistoryActions
<1>u. Unlocked(w, d) /\ req' = [req EXCEPT ![w] = Idle]
  BY FreeIsUnlocked DEF AcceptCommit, Finish
<1>1. CASE StillOffered(d, r)
  <2>1. /\ delivery' = [delivery EXCEPT ![d].status = "GOING_TO_PICKUP"]
        /\ history' = [history EXCEPT ![d] = Logged(history[d], "ACCEPTED", r)]
    BY <1>1 DEF AcceptCommit
  <2>2. delivery'[d].status = "GOING_TO_PICKUP"
    BY <1>t, <2>1 DEF DeliveryRow
  <2>3. history'[d] = Logged(history[d], "ACCEPTED", r)
    BY <1>t, <2>1
  <2>4. history'[d].last.rider = r
    BY <2>3 DEF Logged
  <2>5. history[d].last = [action |-> "ASSIGNED", rider |-> r]
    BY <1>t, <1>1 DEF OfferInv, OfferIsOnRecord, StillOffered
  <2>6. history[d].last.action = "ASSIGNED" /\ history[d].last.rider = r
    BY <2>5
  <2>7. \A e \in Deliveries \ {d} : delivery'[e] = delivery[e] /\ history'[e] = history[e]
    BY <1>t, <2>1
  <2>8. Writes(w, d)
    BY <1>u, <2>2, <2>4, <2>6, <2>7 DEF Writes, Answered
  <2> QED BY <1>t, <2>8 DEF OfferStep
<1>2. CASE ~StillOffered(d, r)
  BY <1>2, FinishLeaves DEF AcceptCommit
<1> QED BY <1>1, <1>2

LEMMA TransitionWriteOffer == ASSUME OfferInv, NEW w \in Workers, TransitionWrite(w) PROVE OfferStep
<1> DEFINE d == req[w].delivery
<1>t. /\ d \in Deliveries /\ req[w].target # "RIDER_ASSIGNED"
      /\ delivery \in [Deliveries -> DeliveryRow]
  BY DEF OfferInv, TypeInv, RowInv, ReqInv, WellFormed, TransitionWrite, At, TransitionTargets
<1>u. Unlocked(w, d) /\ req' = [req EXCEPT ![w] = Idle]
  BY FreeIsUnlocked DEF TransitionWrite, Finish
<1>1. delivery' = [delivery EXCEPT ![d].status = req[w].target] /\ UNCHANGED history
  BY DEF TransitionWrite
<1>2. delivery'[d].status = req[w].target
  BY <1>t, <1>1 DEF DeliveryRow
<1>3. Writes(w, d)
  BY <1>t, <1>u, <1>1, <1>2 DEF Writes, Answered
<1> QED BY <1>t, <1>3 DEF OfferStep

LEMMA CompleteCommitOffer == ASSUME OfferInv, NEW w \in Workers, CompleteCommit(w) PROVE OfferStep
<1> DEFINE d == req[w].delivery
<1>t. d \in Deliveries /\ delivery \in [Deliveries -> DeliveryRow]
  BY DEF OfferInv, TypeInv, RowInv, ReqInv, WellFormed, CompleteCommit, At
<1>u. Unlocked(w, d) /\ req' = [req EXCEPT ![w] = Idle]
  BY FreeIsUnlocked DEF CompleteCommit, Finish
<1>1. CASE AtCustomer(d)
  <2>1. delivery' = [delivery EXCEPT ![d].status = "DELIVERED"] /\ UNCHANGED history
    BY <1>1 DEF CompleteCommit
  <2>2. delivery'[d].status = "DELIVERED"
    BY <1>t, <2>1 DEF DeliveryRow
  <2>3. Writes(w, d)
    BY <1>t, <1>u, <2>1, <2>2 DEF Writes, Answered
  <2> QED BY <1>t, <2>3 DEF OfferStep
<1>2. CASE ~AtCustomer(d)
  BY <1>2, FinishLeaves DEF CompleteCommit
<1> QED BY <1>1, <1>2

LEMMA OtherStepsOffer ==
    ASSUME OfferInv,
           NEW w \in Workers,
           \/ Verify(w) \/ AvailabilityWrite(w) \/ Fail(w)
           \/ \E r \in Riders : Suspend(w, r) \/ Reactivate(w, r) \/ Roam(r)
    PROVE  OfferStep
<1>1. CASE Verify(w)
  <2>1. req[w] \in Task
    BY DEF OfferInv, TypeInv, ReqInv
  <2>2. [req[w] EXCEPT !.pc = "complete"].pc # "rematch"
    BY <2>1 DEF Task
  <2>3. UNCHANGED <<delivery, history>> /\ req' = [req EXCEPT ![w] = [req[w] EXCEPT !.pc = "complete"]]
    BY <1>1 DEF Verify, Continue
  <2> QED BY <2>2, <2>3, ReadsLeave
<1>2. CASE AvailabilityWrite(w)
  BY <1>2, FinishLeaves DEF AvailabilityWrite
<1>3. CASE Fail(w)
  BY <1>3, FinishLeaves DEF Fail
<1>4. CASE \E r \in Riders : Suspend(w, r) \/ Reactivate(w, r) \/ Roam(r)
  BY <1>4 DEF Suspend, Reactivate, Roam, OfferStep, Leaves
<1> QED BY <1>1, <1>2, <1>3, <1>4

LEMMA NextOffer == ASSUME OfferInv, [Next]_vars PROVE OfferStep
<1>1. ASSUME NEW w \in Workers, DispatchRequest(w) \/ Sweep(w) PROVE OfferStep
  BY <1>1, DispatchReadsOffer, CreateCommitOffer, AssignmentsOffer DEF DispatchRequest, Sweep
<1>2. ASSUME NEW w \in Workers, CourierStep(w) PROVE OfferStep
  BY <1>2, CourierReadsOffer, AcceptCommitOffer, TransitionWriteOffer, CompleteCommitOffer,
     OtherStepsOffer DEF CourierStep
<1>3. ASSUME NEW w \in Workers, RiderStep(w) PROVE OfferStep
  BY <1>3, CourierReadsOffer, OtherStepsOffer DEF RiderStep
<1>4. ASSUME NEW w \in Workers, DispatchStep(w) \/ Fail(w) PROVE OfferStep
  BY <1>4, AssignReadOffer, AssignmentsOffer, ReassignOffer, RematchCommitOffer,
     OtherStepsOffer DEF DispatchStep
<1>5. ASSUME NEW r \in Riders, Roam(r) PROVE OfferStep
  BY <1>5 DEF Roam, OfferStep, Leaves
<1>6. CASE UNCHANGED vars
  BY <1>6 DEF vars, OfferStep, Leaves
<1> QED BY <1>1, <1>2, <1>3, <1>4, <1>5, <1>6 DEF Next, Workers

LEMMA NextOfferInv ==
    ASSUME OfferInv, [Next]_vars
    PROVE  OfferInv' /\ \A d \in Deliveries : Answered(d)
<1>1. TypeInv'
  BY NextTypeInv DEF OfferInv
<1> QED BY <1>1, NextOffer, OfferStepSound

LEMMA InitOfferInv == Init => OfferInv
<1> SUFFICES ASSUME Init PROVE OfferInv
  OBVIOUS
<1>1. OfferIsOnRecord
  BY DEF Init, OfferIsOnRecord, NoDelivery, None
<1>2. LockInv
  BY IdleTask DEF Init, LockInv, At
<1> QED BY <1>1, <1>2, InitTypeInv DEF OfferInv

THEOREM OfferInvariant == Spec => []OfferInv
BY InitOfferInv, NextOfferInv, PTL DEF Spec

(***************************************************************************)
(* For any number of riders, deliveries, requests and sweeps: an offer     *)
(* that is open is the last thing on record about its delivery, whatever   *)
(* dispatch, reassignment, cancellation and couriers overwrite.            *)
(***************************************************************************)
THEOREM OffersOnRecord == Spec => []OfferIsOnRecord
<1>1. OfferInv => OfferIsOnRecord
  BY DEF OfferInv
<1> QED BY <1>1, OfferInvariant, PTL

(***************************************************************************)
(* For any number of them, an acceptance, a rejection or a timeout on      *)
(* record comes right after the offer it answers and names the same rider: *)
(* accept and reassign exclude each other.                                 *)
(***************************************************************************)
THEOREM OffersAnsweredOnce == Spec => OfferAnsweredOnce
<1>1. OfferInv /\ [Next]_vars =>
        [\A d \in Deliveries :
            LET last == history[d].last
                next == history'[d].last
            IN  next # last /\ next.action \in Answers =>
                    last.action = "ASSIGNED" /\ last.rider = next.rider]_vars
  BY NextOfferInv DEF Answered
<1> QED BY <1>1, OfferInvariant, PTL DEF Spec, OfferAnsweredOnce
---------------------------------------------------------------------------
(***************************************************************************)
(* What a worker has read of a delivery.  Some of it can never become      *)
(* false: the delivery exists, and who holds it was named in its history   *)
(* (Known).  The rest another worker may make false before it is used: the *)
(* rider found was never offered the delivery (Fresh), and the delivery    *)
(* an unguarded update is about to write is not over (Early).              *)
(***************************************************************************)
Known(t) ==
    /\ t.pc \notin {"idle", "availability", "create"} => delivery[t.delivery].status # None
    /\ t.pc \in {"replace", "cancel"} => t.prev \in history[t.delivery].offered \cup {None}
    /\ t.pc = "accept" => t.rider \in history[t.delivery].offered

\* The task carries the rider a search has found.
Found(t) ==
    \/ t.pc = "rematch" /\ t.rider # None
    \/ t.pc \in {"assign", "assignWrite"} /\ t.source = "AUTO"

Fresh(t) == Found(t) => t.rider \notin history[t.delivery].offered

\* The updates by id alone, of a delivery that was read in an earlier query.
Unguarded == {"assignWrite", "replace", "cancel", "transition"}

Early(t) == t.pc \in Unguarded => delivery[t.delivery].status # "DELIVERED"

HoldersNamed ==
    \A d \in Deliveries :
        /\ delivery[d].rider \in history[d].offered \cup {None}
        /\ delivery[d].status = None => history[d].offered = {}

KnownInv == OfferInv /\ HoldersNamed /\ \A w \in Workers : Known(req[w])

(***************************************************************************)
(* A step of worker w either reads and goes on, or ends with one write of  *)
(* one delivery.                                                           *)
(***************************************************************************)
Reads(w) ==
    /\ UNCHANGED <<delivery, history, earned>>
    /\ \E t : /\ req' = [req EXCEPT ![w] = t]
              /\ Known(t) /\ Early(t) /\ (Fresh(req[w]) => Fresh(t))

\* The steps that put a rider in the history who may be new there.
Naming(w, d) == req[w].pc \in {"assignWrite", "replace", "rematch"} /\ req[w].delivery = d

NamesWell(w, d) ==
    /\ history[d].offered \subseteq history'[d].offered
    /\ delivery'[d].rider \in history'[d].offered \cup {None}
    /\ \/ history'[d].offered = history[d].offered
       \/ delivery[d].status = None
       \/ Naming(w, d) /\ Unlocked(w, d)
    /\ AutoOffer(d) /\ Fresh(req[w]) => delivery'[d].rider \notin history[d].offered

EarnsWell(w, d) ==
    \/ /\ At(w, "complete") /\ req[w].delivery = d
       /\ delivery[d].status = "ARRIVED_AT_CUSTOMER" /\ delivery'[d].status = "DELIVERED"
       /\ earned' = [earned EXCEPT ![d] = @ + 1]
    \/ /\ UNCHANGED earned
       /\ delivery'[d].status # "DELIVERED"
       /\ Early(req[w]) => delivery[d].status # "DELIVERED"

WritesOne(w, d) ==
    /\ req' = [req EXCEPT ![w] = Idle]
    /\ \A e \in Deliveries \ {d} : delivery'[e] = delivery[e] /\ history'[e] = history[e]
    /\ delivery'[d].status # None
    /\ NamesWell(w, d) /\ EarnsWell(w, d)

RowStep ==
    \/ UNCHANGED <<delivery, history, earned, req>>
    \/ \E w \in Workers : Reads(w)
    \/ \E w \in Workers, d \in Deliveries : WritesOne(w, d)

LEMMA EndReads ==
    ASSUME NEW w \in Workers, Finish(w), UNCHANGED <<delivery, history, earned>>
    PROVE  RowStep
<1>1. Known(Idle) /\ Early(Idle) /\ Fresh(Idle)
  BY IdleTask DEF Known, Early, Fresh, Found, Unguarded
<1> QED BY <1>1 DEF Finish, Reads, RowStep

LEMMA GoOnReads ==
    ASSUME NEW w \in Workers, NEW t, req' = [req EXCEPT ![w] = t],
           UNCHANGED <<delivery, history, earned>>,
           Known(t), Early(t), Fresh(req[w]) => Fresh(t)
    PROVE  RowStep
BY DEF Reads, RowStep

(***************************************************************************)
(* The steps that read.                                                    *)
(***************************************************************************)
LEMMA DispatchReadsRow ==
    ASSUME KnownInv, NEW w \in Workers, NEW d \in Deliveries,
           \/ CreateRead(w, d) \/ RejectRead(w, d) \/ CancelRead(w, d)
           \/ RetryRead(w, d) \/ TimeoutRead(w, d) \/ \E r \in Riders : AdminRead(w, d, r)
    PROVE  RowStep
<1>1. CASE CreateRead(w, d)
  <2>1. PICK r : req' = [req EXCEPT ![w] = [Idle EXCEPT !.pc = "create", !.delivery = d,
                                                        !.rider = r]]
    BY <1>1 DEF CreateRead, Start
  <2> DEFINE t == [Idle EXCEPT !.pc = "create", !.delivery = d, !.rider = r]
  <2>2. t.pc = "create"
    BY DEF Idle
  <2> HIDE DEF t
  <2>3. Known(t) /\ Early(t) /\ Fresh(t)
    BY <2>2 DEF Known, Early, Fresh, Found, Unguarded
  <2> QED BY <1>1, <2>1, <2>3, GoOnReads DEF CreateRead, t
<1>2. CASE RetryRead(w, d)
  <2>1. PICK r \in Candidates(Excluded(d)) :
            req' = [req EXCEPT ![w] = [Idle EXCEPT !.pc = "assign", !.delivery = d,
                                                   !.rider = r, !.source = "AUTO"]]
    BY <1>2 DEF RetryRead, Start
  <2> DEFINE t == [Idle EXCEPT !.pc = "assign", !.delivery = d, !.rider = r, !.source = "AUTO"]
  <2>2. t.pc = "assign" /\ t.delivery = d /\ t.rider = r
    BY DEF Idle
  <2>3. r \notin history[d].offered
    BY <2>1 DEF Candidates, Excluded
  <2>4. delivery[d].status # None
    BY <1>2 DEF RetryRead, Retries, None
  <2> HIDE DEF t
  <2>5. Known(t) /\ Early(t) /\ Fresh(t)
    BY <2>2, <2>3, <2>4 DEF Known, Early, Fresh, Unguarded
  <2> QED BY <1>2, <2>1, <2>5, GoOnReads DEF RetryRead, t
<1>3. ASSUME NEW action, Start(w, [Idle EXCEPT !.pc = "reassign", !.delivery = d, !.action = action]),
             delivery[d].status = "RIDER_ASSIGNED", UNCHANGED <<delivery, history, earned>>
      PROVE  RowStep
  <2> DEFINE t == [Idle EXCEPT !.pc = "reassign", !.delivery = d, !.action = action]
  <2>1. t.pc = "reassign" /\ t.delivery = d
    BY DEF Idle
  <2>2. req' = [req EXCEPT ![w] = t]
    BY <1>3 DEF Start
  <2> HIDE DEF t
  <2>3. Known(t) /\ Early(t) /\ Fresh(t)
    BY <1>3, <2>1 DEF Known, Early, Fresh, Found, Unguarded, None
  <2> QED BY <1>3, <2>2, <2>3, GoOnReads
<1>4. CASE RejectRead(w, d) \/ TimeoutRead(w, d)
  BY <1>3, <1>4 DEF RejectRead, TimeoutRead, Expires
<1>5. CASE CancelRead(w, d)
  <2> DEFINE t == [Idle EXCEPT !.pc = "cancel", !.delivery = d, !.prev = delivery[d].rider]
  <2>1. t.pc = "cancel" /\ t.delivery = d /\ t.prev = delivery[d].rider
    BY DEF Idle
  <2>2. req' = [req EXCEPT ![w] = t] /\ delivery[d].status \in Cancellable
    BY <1>5 DEF CancelRead, Start
  <2> HIDE DEF t
  <2>3. Known(t) /\ Early(t) /\ Fresh(t)
    BY <2>1, <2>2 DEF Known, Early, Fresh, Found, KnownInv, HoldersNamed, Cancellable, None
  <2> QED BY <1>5, <2>2, <2>3, GoOnReads DEF CancelRead
<1>6. ASSUME NEW r \in Riders, AdminRead(w, d, r) PROVE RowStep
  <2>1. PICK pc \in {"assign", "replace"} :
            req' = [req EXCEPT ![w] = [Idle EXCEPT !.pc = pc, !.delivery = d, !.rider = r,
                                            !.prev = delivery[d].rider, !.source = "ADMIN"]]
    BY <1>6 DEF AdminRead, Start
  <2> DEFINE t == [Idle EXCEPT !.pc = pc, !.delivery = d, !.rider = r,
                               !.prev = delivery[d].rider, !.source = "ADMIN"]
  <2>2. t.pc = pc /\ t.delivery = d /\ t.prev = delivery[d].rider /\ t.source = "ADMIN"
    BY DEF Idle
  <2>3. delivery[d].status \in Cancellable /\ UNCHANGED <<delivery, history, earned>>
    BY <1>6 DEF AdminRead
  <2> HIDE DEF t
  <2>4. Known(t) /\ Early(t) /\ Fresh(t)
    BY <2>1, <2>2, <2>3 DEF Known, Early, Fresh, Found, KnownInv, HoldersNamed, Cancellable, None
  <2> QED BY <2>1, <2>3, <2>4, GoOnReads DEF t
<1> QED BY <1>1, <1>2, <1>4, <1>5, <1>6

LEMMA CourierReadsRow ==
    ASSUME KnownInv, NEW w \in Workers,
           \/ \E d \in Deliveries :
                \/ \E r \in Riders : AcceptRead(w, d, r) \/ CompleteRead(w, d, r)
                \/ \E target \in TransitionTargets : TransitionRead(w, d, target)
           \/ \E r \in Riders, status \in Availabilities : AvailabilityRead(w, r, status)
    PROVE  RowStep
<1>0. None \notin DeliveryStatuses /\ \A s : ~CanTransition("DELIVERED", s)
  BY DEF None, DeliveryStatuses, CanTransition, Transitions
<1>1. ASSUME NEW d \in Deliveries, NEW r \in Riders, AcceptRead(w, d, r) PROVE RowStep
  <2> DEFINE t == [Idle EXCEPT !.pc = "accept", !.delivery = d, !.rider = r]
  <2>1. t.pc = "accept" /\ t.delivery = d /\ t.rider = r
    BY DEF Idle
  <2>2. req' = [req EXCEPT ![w] = t]
    BY <1>1 DEF AcceptRead, Start
  <2>3. delivery[d].status # None /\ r # None /\ delivery[d].rider = r
    BY <1>0, <1>1 DEF AcceptRead, Owns, CanTransition
  <2> HIDE DEF t
  <2>4. Known(t) /\ Early(t) /\ Fresh(t)
    BY <2>1, <2>3 DEF Known, Early, Fresh, Found, Unguarded, KnownInv, HoldersNamed
  <2> QED BY <1>1, <2>2, <2>4, GoOnReads DEF AcceptRead
<1>2. ASSUME NEW d \in Deliveries, NEW r \in Riders, CompleteRead(w, d, r) PROVE RowStep
  <2> DEFINE t == [Idle EXCEPT !.pc = "verify", !.delivery = d, !.rider = r]
  <2>1. t.pc = "verify" /\ t.delivery = d
    BY DEF Idle
  <2>2. req' = [req EXCEPT ![w] = t] /\ delivery[d].status # None
    BY <1>0, <1>2 DEF CompleteRead, Start, CanTransition
  <2> HIDE DEF t
  <2>3. Known(t) /\ Early(t) /\ Fresh(t)
    BY <2>1, <2>2 DEF Known, Early, Fresh, Found, Unguarded
  <2> QED BY <1>2, <2>2, <2>3, GoOnReads DEF CompleteRead
<1>3. ASSUME NEW d \in Deliveries, NEW target \in TransitionTargets, TransitionRead(w, d, target)
      PROVE  RowStep
  <2> DEFINE t == [Idle EXCEPT !.pc = "transition", !.delivery = d, !.target = target]
  <2>1. t.pc = "transition" /\ t.delivery = d
    BY DEF Idle
  <2>2. /\ req' = [req EXCEPT ![w] = t]
        /\ delivery[d].status # None /\ delivery[d].status # "DELIVERED"
    BY <1>0, <1>3 DEF TransitionRead, Start, MayMove, CanTransition
  <2> HIDE DEF t
  <2>3. Known(t) /\ Early(t) /\ Fresh(t)
    BY <2>1, <2>2 DEF Known, Early, Fresh, Found
  <2> QED BY <1>3, <2>2, <2>3, GoOnReads DEF TransitionRead
<1>4. ASSUME NEW r \in Riders, NEW status \in Availabilities, AvailabilityRead(w, r, status)
      PROVE  RowStep
  <2> DEFINE t == [Idle EXCEPT !.pc = "availability", !.rider = r, !.status = status]
  <2>1. t.pc = "availability"
    BY DEF Idle
  <2>2. req' = [req EXCEPT ![w] = t]
    BY <1>4 DEF AvailabilityRead, Start
  <2> HIDE DEF t
  <2>3. Known(t) /\ Early(t) /\ Fresh(t)
    BY <2>1 DEF Known, Early, Fresh, Found, Unguarded
  <2> QED BY <1>4, <2>2, <2>3, GoOnReads DEF AvailabilityRead
<1> QED BY <1>1, <1>2, <1>3, <1>4

LEMMA ChecksRow ==
    ASSUME KnownInv, NEW w \in Workers, AssignRead(w) \/ Reassign(w) \/ Verify(w)
    PROVE  RowStep
<1> DEFINE d == req[w].delivery
<1>r. req[w] \in Task /\ Known(req[w])
  BY DEF KnownInv, OfferInv, TypeInv, ReqInv
<1>q. UNCHANGED <<delivery, history, earned>>
  BY DEF AssignRead, Reassign, Verify
<1>1. CASE Finish(w)
  BY <1>q, <1>1, EndReads
<1>2. CASE AssignRead(w) /\ CanTransition(delivery[d].status, "RIDER_ASSIGNED")
  <2> DEFINE t == [req[w] EXCEPT !.pc = "assignWrite"]
  <2>1. /\ t.pc = "assignWrite" /\ t.delivery = d /\ t.rider = req[w].rider
        /\ t.source = req[w].source /\ req[w].pc = "assign"
    BY <1>r, <1>2 DEF Task, AssignRead, At
  <2>2. req' = [req EXCEPT ![w] = t]
    BY <1>2 DEF AssignRead, Continue
  <2>3. delivery[d].status # "DELIVERED"
    BY <1>2 DEF CanTransition, Transitions, DeliveryStatuses
  <2> HIDE DEF t
  <2>4. Known(t) /\ Early(t) /\ (Fresh(req[w]) => Fresh(t))
    BY <1>r, <2>1, <2>3 DEF Known, Early, Fresh, Found
  <2> QED BY <1>q, <2>2, <2>4, GoOnReads
<1>3. CASE Reassign(w) /\ StillOpen(d)
  <2> DEFINE prev == delivery[d].rider
  <2>1. PICK r : /\ req' = [req EXCEPT ![w] = [req[w] EXCEPT !.pc = "rematch", !.prev = prev,
                                                             !.rider = r]]
                 /\ r \in Picks(Excluded(d) \cup {prev}) \/ r = None
    BY <1>3 DEF Reassign, Continue
  <2> DEFINE t == [req[w] EXCEPT !.pc = "rematch", !.prev = prev, !.rider = r]
  <2>2. t.pc = "rematch" /\ t.delivery = d /\ t.rider = r /\ req[w].pc = "reassign"
    BY <1>r, <1>3 DEF Task, Reassign, At
  <2>3. r # None => r \notin history[d].offered
    BY <2>1 DEF Picks, Candidates, Excluded
  <2> HIDE DEF t
  <2>4. Known(t) /\ Early(t) /\ Fresh(t)
    BY <1>r, <2>2, <2>3 DEF Known, Early, Fresh, Found, Unguarded
  <2> QED BY <1>q, <2>1, <2>4, GoOnReads DEF t
<1>4. CASE Verify(w)
  <2> DEFINE t == [req[w] EXCEPT !.pc = "complete"]
  <2>1. t.pc = "complete" /\ t.delivery = d /\ req[w].pc = "verify"
    BY <1>r, <1>4 DEF Task, Verify, At
  <2>2. req' = [req EXCEPT ![w] = t]
    BY <1>4 DEF Verify, Continue
  <2> HIDE DEF t
  <2>3. Known(t) /\ Early(t) /\ Fresh(t)
    BY <1>r, <2>1 DEF Known, Early, Fresh, Found, Unguarded
  <2> QED BY <1>q, <2>2, <2>3, GoOnReads
<1> QED BY <1>1, <1>2, <1>3, <1>4 DEF AssignRead, Reassign

(***************************************************************************)
(* The steps that write.                                                   *)
(***************************************************************************)
LEMMA LoggedNames ==
    ASSUME NEW h \in History, NEW action, NEW r
    PROVE  /\ Logged(h, action, r).offered = h.offered \cup ({r} \ {None})
           /\ action # "ASSIGNED" => Logged(h, action, r).attempts = h.attempts
BY DEF Logged

LEMMA CreateRow == ASSUME KnownInv, NEW w \in Workers, CreateCommit(w) PROVE RowStep
<1> DEFINE d == req[w].delivery
           r == req[w].rider
<1>t. /\ d \in Deliveries /\ delivery \in [Deliveries -> DeliveryRow]
      /\ history \in [Deliveries -> History]
  BY DEF KnownInv, OfferInv, TypeInv, RowInv, ReqInv, WellFormed, CreateCommit, At
<1>f. Finish(w) /\ UNCHANGED earned
  BY DEF CreateCommit
<1>1. CASE delivery[d] # NoDelivery
  BY <1>f, <1>1, EndReads DEF CreateCommit
<1>2. CASE delivery[d] = NoDelivery
  <2>1. delivery[d].status = None /\ delivery[d].rider = None
    BY <1>2 DEF NoDelivery
  <2>2. history[d].offered = {}
    BY <1>t, <2>1 DEF KnownInv, HoldersNamed
  <2>3. \A e \in Deliveries \ {d} : delivery'[e] = delivery[e] /\ history'[e] = history[e]
    BY <1>t, <1>2 DEF CreateCommit
  <2>4. CASE r = None
    <3>1. /\ delivery'[d] = [delivery[d] EXCEPT !.status = "SEARCHING_RIDER"]
          /\ history'[d] = history[d]
      BY <1>t, <1>2, <2>4 DEF CreateCommit
    <3>2. delivery'[d].status = "SEARCHING_RIDER" /\ delivery'[d].rider = None
      BY <1>t, <2>1, <3>1 DEF DeliveryRow
    <3>3. NamesWell(w, d) /\ EarnsWell(w, d)
      BY <1>f, <2>1, <2>2, <3>1, <3>2 DEF NamesWell, EarnsWell, None
    <3> QED BY <1>t, <1>f, <2>3, <3>2, <3>3 DEF RowStep, WritesOne, Finish, None
  <2>5. CASE r # None
    <3>1. /\ delivery'[d] = Assigned(r, "AUTO")
          /\ history'[d] = Logged(history[d], "ASSIGNED", r)
      BY <1>t, <1>2, <2>5 DEF CreateCommit
    <3>2. delivery'[d].status = "RIDER_ASSIGNED" /\ delivery'[d].rider = r
      BY <3>1 DEF Assigned
    <3>3. history'[d].offered = history[d].offered \cup {r}
      BY <1>t, <2>5, <3>1, LoggedNames
    <3>4. NamesWell(w, d) /\ EarnsWell(w, d)
      BY <1>f, <2>1, <2>2, <3>2, <3>3 DEF NamesWell, EarnsWell, None
    <3> QED BY <1>t, <1>f, <2>3, <3>2, <3>4 DEF RowStep, WritesOne, Finish, None
  <2> QED BY <2>4, <2>5
<1> QED BY <1>1, <1>2

LEMMA AssignmentsRow ==
    ASSUME KnownInv, NEW w \in Workers, AssignWrite(w) \/ ReplaceCommit(w) \/ CancelCommit(w)
    PROVE  RowStep
<1> DEFINE d == req[w].delivery
           r == req[w].rider
           prev == req[w].prev
<1>t. /\ d \in Deliveries /\ delivery \in [Deliveries -> DeliveryRow]
      /\ history \in [Deliveries -> History] /\ history[d] \in History
      /\ Known(req[w]) /\ WellFormed(req[w])
      /\ delivery[d].rider \in history[d].offered \cup {None}
  BY DEF KnownInv, HoldersNamed, OfferInv, TypeInv, RowInv, ReqInv, WellFormed, AssignWrite,
         ReplaceCommit, CancelCommit, At
<1>f. Finish(w) /\ UNCHANGED earned /\ Unlocked(w, d)
  BY FreeIsUnlocked DEF AssignWrite, ReplaceCommit, CancelCommit
<1>o. \A e \in Deliveries \ {d} : delivery'[e] = delivery[e] /\ history'[e] = history[e]
  BY <1>t DEF AssignWrite, ReplaceCommit, CancelCommit
<1>1. CASE AssignWrite(w)
  <2>1. /\ delivery'[d] = Assigned(r, req[w].source)
        /\ history'[d] = Logged(history[d], "ASSIGNED", r)
        /\ req[w].pc = "assignWrite"
    BY <1>t, <1>1 DEF AssignWrite, At
  <2>2. /\ delivery'[d].status = "RIDER_ASSIGNED" /\ delivery'[d].rider = r
        /\ delivery'[d].source = req[w].source
    BY <2>1 DEF Assigned
  <2>3. history'[d].offered = history[d].offered \cup ({r} \ {None})
    BY <1>t, <2>1, LoggedNames
  <2>4. AutoOffer(d) /\ Fresh(req[w]) => r \notin history[d].offered
    BY <2>1, <2>2 DEF AutoOffer, Fresh, Found
  <2>5. NamesWell(w, d)
    BY <1>f, <2>1, <2>2, <2>3, <2>4 DEF NamesWell, Naming
  <2>6. EarnsWell(w, d)
    BY <1>f, <2>1, <2>2 DEF EarnsWell, Early, Unguarded
  <2> QED BY <1>t, <1>f, <1>o, <2>2, <2>5, <2>6 DEF RowStep, WritesOne, Finish, None
<1>2. CASE ReplaceCommit(w)
  <2>1. /\ delivery'[d] = Assigned(r, "ADMIN")
        /\ history'[d] = Logged(Logged(history[d], "REASSIGNED", prev), "ASSIGNED", r)
        /\ req[w].pc = "replace"
    BY <1>t, <1>2 DEF ReplaceCommit, At
  <2>2. /\ delivery'[d].status = "RIDER_ASSIGNED" /\ delivery'[d].rider = r
        /\ delivery'[d].source = "ADMIN"
    BY <2>1 DEF Assigned
  <2>3. history'[d].offered = history[d].offered \cup ({prev} \ {None}) \cup ({r} \ {None})
    BY <2>1 DEF Logged
  <2>4. ~AutoOffer(d)
    BY <2>2 DEF AutoOffer
  <2>5. NamesWell(w, d)
    BY <1>f, <2>1, <2>2, <2>3, <2>4 DEF NamesWell, Naming
  <2>6. EarnsWell(w, d)
    BY <1>f, <2>1, <2>2 DEF EarnsWell, Early, Unguarded
  <2> QED BY <1>t, <1>f, <1>o, <2>2, <2>5, <2>6 DEF RowStep, WritesOne, Finish, None
<1>3. CASE CancelCommit(w)
  <2>1. /\ delivery'[d] = [delivery[d] EXCEPT !.status = "CANCELLED"]
        /\ history'[d] = Logged(history[d], "CANCELLED", prev)
        /\ req[w].pc = "cancel"
    BY <1>t, <1>3 DEF CancelCommit, At
  <2>2. delivery'[d].status = "CANCELLED" /\ delivery'[d].rider = delivery[d].rider
    BY <1>t, <2>1 DEF DeliveryRow
  <2>n. history'[d].offered = history[d].offered \cup ({prev} \ {None})
    BY <1>t, <2>1, LoggedNames
  <2>p. prev \in history[d].offered \cup {None}
    BY <1>t, <2>1 DEF Known
  <2>3. history'[d].offered = history[d].offered
    BY <2>n, <2>p
  <2>4. history'[d].attempts = history[d].attempts /\ history[d].attempts \in Nat
    BY <1>t, <2>1, LoggedNames DEF History
  <2>5. NamesWell(w, d)
    BY <1>t, <2>2, <2>3, <2>4 DEF NamesWell, AutoOffer
  <2>6. EarnsWell(w, d)
    BY <1>f, <2>1, <2>2 DEF EarnsWell, Early, Unguarded
  <2> QED BY <1>t, <1>f, <1>o, <2>2, <2>5, <2>6 DEF RowStep, WritesOne, Finish, None
<1> QED BY <1>1, <1>2, <1>3

LEMMA RematchRow == ASSUME KnownInv, NEW w \in Workers, RematchCommit(w) PROVE RowStep
<1> DEFINE d      == req[w].delivery
           r      == req[w].rider
           action == req[w].action
           prev   == req[w].prev
<1>t. /\ d \in Deliveries /\ delivery \in [Deliveries -> DeliveryRow]
      /\ history \in [Deliveries -> History] /\ history[d] \in History
      /\ req[w].pc = "rematch" /\ action # "ASSIGNED"
  BY DEF KnownInv, OfferInv, TypeInv, RowInv, ReqInv, WellFormed, RematchCommit, At, Answers
<1>l. /\ delivery[d].status = "RIDER_ASSIGNED" /\ delivery[d].rider = prev
      /\ Unlocked(w, d)
  BY <1>t DEF KnownInv, OfferInv, LockInv, At, Unlocked
<1>p. prev \in history[d].offered \cup {None}
  BY <1>t, <1>l DEF KnownInv, HoldersNamed
<1>f. Finish(w) /\ UNCHANGED earned
  BY DEF RematchCommit
<1>o. \A e \in Deliveries \ {d} : delivery'[e] = delivery[e] /\ history'[e] = history[e]
  BY <1>t DEF RematchCommit
<1>1. CASE r = None
  <2>1. /\ delivery'[d].status = "SEARCHING_RIDER" /\ delivery'[d].rider = None
        /\ history'[d] = Logged(history[d], action, prev)
    BY <1>t, <1>1 DEF RematchCommit, DeliveryRow
  <2>n. history'[d].offered = history[d].offered \cup ({prev} \ {None})
    BY <1>t, <2>1, LoggedNames
  <2>2. history'[d].offered = history[d].offered
    BY <1>p, <2>n
  <2>3. history'[d].attempts = history[d].attempts /\ history[d].attempts \in Nat
    BY <1>t, <2>1, LoggedNames DEF History
  <2>4. NamesWell(w, d) /\ EarnsWell(w, d)
    BY <1>f, <1>l, <2>1, <2>2, <2>3 DEF NamesWell, EarnsWell, AutoOffer
  <2> QED BY <1>t, <1>f, <1>o, <2>1, <2>4 DEF RowStep, WritesOne, Finish, None
<1>2. CASE r # None
  <2>1. /\ delivery'[d] = Assigned(r, "AUTO")
        /\ history'[d] = Rematched(history[d], action, prev, r)
    BY <1>t, <1>2 DEF RematchCommit
  <2>2. delivery'[d].status = "RIDER_ASSIGNED" /\ delivery'[d].rider = r
    BY <2>1 DEF Assigned
  <2>3. history'[d].offered = history[d].offered \cup {r}
    BY <1>2, <1>p, <2>1 DEF Rematched, Logged
  <2>4. Fresh(req[w]) => r \notin history[d].offered
    BY <1>t, <1>2 DEF Fresh, Found
  <2>5. NamesWell(w, d) /\ EarnsWell(w, d)
    BY <1>t, <1>f, <1>l, <2>2, <2>3, <2>4 DEF NamesWell, EarnsWell, Naming
  <2> QED BY <1>t, <1>f, <1>o, <2>2, <2>5 DEF RowStep, WritesOne, Finish, None
<1> QED BY <1>1, <1>2

LEMMA CourierRow ==
    ASSUME KnownInv, NEW w \in Workers, AcceptCommit(w) \/ TransitionWrite(w) \/ CompleteCommit(w)
    PROVE  RowStep
<1> DEFINE d == req[w].delivery
           r == req[w].rider
<1>t. /\ d \in Deliveries /\ delivery \in [Deliveries -> DeliveryRow]
      /\ history \in [Deliveries -> History] /\ history[d] \in History
      /\ history[d].attempts \in Nat
      /\ Known(req[w]) /\ WellFormed(req[w])
      /\ delivery[d].rider \in history[d].offered \cup {None}
  BY DEF KnownInv, HoldersNamed, OfferInv, TypeInv, RowInv, ReqInv, WellFormed, AcceptCommit,
         TransitionWrite, CompleteCommit, At, History
<1>f. Finish(w)
  BY DEF AcceptCommit, TransitionWrite, CompleteCommit
<1>o. \A e \in Deliveries \ {d} : delivery'[e] = delivery[e] /\ history'[e] = history[e]
  BY <1>t DEF AcceptCommit, TransitionWrite, CompleteCommit
<1>1. CASE AcceptCommit(w) /\ StillOffered(d, r)
  <2>1. /\ delivery'[d] = [delivery[d] EXCEPT !.status = "GOING_TO_PICKUP"]
        /\ history'[d] = Logged(history[d], "ACCEPTED", r)
        /\ req[w].pc = "accept" /\ UNCHANGED earned
    BY <1>t, <1>1 DEF AcceptCommit, At
  <2>2. /\ delivery'[d].status = "GOING_TO_PICKUP" /\ delivery'[d].rider = delivery[d].rider
        /\ delivery[d].status = "RIDER_ASSIGNED"
    BY <1>t, <1>1, <2>1 DEF DeliveryRow, StillOffered
  <2>n. /\ history'[d].offered = history[d].offered \cup ({r} \ {None})
        /\ history'[d].attempts = history[d].attempts
    BY <1>t, <2>1, LoggedNames
  <2>p. r \in history[d].offered
    BY <1>t, <2>1 DEF Known
  <2>3. history'[d].offered = history[d].offered /\ history'[d].attempts = history[d].attempts
    BY <2>n, <2>p
  <2>4. NamesWell(w, d) /\ EarnsWell(w, d)
    BY <1>t, <2>1, <2>2, <2>3 DEF NamesWell, EarnsWell, AutoOffer
  <2> QED BY <1>t, <1>f, <1>o, <2>2, <2>4 DEF RowStep, WritesOne, Finish, None
<1>2. CASE TransitionWrite(w)
  <2>1. /\ delivery'[d] = [delivery[d] EXCEPT !.status = req[w].target]
        /\ UNCHANGED <<history, earned>> /\ req[w].pc = "transition"
    BY <1>t, <1>2 DEF TransitionWrite, At
  <2>2. req[w].target \in TransitionTargets
    BY <1>t, <2>1 DEF WellFormed
  <2>3. /\ delivery'[d].status # "DELIVERED" /\ delivery'[d].status # None
        /\ delivery'[d].rider = delivery[d].rider
    BY <1>t, <2>1, <2>2 DEF DeliveryRow, TransitionTargets, None
  <2>4. NamesWell(w, d) /\ EarnsWell(w, d)
    BY <1>t, <2>1, <2>3 DEF NamesWell, EarnsWell, AutoOffer, Early, Unguarded
  <2> QED BY <1>t, <1>f, <1>o, <2>3, <2>4 DEF RowStep, WritesOne, Finish
<1>3. CASE CompleteCommit(w) /\ AtCustomer(d)
  <2>1. /\ delivery'[d] = [delivery[d] EXCEPT !.status = "DELIVERED"]
        /\ earned' = [earned EXCEPT ![d] = @ + 1]
        /\ UNCHANGED history /\ At(w, "complete") /\ delivery[d].status = "ARRIVED_AT_CUSTOMER"
    BY <1>t, <1>3 DEF CompleteCommit, AtCustomer
  <2>2. delivery'[d].status = "DELIVERED" /\ delivery'[d].rider = delivery[d].rider
    BY <1>t, <2>1 DEF DeliveryRow
  <2>3. NamesWell(w, d) /\ EarnsWell(w, d)
    BY <1>t, <2>1, <2>2 DEF NamesWell, EarnsWell, AutoOffer
  <2> QED BY <1>t, <1>f, <1>o, <2>2, <2>3 DEF RowStep, WritesOne, Finish, None
<1>4. CASE \/ AcceptCommit(w) /\ ~StillOffered(d, r)
           \/ CompleteCommit(w) /\ ~AtCustomer(d)
  BY <1>f, <1>4, EndReads DEF AcceptCommit, CompleteCommit
<1> QED BY <1>1, <1>2, <1>3, <1>4

LEMMA NextRow == ASSUME KnownInv, [Next]_vars PROVE RowStep
<1>1. ASSUME NEW w \in Workers, DispatchRequest(w) \/ Sweep(w) PROVE RowStep
  BY <1>1, DispatchReadsRow, CreateRow, AssignmentsRow DEF DispatchRequest, Sweep
<1>2. ASSUME NEW w \in Workers, CourierStep(w) PROVE RowStep
  BY <1>2, CourierReadsRow, CourierRow, ChecksRow DEF CourierStep
<1>3. ASSUME NEW w \in Workers, AvailabilityWrite(w) \/ Fail(w) PROVE RowStep
  BY <1>3, EndReads DEF AvailabilityWrite, Fail
<1>4. ASSUME NEW w \in Workers, RiderStep(w) PROVE RowStep
  BY <1>3, <1>4, CourierReadsRow DEF RiderStep, Suspend, Reactivate, RowStep
<1>5. ASSUME NEW w \in Workers, DispatchStep(w) PROVE RowStep
  BY <1>5, ChecksRow, AssignmentsRow, RematchRow DEF DispatchStep
<1>6. ASSUME NEW r \in Riders, Roam(r) PROVE RowStep
  BY <1>6 DEF Roam, RowStep
<1>7. CASE UNCHANGED vars
  BY <1>7 DEF vars, RowStep
<1> QED BY <1>1, <1>2, <1>3, <1>4, <1>5, <1>6, <1>7 DEF Next, Workers

(***************************************************************************)
(* Known needs no hypothesis: histories only grow, and a delivery stays.   *)
(***************************************************************************)
LEMMA KnownStays ==
    ASSUME NEW t, Known(t),
           t.pc \notin {"idle", "availability", "create"} =>
                /\ delivery[t.delivery].status # None => delivery'[t.delivery].status # None
                /\ history[t.delivery].offered \subseteq history'[t.delivery].offered
    PROVE  Known(t)'
BY DEF Known

LEMMA KnownStep == ASSUME KnownInv, [Next]_vars PROVE KnownInv'
<1>t. req \in [Workers -> Task]
  BY DEF KnownInv, OfferInv, TypeInv, ReqInv
<1>0. OfferInv'
  BY NextOfferInv DEF KnownInv
<1>1. CASE UNCHANGED <<delivery, history, earned, req>>
  BY <1>0, <1>1 DEF KnownInv, HoldersNamed, Known
<1>2. ASSUME NEW w \in Workers, Reads(w) PROVE KnownInv'
  <2>1. PICK t : /\ req' = [req EXCEPT ![w] = t] /\ Known(t)
                 /\ UNCHANGED <<delivery, history>>
    BY <1>2 DEF Reads
  <2>2. \A v \in Workers : Known(req'[v])
    BY <1>t, <2>1 DEF KnownInv
  <2>3. HoldersNamed'
    BY <2>1 DEF KnownInv, HoldersNamed
  <2>4. \A v \in Workers : Known(req[v])'
    BY <2>1, <2>2 DEF Known
  <2> QED BY <1>0, <2>3, <2>4 DEF KnownInv
<1>3. ASSUME NEW w \in Workers, NEW d \in Deliveries, WritesOne(w, d) PROVE KnownInv'
  <2>1. HoldersNamed'
    BY <1>3 DEF WritesOne, NamesWell, KnownInv, HoldersNamed
  <2>2. ASSUME NEW v \in Workers PROVE Known(req[v])'
    <3>1. CASE v = w
      <4>1. req'[v] = Idle
        BY <1>t, <1>3, <3>1 DEF WritesOne
      <4> QED BY <4>1, IdleTask DEF Known
    <3>2. CASE v # w
      <4>1. req'[v] = req[v] /\ Known(req[v])
        BY <1>t, <1>3, <3>2 DEF WritesOne, KnownInv
      <4>2. req[v].pc \notin {"idle", "availability", "create"} => req[v].delivery \in Deliveries
        BY DEF KnownInv, OfferInv, TypeInv, ReqInv, WellFormed
      <4>3. PICK t : t = req[v]
        OBVIOUS
      <4>4. Known(t)'
        BY <1>3, <4>1, <4>2, <4>3, KnownStays DEF WritesOne, NamesWell
      <4> QED BY <4>1, <4>3, <4>4 DEF Known
    <3> QED BY <3>1, <3>2
  <2> QED BY <1>0, <2>1, <2>2 DEF KnownInv
<1> QED BY <1>1, <1>2, <1>3, NextRow DEF RowStep

LEMMA KnownInit == Init => KnownInv
<1> SUFFICES ASSUME Init PROVE KnownInv
  OBVIOUS
<1>1. HoldersNamed
  BY DEF Init, HoldersNamed, NoDelivery, NoHistory
<1>2. \A w \in Workers : Known(req[w])
  BY IdleTask DEF Init, Known
<1> QED BY <1>1, <1>2, InitOfferInv DEF KnownInv

LEMMA KnownInvariant == Spec => []KnownInv
BY KnownInit, KnownStep, PTL DEF Spec

---------------------------------------------------------------------------
(***************************************************************************)
(* Who is offered a delivery again.                                        *)
(***************************************************************************)

(***************************************************************************)
(* Nobody is about to name a rider for a delivery while a sweep that       *)
(* retries it is between its search and its write.  Every other overlap is *)
(* allowed: of acceptances, timeouts, cancellations and administrators     *)
(* with each other, and of retries with what names nobody.                 *)
(***************************************************************************)
Retrying(w, d) ==
    /\ req[w].pc \in {"assign", "assignWrite"} /\ req[w].source = "AUTO"
    /\ req[w].delivery = d

RetriesAlone ==
    \A v, w \in Workers, d \in Deliveries : v # w /\ Retrying(w, d) => ~Naming(v, d)

FreshInv == \A w \in Workers : Fresh(req[w])

LEMMA FreshStep ==
    ASSUME KnownInv, FreshInv, RetriesAlone, RowStep
    PROVE  FreshInv' /\ \A d \in Deliveries : AutoOffer(d) => delivery'[d].rider \notin history[d].offered
<1>t. /\ req \in [Workers -> Task]
      /\ \A d \in Deliveries : history[d].attempts \in Nat
  BY DEF KnownInv, OfferInv, TypeInv, ReqInv, RowInv, History
<1>1. ASSUME UNCHANGED history PROVE \A d \in Deliveries : ~AutoOffer(d)
  BY <1>t, <1>1 DEF AutoOffer
<1>2. CASE UNCHANGED <<delivery, history, earned, req>>
  BY <1>1, <1>2 DEF FreshInv, Fresh
<1>3. ASSUME NEW w \in Workers, Reads(w) PROVE FreshInv' /\ UNCHANGED history
  <2>1. PICK t : req' = [req EXCEPT ![w] = t] /\ Fresh(t) /\ UNCHANGED history
    BY <1>3 DEF Reads, FreshInv
  <2>2. \A v \in Workers : Fresh(req'[v])
    BY <1>t, <2>1 DEF FreshInv
  <2> QED BY <2>1, <2>2 DEF FreshInv, Fresh
<1>4. ASSUME NEW w \in Workers, NEW d \in Deliveries, WritesOne(w, d)
      PROVE  /\ FreshInv'
             /\ \A e \in Deliveries : AutoOffer(e) => delivery'[e].rider \notin history[e].offered
  <2>1. ASSUME NEW e \in Deliveries, AutoOffer(e) PROVE delivery'[e].rider \notin history[e].offered
    <3>1. CASE e = d
      BY <1>4, <2>1, <3>1 DEF WritesOne, NamesWell, FreshInv
    <3>2. CASE e # d
      BY <1>t, <1>4, <2>1, <3>2 DEF WritesOne, AutoOffer
    <3> QED BY <3>1, <3>2
  <2>2. ASSUME NEW v \in Workers, Found(req'[v])
        PROVE  req'[v].rider \notin history'[req'[v].delivery].offered
    <3>1. v # w
      <4>1. v = w => req'[v] = Idle
        BY <1>t, <1>4 DEF WritesOne
      <4> QED BY <2>2, <4>1, IdleTask DEF Found
    <3>2. req'[v] = req[v] /\ req[v].rider \notin history[req[v].delivery].offered
      BY <1>t, <1>4, <2>2, <3>1 DEF WritesOne, FreshInv, Fresh
    <3>3. req[v].delivery \in Deliveries /\ Known(req[v])
      BY <2>2, <3>2 DEF Found, KnownInv, OfferInv, TypeInv, ReqInv, WellFormed
    <3>4. CASE req[v].delivery = d
      <4>1. delivery[d].status # None
        BY <2>2, <3>2, <3>3, <3>4 DEF Found, Known
      <4>2. ~(Naming(w, d) /\ Unlocked(w, d))
        <5>1. CASE req[v].pc = "rematch"
          BY <3>1, <3>4, <5>1 DEF Unlocked, At
        <5>2. CASE Retrying(v, d)
          BY <3>1, <5>2 DEF RetriesAlone
        <5> QED BY <2>2, <3>2, <3>4, <5>1, <5>2 DEF Found, Retrying
      <4>3. history'[d].offered = history[d].offered
        BY <1>4, <4>1, <4>2 DEF WritesOne, NamesWell
      <4> QED BY <3>2, <3>4, <4>3
    <3>5. CASE req[v].delivery # d
      BY <1>4, <3>2, <3>3, <3>5 DEF WritesOne
    <3> QED BY <3>4, <3>5
  <2>3. FreshInv'
    BY <2>2 DEF FreshInv, Fresh, Found
  <2> QED BY <2>1, <2>3
<1> QED BY <1>1, <1>2, <1>3, <1>4 DEF RowStep

(***************************************************************************)
(* "so the same rider is never re-offered": everyone a delivery was        *)
(* offered to is excluded from its next search.  It is true whatever else  *)
(* overlaps, for any number of requests and sweeps, as long as nobody      *)
(* names a rider between the search of a retry and its write.              *)
(***************************************************************************)
THEOREM ReofferedNever == Spec /\ []RetriesAlone => NeverReoffered
<1>1. Init => FreshInv
  BY IdleTask DEF Init, FreshInv, Fresh, Found
<1>2. KnownInv /\ FreshInv /\ RetriesAlone /\ [Next]_vars =>
        /\ FreshInv'
        /\ [\A d \in Deliveries : AutoOffer(d) => delivery'[d].rider \notin history[d].offered]_vars
  BY NextRow, FreshStep
<1> QED BY <1>1, <1>2, KnownInvariant, PTL DEF Spec, NeverReoffered

---------------------------------------------------------------------------
(***************************************************************************)
(* What a delivery earns.                                                  *)
(***************************************************************************)

(***************************************************************************)
(* Nobody is between the check of a delivery and its unguarded update      *)
(* while someone is about to complete it.  Completions may overlap with    *)
(* each other and with everything that is guarded.                         *)
(***************************************************************************)
CompletesAlone ==
    \A v, w \in Workers :
        At(v, "complete") /\ req[w].pc \in Unguarded => req[v].delivery # req[w].delivery

\* A delivery is earned when it is delivered, and DELIVERED is final.
EarnInv ==
    /\ \A d \in Deliveries : earned[d] = IF delivery[d].status = "DELIVERED" THEN 1 ELSE 0
    /\ \A w \in Workers : Early(req[w])

LEMMA EarnStep == ASSUME KnownInv, EarnInv, CompletesAlone, RowStep PROVE EarnInv'
<1>t. req \in [Workers -> Task] /\ earned \in [Deliveries -> Nat]
  BY DEF KnownInv, OfferInv, TypeInv, ReqInv, RowInv
<1>1. CASE UNCHANGED <<delivery, history, earned, req>>
  BY <1>1 DEF EarnInv, Early
<1>2. ASSUME NEW w \in Workers, Reads(w) PROVE EarnInv'
  <2>1. PICK t : req' = [req EXCEPT ![w] = t] /\ Early(t) /\ UNCHANGED <<delivery, earned>>
    BY <1>2 DEF Reads
  <2>2. \A v \in Workers : Early(req'[v])
    BY <1>t, <2>1 DEF EarnInv
  <2> QED BY <2>1, <2>2 DEF EarnInv, Early
<1>3. ASSUME NEW w \in Workers, NEW d \in Deliveries, WritesOne(w, d) PROVE EarnInv'
  <2>0. Early(req[w]) /\ earned[d] = IF delivery[d].status = "DELIVERED" THEN 1 ELSE 0
    BY DEF EarnInv
  <2>1. earned'[d] = IF delivery'[d].status = "DELIVERED" THEN 1 ELSE 0
    BY <1>t, <1>3, <2>0 DEF WritesOne, EarnsWell
  <2>2. \A e \in Deliveries \ {d} : earned'[e] = earned[e] /\ delivery'[e] = delivery[e]
    BY <1>t, <1>3 DEF WritesOne, EarnsWell
  <2>3. \A e \in Deliveries : earned'[e] = IF delivery'[e].status = "DELIVERED" THEN 1 ELSE 0
    BY <2>1, <2>2 DEF EarnInv
  <2>4. ASSUME NEW v \in Workers, req'[v].pc \in Unguarded
        PROVE  delivery'[req'[v].delivery].status # "DELIVERED"
    <3>1. v # w
      <4>1. v = w => req'[v] = Idle
        BY <1>t, <1>3 DEF WritesOne
      <4> QED BY <2>4, <4>1, IdleTask DEF Unguarded
    <3>2. /\ req'[v] = req[v] /\ delivery[req[v].delivery].status # "DELIVERED"
          /\ req[v].delivery \in Deliveries
      BY <1>t, <1>3, <2>4, <3>1
         DEF WritesOne, EarnInv, Early, Unguarded, KnownInv, OfferInv, TypeInv, ReqInv, WellFormed
    <3>3. CASE req[v].delivery = d
      <4>1. ~(At(w, "complete") /\ req[w].delivery = d)
        BY <2>4, <3>2, <3>3 DEF CompletesAlone
      <4> QED BY <1>3, <3>2, <3>3, <4>1 DEF WritesOne, EarnsWell
    <3>4. CASE req[v].delivery # d
      BY <1>3, <3>2, <3>4 DEF WritesOne
    <3> QED BY <3>3, <3>4
  <2> QED BY <2>3, <2>4 DEF EarnInv, Early
<1> QED BY <1>1, <1>2, <1>3 DEF RowStep

(***************************************************************************)
(* The comment of complete() says "race-safe against two completions".     *)
(* Its compare-and-swap is: however many completions overlap, a delivery   *)
(* is earned once, as long as no unguarded update, checked before, puts a  *)
(* delivered delivery back on the road.  Without that it is not (see       *)
(* EarnedOnce).                                                            *)
(***************************************************************************)
THEOREM EarnedOnDelivery == Spec /\ []CompletesAlone => []EarnedOnce
<1>1. Init => EarnInv
  BY IdleTask DEF Init, EarnInv, Early, Unguarded, NoDelivery, None
<1>2. KnownInv /\ EarnInv /\ CompletesAlone /\ [Next]_vars => EarnInv'
  BY NextRow, EarnStep
<1>3. EarnInv => EarnedOnce
  BY DEF EarnInv, EarnedOnce
<1> QED BY <1>1, <1>2, <1>3, KnownInvariant, PTL DEF Spec

---------------------------------------------------------------------------
(***************************************************************************)
(* When requests and sweeps do not overlap.                                *)
(***************************************************************************)
OneWorker == \A v, w \in Workers : v = w

\* What a worker has checked still holds when it writes.
Checked(t) ==
    LET s == delivery[t.delivery].status IN
    /\ t.pc = "assignWrite" => s = "SEARCHING_RIDER"
    /\ t.pc \in {"replace", "cancel"} => s \in Cancellable
    /\ t.pc \in {"reassign", "rematch"} => t.action # "ACCEPTED"
    /\ t.pc = "accept" => t.rider # None
    /\ t.pc = "transition" => CanTransition(s, t.target)
    /\ t.pc \in {"verify", "complete"} => s = "ARRIVED_AT_CUSTOMER"
    /\ t.pc = "complete" => proven[t.delivery]

CheckedInv == \A w \in Workers : Checked(req[w])

\* From the acceptance to the delivery, the rider is the one who accepted.
Carried == { "GOING_TO_PICKUP", "ARRIVED_AT_PICKUP", "PICKED_UP", "IN_TRANSIT",
             "ARRIVED_AT_CUSTOMER" }

CarrierInv ==
    \A d \in Deliveries :
        delivery[d].status \in Carried =>
            /\ delivery[d].rider # None
            /\ history[d].last = [action |-> "ACCEPTED", rider |-> delivery[d].rider]

SoloInv == OfferInv /\ CarrierInv /\ CheckedInv

(***************************************************************************)
(* What one step does to the rows: nothing, or one action of DeliveryJob.  *)
(***************************************************************************)
SameRows == UNCHANGED <<delivery, history, proven, earned>>

\* The row of delivery d and its history become these.
Becomes(d, row, h) ==
    /\ h \in History
    /\ delivery' = [delivery EXCEPT ![d] = row]
    /\ history' = [history EXCEPT ![d] = h]

\* ... with another status and the same rider.
Restates(d, status, h) == Becomes(d, [delivery[d] EXCEPT !.status = status], h)

MakesOffer(t) ==
    \E source \in {"AUTO", "ADMIN"}, h \in History :
        /\ t.delivery \in Deliveries /\ t.rider \in Riders
        /\ delivery[t.delivery].status \in {None} \cup Cancellable
        /\ Becomes(t.delivery, Assigned(t.rider, source), h)
        /\ h.last = [action |-> "ASSIGNED", rider |-> t.rider]
        /\ UNCHANGED <<proven, earned>>

Opens(d) ==
    /\ delivery[d].status = None
    /\ Restates(d, "SEARCHING_RIDER", history[d])
    /\ UNCHANGED <<proven, earned>>

Withdraws(d) ==
    /\ delivery[d].status = "RIDER_ASSIGNED"
    /\ \E h \in History :
        /\ Becomes(d, [delivery[d] EXCEPT !.status = "SEARCHING_RIDER", !.rider = None], h)
        /\ h.last.action # "ACCEPTED"
    /\ UNCHANGED <<proven, earned>>

Accepts(d) ==
    /\ delivery[d].status = "RIDER_ASSIGNED" /\ delivery[d].rider # None
    /\ \E h \in History :
        /\ Restates(d, "GOING_TO_PICKUP", h)
        /\ h.last = [action |-> "ACCEPTED", rider |-> delivery[d].rider]
    /\ UNCHANGED <<proven, earned>>

Advances(d) ==
    /\ \E to \in TransitionTargets :
        CanTransition(delivery[d].status, to) /\ Restates(d, to, history[d])
    /\ UNCHANGED <<proven, earned>>

Proves(d) ==
    /\ delivery[d].status = "ARRIVED_AT_CUSTOMER"
    /\ proven' = [proven EXCEPT ![d] = TRUE]
    /\ UNCHANGED <<delivery, history, earned>>

Delivers(d) ==
    /\ delivery[d].status = "ARRIVED_AT_CUSTOMER" /\ proven[d]
    /\ Restates(d, "DELIVERED", history[d])
    /\ earned' = [earned EXCEPT ![d] = @ + 1]
    /\ UNCHANGED proven

Cancels(d) ==
    /\ delivery[d].status \in Cancellable
    /\ \E h \in History : Restates(d, "CANCELLED", h) /\ h.last.action # "ACCEPTED"
    /\ UNCHANGED <<proven, earned>>

JobMove ==
    \/ SameRows
    \/ \E w \in Workers : MakesOffer(req[w])
    \/ \E d \in Deliveries :
        \/ Opens(d) \/ Withdraws(d) \/ Accepts(d) \/ Advances(d)
        \/ Proves(d) \/ Delivers(d) \/ Cancels(d)

SoloStep == JobMove /\ CheckedInv'

LEMMA IdleReady == Checked(Idle)
BY IdleTask DEF Checked

LEMMA IdleReadyNext == Checked(Idle)'
BY IdleTask DEF Checked

(***************************************************************************)
(* A step that ends the one task there is makes no check stale, ...        *)
(***************************************************************************)
LEMMA EndIsSolo ==
    ASSUME OneWorker, ReqInv, NEW w \in Workers, Finish(w), JobMove
    PROVE  SoloStep
<1>1. \A v \in Workers : req'[v] = Idle
  BY DEF OneWorker, ReqInv, Finish
<1> QED BY <1>1, IdleReadyNext DEF SoloStep, CheckedInv

(***************************************************************************)
(* ... and one that only reads goes on with what it has just read.         *)
(***************************************************************************)
LEMMA ReadIsSolo ==
    ASSUME OneWorker, ReqInv, NEW w \in Workers, NEW t, req' = [req EXCEPT ![w] = t],
           Checked(t), UNCHANGED <<rider, delivery, history, proven, earned>>
    PROVE  SoloStep
<1>1. \A v \in Workers : req'[v] = t
  BY DEF OneWorker, ReqInv
<1>2. Checked(t)'
  BY DEF Checked
<1> QED BY <1>1, <1>2 DEF SoloStep, CheckedInv, JobMove, SameRows

LEMMA QuietEndIsSolo ==
    ASSUME OneWorker, ReqInv, NEW w \in Workers, Finish(w), SameRows
    PROVE  SoloStep
BY EndIsSolo DEF JobMove

(***************************************************************************)
(* The steps that start a task.                                            *)
(***************************************************************************)
LEMMA DispatchReadsSolo ==
    ASSUME OneWorker, SoloInv, NEW w \in Workers, NEW d \in Deliveries,
           \/ CreateRead(w, d) \/ RejectRead(w, d) \/ CancelRead(w, d)
           \/ RetryRead(w, d) \/ TimeoutRead(w, d) \/ \E r \in Riders : AdminRead(w, d, r)
    PROVE  SoloStep
<1>r. ReqInv
  BY DEF SoloInv, OfferInv, TypeInv
<1>1. CASE CreateRead(w, d)
  <2>1. PICK r :
            req' = [req EXCEPT ![w] = [Idle EXCEPT !.pc = "create", !.delivery = d, !.rider = r]]
    BY <1>1 DEF CreateRead, Start
  <2> DEFINE t == [Idle EXCEPT !.pc = "create", !.delivery = d, !.rider = r]
  <2>2. t.pc = "create"
    BY DEF Idle
  <2> HIDE DEF t
  <2>3. Checked(t)
    BY <2>2 DEF Checked
  <2> QED BY <1>r, <1>1, <2>1, <2>3, ReadIsSolo DEF CreateRead, t
<1>2. CASE RetryRead(w, d)
  <2>1. PICK r :
            req' = [req EXCEPT ![w] = [Idle EXCEPT !.pc = "assign", !.delivery = d,
                                                   !.rider = r, !.source = "AUTO"]]
    BY <1>2 DEF RetryRead, Start
  <2> DEFINE t == [Idle EXCEPT !.pc = "assign", !.delivery = d, !.rider = r, !.source = "AUTO"]
  <2>2. t.pc = "assign"
    BY DEF Idle
  <2> HIDE DEF t
  <2>3. Checked(t)
    BY <2>2 DEF Checked
  <2> QED BY <1>r, <1>2, <2>1, <2>3, ReadIsSolo DEF RetryRead, t
<1>3. ASSUME NEW action \in {"REJECTED", "TIMED_OUT"},
             Start(w, [Idle EXCEPT !.pc = "reassign", !.delivery = d, !.action = action]),
             UNCHANGED <<rider, delivery, history, proven, earned>>
      PROVE  SoloStep
  <2> DEFINE t == [Idle EXCEPT !.pc = "reassign", !.delivery = d, !.action = action]
  <2>1. t.pc = "reassign" /\ t.delivery = d /\ t.action = action
    BY DEF Idle
  <2>2. req' = [req EXCEPT ![w] = t]
    BY <1>3 DEF Start
  <2> HIDE DEF t
  <2>3. Checked(t)
    BY <2>1 DEF Checked
  <2> QED BY <1>r, <1>3, <2>2, <2>3, ReadIsSolo
<1>4. CASE RejectRead(w, d) \/ TimeoutRead(w, d)
  BY <1>3, <1>4 DEF RejectRead, TimeoutRead
<1>5. CASE CancelRead(w, d)
  <2> DEFINE t == [Idle EXCEPT !.pc = "cancel", !.delivery = d, !.prev = delivery[d].rider]
  <2>1. t.pc = "cancel" /\ t.delivery = d
    BY DEF Idle
  <2>2. req' = [req EXCEPT ![w] = t] /\ delivery[d].status \in Cancellable
    BY <1>5 DEF CancelRead, Start
  <2> HIDE DEF t
  <2>3. Checked(t)
    BY <2>1, <2>2 DEF Checked
  <2> QED BY <1>r, <1>5, <2>2, <2>3, ReadIsSolo DEF CancelRead
<1>6. ASSUME NEW r \in Riders, AdminRead(w, d, r) PROVE SoloStep
  <2>1. PICK pc \in {"assign", "replace"} :
            req' = [req EXCEPT ![w] = [Idle EXCEPT !.pc = pc, !.delivery = d, !.rider = r,
                                            !.prev = delivery[d].rider, !.source = "ADMIN"]]
    BY <1>6 DEF AdminRead, Start
  <2> DEFINE t == [Idle EXCEPT !.pc = pc, !.delivery = d, !.rider = r,
                               !.prev = delivery[d].rider, !.source = "ADMIN"]
  <2>2. t.pc = pc /\ t.delivery = d /\ t.source = "ADMIN"
    BY DEF Idle
  <2>3. /\ delivery[d].status \in Cancellable
        /\ UNCHANGED <<rider, delivery, history, proven, earned>>
    BY <1>6 DEF AdminRead
  <2> HIDE DEF t
  <2>4. Checked(t)
    BY <2>1, <2>2, <2>3 DEF Checked
  <2> QED BY <1>r, <2>1, <2>3, <2>4, ReadIsSolo DEF t
<1> QED BY <1>1, <1>2, <1>4, <1>5, <1>6

LEMMA CourierReadsSolo ==
    ASSUME OneWorker, SoloInv, NEW w \in Workers,
           \/ \E d \in Deliveries :
                \/ \E r \in Riders : AcceptRead(w, d, r) \/ CompleteRead(w, d, r)
                \/ \E target \in TransitionTargets : TransitionRead(w, d, target)
           \/ \E r \in Riders, status \in Availabilities : AvailabilityRead(w, r, status)
    PROVE  SoloStep
<1>r. ReqInv
  BY DEF SoloInv, OfferInv, TypeInv
<1>1. ASSUME NEW d \in Deliveries, NEW r \in Riders, AcceptRead(w, d, r) PROVE SoloStep
  <2> DEFINE t == [Idle EXCEPT !.pc = "accept", !.delivery = d, !.rider = r]
  <2>1. t.pc = "accept" /\ t.rider = r
    BY DEF Idle
  <2>2. req' = [req EXCEPT ![w] = t] /\ r # None
    BY <1>1 DEF AcceptRead, Start, Owns
  <2> HIDE DEF t
  <2>3. Checked(t)
    BY <2>1, <2>2 DEF Checked
  <2> QED BY <1>r, <1>1, <2>2, <2>3, ReadIsSolo DEF AcceptRead
<1>2. ASSUME NEW d \in Deliveries, NEW r \in Riders, CompleteRead(w, d, r) PROVE SoloStep
  <2> DEFINE t == [Idle EXCEPT !.pc = "verify", !.delivery = d, !.rider = r]
  <2>1. t.pc = "verify" /\ t.delivery = d
    BY DEF Idle
  <2>2. req' = [req EXCEPT ![w] = t]
    BY <1>2 DEF CompleteRead, Start
  <2>3. delivery[d].status = "ARRIVED_AT_CUSTOMER"
    BY <1>2 DEF CompleteRead, CanTransition, Transitions, DeliveryStatuses
  <2> HIDE DEF t
  <2>4. Checked(t)
    BY <2>1, <2>3 DEF Checked
  <2> QED BY <1>r, <1>2, <2>2, <2>4, ReadIsSolo DEF CompleteRead
<1>3. ASSUME NEW d \in Deliveries, NEW target \in TransitionTargets, TransitionRead(w, d, target)
      PROVE  SoloStep
  <2> DEFINE t == [Idle EXCEPT !.pc = "transition", !.delivery = d, !.target = target]
  <2>1. t.pc = "transition" /\ t.delivery = d /\ t.target = target
    BY DEF Idle
  <2>2. req' = [req EXCEPT ![w] = t] /\ CanTransition(delivery[d].status, target)
    BY <1>3 DEF TransitionRead, Start, MayMove
  <2> HIDE DEF t
  <2>3. Checked(t)
    BY <2>1, <2>2 DEF Checked
  <2> QED BY <1>r, <1>3, <2>2, <2>3, ReadIsSolo DEF TransitionRead
<1>4. ASSUME NEW r \in Riders, NEW status \in Availabilities, AvailabilityRead(w, r, status)
      PROVE  SoloStep
  <2> DEFINE t == [Idle EXCEPT !.pc = "availability", !.rider = r, !.status = status]
  <2>1. t.pc = "availability"
    BY DEF Idle
  <2>2. req' = [req EXCEPT ![w] = t]
    BY <1>4 DEF AvailabilityRead, Start
  <2> HIDE DEF t
  <2>3. Checked(t)
    BY <2>1 DEF Checked
  <2> QED BY <1>r, <1>4, <2>2, <2>3, ReadIsSolo DEF AvailabilityRead
<1> QED BY <1>1, <1>2, <1>3, <1>4

(***************************************************************************)
(* The steps between, which check and search.                              *)
(***************************************************************************)
LEMMA SearchesSolo ==
    ASSUME OneWorker, SoloInv, NEW w \in Workers, AssignRead(w) \/ Reassign(w)
    PROVE  SoloStep
<1> DEFINE d == req[w].delivery
<1>r. ReqInv /\ req[w] \in Task /\ Checked(req[w])
  BY DEF SoloInv, CheckedInv, OfferInv, TypeInv, ReqInv
<1>q. UNCHANGED <<rider, delivery, history, proven, earned>>
  BY DEF AssignRead, Reassign
<1>1. CASE Finish(w)
  BY <1>r, <1>q, <1>1, QuietEndIsSolo DEF SameRows
<1>2. CASE AssignRead(w) /\ CanTransition(delivery[d].status, "RIDER_ASSIGNED")
  <2> DEFINE t == [req[w] EXCEPT !.pc = "assignWrite"]
  <2>1. t.pc = "assignWrite" /\ t.delivery = d
    BY <1>r, <1>2 DEF Task, AssignRead, At
  <2>2. req' = [req EXCEPT ![w] = t]
    BY <1>2 DEF AssignRead, Continue
  <2>3. delivery[d].status = "SEARCHING_RIDER"
    BY <1>2 DEF CanTransition, Transitions, DeliveryStatuses
  <2> HIDE DEF t
  <2>4. Checked(t)
    BY <2>1, <2>3 DEF Checked
  <2> QED BY <1>r, <1>q, <2>2, <2>4, ReadIsSolo
<1>3. CASE Reassign(w) /\ StillOpen(d)
  <2> DEFINE prev == delivery[d].rider
  <2>1. PICK r : req' = [req EXCEPT ![w] = [req[w] EXCEPT !.pc = "rematch", !.prev = prev,
                                                          !.rider = r]]
    BY <1>3 DEF Reassign, Continue
  <2> DEFINE t == [req[w] EXCEPT !.pc = "rematch", !.prev = prev, !.rider = r]
  <2>2. t.pc = "rematch" /\ t.action = req[w].action /\ req[w].pc = "reassign"
    BY <1>r, <1>3 DEF Task, Reassign, At
  <2> HIDE DEF t
  <2>3. Checked(t)
    BY <1>r, <2>2 DEF Checked
  <2> QED BY <1>r, <1>q, <2>1, <2>3, ReadIsSolo DEF t
<1> QED BY <1>1, <1>2, <1>3 DEF AssignRead, Reassign

(***************************************************************************)
(* The steps that write a delivery, each as an action of DeliveryJob.      *)
(***************************************************************************)
LEMMA CreateCommitSolo ==
    ASSUME OneWorker, SoloInv, NEW w \in Workers, CreateCommit(w)
    PROVE  SoloStep
<1> DEFINE d == req[w].delivery
           r == req[w].rider
<1>t. /\ d \in Deliveries /\ r \in Riders \cup {None} /\ "ASSIGNED" \in HistoryActions
      /\ delivery \in [Deliveries -> DeliveryRow] /\ history \in [Deliveries -> History]
      /\ ReqInv
  BY DEF SoloInv, OfferInv, TypeInv, RowInv, ReqInv, WellFormed, CreateCommit, At, Task,
         HistoryActions
<1>f. Finish(w) /\ req[w].pc = "create" /\ UNCHANGED <<proven, earned>>
  BY DEF CreateCommit, At
<1>1. CASE delivery[d] # NoDelivery
  BY <1>t, <1>f, <1>1, QuietEndIsSolo DEF CreateCommit, SameRows
<1>2. CASE delivery[d] = NoDelivery
  <2>1. delivery[d].status = None
    BY <1>2 DEF NoDelivery
  <2>2. CASE r = None
    <3>1. delivery' = [delivery EXCEPT ![d].status = "SEARCHING_RIDER"] /\ UNCHANGED history
      BY <1>2, <2>2 DEF CreateCommit
    <3>2. Opens(d)
      BY <1>t, <1>f, <2>1, <3>1 DEF Opens, Restates, Becomes
    <3> QED BY <1>t, <1>f, <3>2, EndIsSolo DEF JobMove
  <2>3. CASE r # None
    <3>1. /\ delivery' = [delivery EXCEPT ![d] = Assigned(r, "AUTO")]
          /\ history' = [history EXCEPT ![d] = Logged(history[d], "ASSIGNED", r)]
      BY <1>2, <2>3 DEF CreateCommit
    <3>2. /\ Logged(history[d], "ASSIGNED", r) \in History
          /\ Logged(history[d], "ASSIGNED", r).last = [action |-> "ASSIGNED", rider |-> r]
      BY <1>t, LoggedTyped
    <3>3. MakesOffer(req[w])
      BY <1>t, <1>f, <2>1, <2>3, <3>1, <3>2 DEF MakesOffer, Becomes
    <3> QED BY <1>t, <1>f, <3>3, EndIsSolo DEF JobMove
  <2> QED BY <2>2, <2>3
<1> QED BY <1>1, <1>2

LEMMA AssignmentsSolo ==
    ASSUME OneWorker, SoloInv, NEW w \in Workers,
           AssignWrite(w) \/ ReplaceCommit(w) \/ CancelCommit(w)
    PROVE  SoloStep
<1> DEFINE d == req[w].delivery
           r == req[w].rider
           prev == req[w].prev
<1>t. /\ d \in Deliveries /\ prev \in Riders \cup {None} /\ r \in Riders \cup {None}
      /\ {"ASSIGNED", "REASSIGNED", "CANCELLED"} \subseteq HistoryActions
      /\ delivery \in [Deliveries -> DeliveryRow] /\ history \in [Deliveries -> History]
      /\ ReqInv /\ WellFormed(req[w]) /\ Checked(req[w])
  BY DEF SoloInv, CheckedInv, OfferInv, TypeInv, RowInv, ReqInv, WellFormed, AssignWrite,
         ReplaceCommit, CancelCommit, At, Task, HistoryActions
<1>f. Finish(w) /\ UNCHANGED <<proven, earned>>
  BY DEF AssignWrite, ReplaceCommit, CancelCommit
<1>1. CASE AssignWrite(w)
  <2>1. /\ delivery' = [delivery EXCEPT ![d] = Assigned(r, req[w].source)]
        /\ history' = [history EXCEPT ![d] = Logged(history[d], "ASSIGNED", r)]
        /\ req[w].pc = "assignWrite"
    BY <1>1 DEF AssignWrite, At
  <2>2. /\ r \in Riders /\ req[w].source \in {"AUTO", "ADMIN"}
        /\ delivery[d].status \in Cancellable
    BY <1>t, <2>1 DEF WellFormed, OnRider, Checked, Cancellable
  <2>3. /\ Logged(history[d], "ASSIGNED", r) \in History
        /\ Logged(history[d], "ASSIGNED", r).last = [action |-> "ASSIGNED", rider |-> r]
    BY <1>t, LoggedTyped
  <2>4. MakesOffer(req[w])
    BY <1>t, <1>f, <2>1, <2>2, <2>3 DEF MakesOffer, Becomes
  <2> QED BY <1>t, <1>f, <2>4, EndIsSolo DEF JobMove
<1>2. CASE ReplaceCommit(w)
  <2> DEFINE h == Logged(Logged(history[d], "REASSIGNED", prev), "ASSIGNED", r)
  <2>1. /\ delivery' = [delivery EXCEPT ![d] = Assigned(r, "ADMIN")]
        /\ history' = [history EXCEPT ![d] = h]
        /\ req[w].pc = "replace"
    BY <1>2 DEF ReplaceCommit, At
  <2>2. r \in Riders /\ delivery[d].status \in Cancellable
    BY <1>t, <2>1 DEF WellFormed, OnRider, Checked
  <2>3. h \in History /\ h.last = [action |-> "ASSIGNED", rider |-> r]
    BY <1>t, LoggedTyped
  <2> HIDE DEF h
  <2>4. MakesOffer(req[w])
    BY <1>t, <1>f, <2>1, <2>2, <2>3 DEF MakesOffer, Becomes
  <2> QED BY <1>t, <1>f, <2>4, EndIsSolo DEF JobMove
<1>3. CASE CancelCommit(w)
  <2> DEFINE h == Logged(history[d], "CANCELLED", prev)
  <2>1. /\ delivery' = [delivery EXCEPT ![d].status = "CANCELLED"]
        /\ history' = [history EXCEPT ![d] = h]
        /\ req[w].pc = "cancel"
    BY <1>3 DEF CancelCommit, At
  <2>2. delivery[d].status \in Cancellable
    BY <1>t, <2>1 DEF Checked
  <2>3. h \in History
    BY <1>t, LoggedTyped
  <2>4. h.last.action # "ACCEPTED"
    BY DEF Logged
  <2> HIDE DEF h
  <2>5. Cancels(d)
    BY <1>f, <2>1, <2>2, <2>3, <2>4 DEF Cancels, Restates, Becomes
  <2> QED BY <1>t, <1>f, <2>5, EndIsSolo DEF JobMove
<1> QED BY <1>1, <1>2, <1>3

LEMMA RematchSolo ==
    ASSUME OneWorker, SoloInv, NEW w \in Workers, RematchCommit(w)
    PROVE  SoloStep
<1> DEFINE d      == req[w].delivery
           r      == req[w].rider
           action == req[w].action
           prev   == req[w].prev
<1>t. /\ d \in Deliveries /\ prev \in Riders \cup {None} /\ r \in Riders \cup {None}
      /\ action \in HistoryActions \ {"ASSIGNED"} /\ "ASSIGNED" \in HistoryActions
      /\ delivery \in [Deliveries -> DeliveryRow] /\ history \in [Deliveries -> History]
      /\ ReqInv /\ Checked(req[w])
  BY DEF SoloInv, CheckedInv, OfferInv, TypeInv, RowInv, ReqInv, WellFormed, RematchCommit, At,
         Task, HistoryActions, Answers
<1>f. /\ Finish(w) /\ UNCHANGED <<proven, earned>> /\ req[w].pc = "rematch"
      /\ delivery[d].status = "RIDER_ASSIGNED"
  BY DEF RematchCommit, SoloInv, OfferInv, LockInv, At
<1>a. action # "ACCEPTED"
  BY <1>t, <1>f DEF Checked
<1>1. CASE r = None
  <2> DEFINE h == Logged(history[d], action, prev)
  <2>1. /\ delivery' = [delivery EXCEPT ![d].status = "SEARCHING_RIDER", ![d].rider = None]
        /\ history' = [history EXCEPT ![d] = h]
    BY <1>1 DEF RematchCommit
  <2>2. h \in History
    BY <1>t, LoggedTyped
  <2>3. h.last.action # "ACCEPTED"
    BY <1>a DEF Logged
  <2>4. delivery' = [delivery EXCEPT ![d] = [delivery[d] EXCEPT !.status = "SEARCHING_RIDER",
                                                                !.rider = None]]
    BY <2>1
  <2> HIDE DEF h
  <2>5. Withdraws(d)
    BY <1>f, <2>1, <2>2, <2>3, <2>4 DEF Withdraws, Becomes
  <2> QED BY <1>t, <1>f, <2>5, EndIsSolo DEF JobMove
<1>2. CASE r # None
  <2> DEFINE h == Rematched(history[d], action, prev, r)
  <2>1. /\ delivery' = [delivery EXCEPT ![d] = Assigned(r, "AUTO")]
        /\ history' = [history EXCEPT ![d] = h]
    BY <1>2 DEF RematchCommit
  <2>0. r \in Riders /\ action \in HistoryActions /\ history[d] \in History
    BY <1>t, <1>2
  <2>2. h \in History /\ h.last = [action |-> "ASSIGNED", rider |-> r]
    BY ZenonT(40), <1>t, <2>0, RematchedTyped
  <2> HIDE DEF h
  <2>3. MakesOffer(req[w])
    BY <1>t, <1>f, <1>2, <2>1, <2>2 DEF MakesOffer, Becomes, Cancellable
  <2> QED BY <1>t, <1>f, <2>3, EndIsSolo DEF JobMove
<1> QED BY <1>1, <1>2

LEMMA CourierWritesSolo ==
    ASSUME OneWorker, SoloInv, NEW w \in Workers,
           AcceptCommit(w) \/ TransitionWrite(w) \/ CompleteCommit(w)
    PROVE  SoloStep
<1> DEFINE d == req[w].delivery
           r == req[w].rider
<1>t. /\ d \in Deliveries /\ r \in Riders \cup {None} /\ "ACCEPTED" \in HistoryActions
      /\ delivery \in [Deliveries -> DeliveryRow] /\ history \in [Deliveries -> History]
      /\ ReqInv /\ WellFormed(req[w]) /\ Checked(req[w])
  BY DEF SoloInv, CheckedInv, OfferInv, TypeInv, RowInv, ReqInv, WellFormed, AcceptCommit,
         TransitionWrite, CompleteCommit, At, Task, HistoryActions
<1>f. Finish(w)
  BY DEF AcceptCommit, TransitionWrite, CompleteCommit
<1>h. history' = [history EXCEPT ![d] = history[d]] <=> history' = history
  BY <1>t
<1>1. CASE AcceptCommit(w) /\ StillOffered(d, r)
  <2> DEFINE h == Logged(history[d], "ACCEPTED", r)
  <2>1. /\ delivery' = [delivery EXCEPT ![d].status = "GOING_TO_PICKUP"]
        /\ history' = [history EXCEPT ![d] = h]
        /\ UNCHANGED <<proven, earned>> /\ req[w].pc = "accept"
    BY <1>1 DEF AcceptCommit, At
  <2>2. delivery[d].status = "RIDER_ASSIGNED" /\ delivery[d].rider = r /\ r # None
    BY <1>t, <1>1, <2>1 DEF StillOffered, Checked
  <2>3. h \in History /\ h.last = [action |-> "ACCEPTED", rider |-> r]
    BY <1>t, LoggedTyped
  <2> HIDE DEF h
  <2>4. Accepts(d)
    BY <2>1, <2>2, <2>3 DEF Accepts, Restates, Becomes
  <2> QED BY <1>t, <1>f, <2>4, EndIsSolo DEF JobMove
<1>2. CASE TransitionWrite(w)
  <2>1. /\ delivery' = [delivery EXCEPT ![d].status = req[w].target]
        /\ UNCHANGED <<history, proven, earned>> /\ req[w].pc = "transition"
    BY <1>2 DEF TransitionWrite, At
  <2>2. req[w].target \in TransitionTargets /\ CanTransition(delivery[d].status, req[w].target)
    BY <1>t, <2>1 DEF WellFormed, Checked
  <2>3. Advances(d)
    BY <1>t, <1>h, <2>1, <2>2 DEF Advances, Restates, Becomes
  <2> QED BY <1>t, <1>f, <2>3, EndIsSolo DEF JobMove
<1>3. CASE CompleteCommit(w) /\ AtCustomer(d)
  <2>1. /\ delivery' = [delivery EXCEPT ![d].status = "DELIVERED"]
        /\ earned' = [earned EXCEPT ![d] = @ + 1]
        /\ UNCHANGED <<history, proven>> /\ req[w].pc = "complete"
    BY <1>3 DEF CompleteCommit, At
  <2>2. delivery[d].status = "ARRIVED_AT_CUSTOMER" /\ proven[d]
    BY <1>t, <2>1 DEF Checked
  <2>3. Delivers(d)
    BY <1>t, <1>h, <2>1, <2>2 DEF Delivers, Restates, Becomes
  <2> QED BY <1>t, <1>f, <2>3, EndIsSolo DEF JobMove
<1>4. CASE \/ AcceptCommit(w) /\ ~StillOffered(d, r)
           \/ CompleteCommit(w) /\ ~AtCustomer(d)
  <2>1. SameRows
    BY <1>4 DEF AcceptCommit, CompleteCommit, SameRows
  <2> QED BY <1>t, <1>f, <2>1, QuietEndIsSolo
<1> QED BY <1>1, <1>2, <1>3, <1>4

LEMMA VerifySolo ==
    ASSUME OneWorker, SoloInv, NEW w \in Workers, Verify(w)
    PROVE  SoloStep
<1> DEFINE d == req[w].delivery
           t == [req[w] EXCEPT !.pc = "complete"]
<1>t. /\ d \in Deliveries /\ req[w] \in Task /\ req \in [Workers -> Task] /\ Checked(req[w])
      /\ req[w].pc = "verify" /\ proven \in [Deliveries -> BOOLEAN]
  BY DEF SoloInv, CheckedInv, OfferInv, TypeInv, RowInv, ReqInv, WellFormed, Verify, At
<1>1. /\ req' = [req EXCEPT ![w] = t] /\ proven' = [proven EXCEPT ![d] = TRUE]
      /\ UNCHANGED <<delivery, history, earned>>
  BY DEF Verify, Continue
<1>2. t.pc = "complete" /\ t.delivery = d
  BY <1>t DEF Task
<1>3. delivery[d].status = "ARRIVED_AT_CUSTOMER" /\ proven'[d]
  BY <1>t, <1>1 DEF Checked
<1>4. Proves(d)
  BY <1>1, <1>3 DEF Proves
<1> HIDE DEF t
<1>5. \A v \in Workers : req'[v] = t
  BY <1>t, <1>1 DEF OneWorker
<1>6. \A v \in Workers : Checked(req[v])'
  BY <1>1, <1>2, <1>3, <1>5 DEF Checked
<1> QED BY <1>t, <1>4, <1>6 DEF SoloStep, JobMove, CheckedInv

(***************************************************************************)
(* The steps that write a rider, or nothing.                               *)
(***************************************************************************)
LEMMA RiderRowsSolo ==
    ASSUME SoloInv, UNCHANGED <<delivery, history, proven, earned, req>>
    PROVE  SoloStep
<1>1. CheckedInv'
  BY DEF SoloInv, CheckedInv, Checked
<1> QED BY <1>1 DEF SoloStep, JobMove, SameRows

LEMMA RiderStepSolo ==
    ASSUME OneWorker, SoloInv, NEW w \in Workers,
           \/ AvailabilityWrite(w) \/ Fail(w)
           \/ \E r \in Riders : Suspend(w, r) \/ Reactivate(w, r) \/ Roam(r)
    PROVE  SoloStep
<1>1. CASE AvailabilityWrite(w) \/ Fail(w)
  BY <1>1, QuietEndIsSolo DEF AvailabilityWrite, Fail, SameRows, SoloInv, OfferInv, TypeInv
<1>2. CASE \E r \in Riders : Suspend(w, r) \/ Reactivate(w, r)
  BY <1>2, RiderRowsSolo DEF Suspend, Reactivate
<1>3. CASE \E r \in Riders : Roam(r)
  BY <1>3, RiderRowsSolo DEF Roam
<1> QED BY <1>1, <1>2, <1>3

LEMMA NextSolo == ASSUME OneWorker, SoloInv, [Next]_vars PROVE SoloStep
<1>1. ASSUME NEW w \in Workers, DispatchRequest(w) \/ Sweep(w) PROVE SoloStep
  BY <1>1, DispatchReadsSolo, CreateCommitSolo, AssignmentsSolo DEF DispatchRequest, Sweep
<1>2. ASSUME NEW w \in Workers, CourierStep(w) PROVE SoloStep
  BY <1>2, CourierReadsSolo, CourierWritesSolo, VerifySolo DEF CourierStep
<1>3. ASSUME NEW w \in Workers, RiderStep(w) PROVE SoloStep
  BY <1>3, CourierReadsSolo, RiderStepSolo DEF RiderStep
<1>4. ASSUME NEW w \in Workers, DispatchStep(w) \/ Fail(w) PROVE SoloStep
  BY <1>4, SearchesSolo, AssignmentsSolo, RematchSolo, RiderStepSolo DEF DispatchStep
<1>5. ASSUME NEW r \in Riders, Roam(r) PROVE SoloStep
  BY <1>5, RiderRowsSolo DEF Roam
<1>6. CASE UNCHANGED vars
  BY <1>6, RiderRowsSolo DEF vars
<1> QED BY <1>1, <1>2, <1>3, <1>4, <1>5, <1>6 DEF Next, Workers

(***************************************************************************)
(* Whichever action of DeliveryJob a step is, it leaves the delivery with  *)
(* the rider who accepted it.                                              *)
(***************************************************************************)
LEMMA OthersKept ==
    ASSUME TypeInv, NEW d \in Deliveries, NEW row, NEW h, Becomes(d, row, h)
    PROVE  /\ delivery'[d] = row /\ history'[d] = h
           /\ \A e \in Deliveries \ {d} : delivery'[e] = delivery[e] /\ history'[e] = history[e]
BY DEF TypeInv, RowInv, Becomes

\* A move of one delivery: what it becomes is enough to know.
LEMMA OneMoves ==
    ASSUME CarrierInv, NEW d \in Deliveries,
           \A e \in Deliveries \ {d} : delivery'[e] = delivery[e] /\ history'[e] = history[e],
           delivery'[d].status \in Carried =>
                /\ delivery'[d].rider # None
                /\ history'[d].last = [action |-> "ACCEPTED", rider |-> delivery'[d].rider]
    PROVE  CarrierInv'
BY DEF CarrierInv

LEMMA MoveKeeps == ASSUME SoloInv, JobMove PROVE CarrierInv'
<1>t. TypeInv /\ CarrierInv /\ delivery \in [Deliveries -> DeliveryRow]
  BY DEF SoloInv, OfferInv, TypeInv, RowInv
<1>1. CASE UNCHANGED <<delivery, history>>
  BY <1>t, <1>1 DEF CarrierInv
<1>2. ASSUME NEW w \in Workers, MakesOffer(req[w]) PROVE CarrierInv'
  <2>1. PICK source, h : /\ req[w].delivery \in Deliveries
                         /\ Becomes(req[w].delivery, Assigned(req[w].rider, source), h)
    BY <1>2 DEF MakesOffer
  <2>2. delivery'[req[w].delivery].status = "RIDER_ASSIGNED"
    BY <1>t, <2>1, OthersKept DEF Assigned
  <2> QED BY <1>t, <2>1, <2>2, OthersKept, OneMoves DEF Carried, None
<1>3. ASSUME NEW d \in Deliveries, NEW status, NEW h, Restates(d, status, h),
             status \in Carried =>
                /\ delivery[d].rider # None
                /\ h.last = [action |-> "ACCEPTED", rider |-> delivery[d].rider]
      PROVE  CarrierInv'
  <2>1. /\ delivery'[d] = [delivery[d] EXCEPT !.status = status] /\ history'[d] = h
        /\ \A e \in Deliveries \ {d} : delivery'[e] = delivery[e] /\ history'[e] = history[e]
    BY <1>t, <1>3, OthersKept DEF Restates
  <2>2. delivery'[d].status = status /\ delivery'[d].rider = delivery[d].rider
    BY <1>t, <2>1 DEF DeliveryRow
  <2> QED BY <1>t, <1>3, <2>1, <2>2, OneMoves
<1>4. ASSUME NEW d \in Deliveries, Withdraws(d) PROVE CarrierInv'
  <2> DEFINE row == [delivery[d] EXCEPT !.status = "SEARCHING_RIDER", !.rider = None]
  <2>1. PICK h : Becomes(d, row, h)
    BY <1>4 DEF Withdraws
  <2>2. row.status = "SEARCHING_RIDER"
    BY <1>t DEF DeliveryRow
  <2> HIDE DEF row
  <2>3. delivery'[d].status = "SEARCHING_RIDER"
    BY <1>t, <2>1, <2>2, OthersKept
  <2> QED BY <1>t, <2>1, <2>3, OthersKept, OneMoves DEF Carried, None
<1>5. ASSUME NEW d \in Deliveries, Opens(d) \/ Delivers(d) \/ Cancels(d)
      PROVE  CarrierInv'
  <2>1. PICK status \in {"SEARCHING_RIDER", "DELIVERED", "CANCELLED"}, h \in History :
            Restates(d, status, h)
    BY <1>5 DEF Opens, Delivers, Cancels, Restates, Becomes
  <2> QED BY <1>3, <2>1 DEF Carried, None
<1>6. ASSUME NEW d \in Deliveries, Accepts(d) PROVE CarrierInv'
  BY <1>3, <1>6 DEF Accepts, None
<1>7. ASSUME NEW d \in Deliveries, Advances(d) PROVE CarrierInv'
  <2>1. PICK to \in TransitionTargets :
            CanTransition(delivery[d].status, to) /\ Restates(d, to, history[d])
    BY <1>7 DEF Advances
  <2>2. delivery[d].status \in Carried /\ to # None
    BY <2>1 DEF CanTransition, Transitions, DeliveryStatuses, TransitionTargets, Carried, None
  <2> QED BY <1>3, <1>t, <2>1, <2>2 DEF CarrierInv
<1> QED BY <1>1, <1>2, <1>4, <1>5, <1>6, <1>7 DEF JobMove, SameRows, Proves

LEMMA NextSoloInv == ASSUME OneWorker, SoloInv, [Next]_vars PROVE SoloInv'
BY NextSolo, MoveKeeps, NextOfferInv DEF SoloStep, SoloInv

LEMMA InitSoloInv == Init => SoloInv
<1> SUFFICES ASSUME Init PROVE SoloInv
  OBVIOUS
<1>1. \A d \in Deliveries : /\ delivery[d].status = None /\ None \notin Carried
  BY DEF Init, NoDelivery, None, Carried
<1>2. CarrierInv
  BY <1>1 DEF CarrierInv
<1>3. CheckedInv
  BY IdleReady DEF Init, CheckedInv
<1> QED BY <1>2, <1>3, InitOfferInv DEF SoloInv

(***************************************************************************)
(* Without overlap, what a worker has checked is still so when it writes:  *)
(* assignWrite and the transitions, whose updates are not guarded, write   *)
(* to the delivery they have checked.                                      *)
(***************************************************************************)
THEOREM ChecksHold ==
    ASSUME OneWorker
    PROVE  Spec => []SoloInv
BY InitSoloInv, NextSoloInv, PTL DEF Spec

---------------------------------------------------------------------------
(* The job of a courier *)

Status  == [d \in Deliveries |-> delivery[d].status]
Holder  == [d \in Deliveries |-> delivery[d].rider]
Carrier == [d \in Deliveries |-> CarrierOf(history[d].last)]

LEMMA OneCarrier ==
    ASSUME TypeInv, NEW d \in Deliveries, NEW row, NEW h, Becomes(d, row, h)
    PROVE  /\ Status' = [Status EXCEPT ![d] = row.status]
           /\ Holder' = [Holder EXCEPT ![d] = row.rider]
           /\ Carrier' = [Carrier EXCEPT ![d] = CarrierOf(h.last)]
BY ZenonT(40), OthersKept DEF Status, Holder, Carrier

LEMMA OneRestated ==
    ASSUME TypeInv, NEW d \in Deliveries, NEW status, NEW h, Restates(d, status, h)
    PROVE  /\ Status' = [Status EXCEPT ![d] = status] /\ Holder' = Holder
           /\ Carrier' = [Carrier EXCEPT ![d] = CarrierOf(h.last)]
<1>1. delivery[d] \in DeliveryRow
  BY DEF TypeInv, RowInv
<1> DEFINE row == [delivery[d] EXCEPT !.status = status]
<1>2. row.status = status /\ row.rider = delivery[d].rider
  BY <1>1 DEF DeliveryRow
<1>3. Becomes(d, row, h)
  BY DEF Restates
<1> HIDE DEF row
<1> QED BY ZenonT(40), <1>2, <1>3, OneCarrier DEF Holder

LEMMA SameCarrier ==
    ASSUME NEW d \in Deliveries, NEW h, CarrierOf(h.last) = CarrierOf(history[d].last),
           Carrier' = [Carrier EXCEPT ![d] = CarrierOf(h.last)]
    PROVE  Carrier' = Carrier
BY DEF Carrier

LEMMA MoveIsJob ==
    ASSUME SoloInv, JobMove
    PROVE  Job!Next \/ UNCHANGED <<Status, Holder, Carrier, proven, earned>>
<1>t. TypeInv /\ OfferIsOnRecord /\ CarrierInv
  BY DEF SoloInv, OfferInv
<1>1. CASE SameRows
  BY <1>1 DEF SameRows, Status, Holder, Carrier
<1>2. ASSUME NEW w \in Workers, MakesOffer(req[w]) PROVE Job!Next
  <2>0. PICK d \in Deliveries, r \in Riders : d = req[w].delivery /\ r = req[w].rider
    BY <1>2 DEF MakesOffer
  <2>1. PICK source, h : /\ delivery[d].status \in {None} \cup Cancellable
                         /\ Becomes(d, Assigned(r, source), h)
                         /\ h.last = [action |-> "ASSIGNED", rider |-> r]
                         /\ UNCHANGED <<proven, earned>>
    BY <1>2, <2>0 DEF MakesOffer
  <2>2. Assigned(r, source).status = "RIDER_ASSIGNED" /\ Assigned(r, source).rider = r
    BY DEF Assigned
  <2>3. CarrierOf(h.last) = "NONE"
    BY <2>1 DEF CarrierOf, None
  <2>4. /\ Status' = [Status EXCEPT ![d] = "RIDER_ASSIGNED"]
        /\ Holder' = [Holder EXCEPT ![d] = r]
        /\ Carrier' = [Carrier EXCEPT ![d] = "NONE"]
    BY <1>t, <2>1, <2>2, <2>3, OneCarrier
  <2>5. Status[d] \in {"NONE"} \cup Job!Cancellable
    BY <2>1 DEF Status, None, Cancellable, Job!Cancellable
  <2>6. Job!Offer(d, r)
    BY <2>1, <2>4, <2>5 DEF Job!Offer, Job!Moves, Job!Nobody, Status, Holder, Carrier
  <2> QED BY <2>6 DEF Job!Next
<1>3. ASSUME NEW d \in Deliveries, Opens(d) PROVE Job!Next
  <2>1. Status' = [Status EXCEPT ![d] = "SEARCHING_RIDER"] /\ Holder' = Holder /\ Carrier' = Carrier
    BY <1>t, <1>3, OneRestated, SameCarrier DEF Opens
  <2>2. Job!Open(d)
    BY <1>3, <2>1 DEF Opens, Job!Open, Job!Moves, Status, Holder, Carrier, None
  <2> QED BY <2>2 DEF Job!Next
<1>4. ASSUME NEW d \in Deliveries, Withdraws(d) PROVE Job!Next
  <2>1. PICK h : /\ Becomes(d, [delivery[d] EXCEPT !.status = "SEARCHING_RIDER", !.rider = None], h)
                 /\ h.last.action # "ACCEPTED"
    BY <1>4 DEF Withdraws
  <2> DEFINE row == [delivery[d] EXCEPT !.status = "SEARCHING_RIDER", !.rider = None]
  <2>2. row.status = "SEARCHING_RIDER" /\ row.rider = None
    BY <1>t DEF TypeInv, RowInv, DeliveryRow
  <2> HIDE DEF row
  <2>3. Becomes(d, row, h)
    BY <2>1 DEF row
  <2>4. history[d].last.action = "ASSIGNED"
    <3>1. history[d].last = [action |-> "ASSIGNED", rider |-> delivery[d].rider]
      BY <1>t, <1>4 DEF Withdraws, OfferIsOnRecord
    <3> QED BY <3>1
  <2>5. CarrierOf(h.last) = CarrierOf(history[d].last)
    BY <2>1, <2>4 DEF CarrierOf
  <2>6. /\ Status' = [Status EXCEPT ![d] = "SEARCHING_RIDER"]
        /\ Holder' = [Holder EXCEPT ![d] = "NONE"]
        /\ Carrier' = Carrier
    BY <1>t, <2>2, <2>3, <2>5, OneCarrier, SameCarrier DEF None
  <2>7. Job!Withdraw(d)
    BY <1>4, <2>6 DEF Withdraws, Job!Withdraw, Job!Moves, Job!Nobody, Status, Holder, Carrier
  <2> QED BY <2>7 DEF Job!Next
<1>5. ASSUME NEW d \in Deliveries, Accepts(d) PROVE Job!Next
  <2>1. PICK h : /\ Restates(d, "GOING_TO_PICKUP", h)
                 /\ h.last = [action |-> "ACCEPTED", rider |-> delivery[d].rider]
    BY <1>5 DEF Accepts
  <2>2. CarrierOf(h.last) = Holder[d]
    BY <2>1 DEF CarrierOf, Holder
  <2>3. /\ Status' = [Status EXCEPT ![d] = "GOING_TO_PICKUP"] /\ Holder' = Holder
        /\ Carrier' = [Carrier EXCEPT ![d] = Holder[d]]
    BY <1>t, <2>1, <2>2, OneRestated
  <2>4. Job!Accept(d)
    BY <1>5, <2>3 DEF Accepts, Job!Accept, Job!Moves, Status, Holder, Carrier
  <2> QED BY <2>4 DEF Job!Next
<1>6. ASSUME NEW d \in Deliveries, delivery[d].status \in Carried
      PROVE  Carrier[d] = Holder[d] /\ Holder[d] # "NONE"
  <2>1. /\ delivery[d].rider # None
        /\ history[d].last = [action |-> "ACCEPTED", rider |-> delivery[d].rider]
    BY <1>t, <1>6 DEF CarrierInv
  <2>2. CarrierOf(history[d].last) = delivery[d].rider
    BY <2>1 DEF CarrierOf
  <2> QED BY <2>1, <2>2 DEF Carrier, Holder, None
<1>7. ASSUME NEW d \in Deliveries, Advances(d) PROVE Job!Next
  <2>1. PICK to \in TransitionTargets :
            CanTransition(delivery[d].status, to) /\ Restates(d, to, history[d])
    BY <1>7 DEF Advances
  <2>2. delivery[d].status \in Carried
    BY <2>1 DEF CanTransition, Transitions, DeliveryStatuses, TransitionTargets, Carried
  <2>3. Status' = [Status EXCEPT ![d] = to] /\ Holder' = Holder /\ Carrier' = Carrier
    BY <1>t, <2>1, OneRestated, SameCarrier
  <2>4. Job!CanTransition(Status[d], to)
    BY <2>1 DEF Status, CanTransition, Transitions, DeliveryStatuses, Job!CanTransition,
                Job!Transitions, Job!DeliveryStatuses
  <2>5. Job!Advance(d)
    BY <1>6, <1>7, <2>2, <2>3, <2>4
       DEF Advances, TransitionTargets, Job!Advance, Job!Moves, Job!Nobody, Status, Holder, Carrier
  <2> QED BY <2>5 DEF Job!Next
<1>8. ASSUME NEW d \in Deliveries, Proves(d) PROVE Job!Next
  <2>1. Job!Prove(d)
    BY <1>8 DEF Proves, Job!Prove, Status, Holder, Carrier
  <2> QED BY <2>1 DEF Job!Next
<1>9. ASSUME NEW d \in Deliveries, Delivers(d) PROVE Job!Next
  <2>1. Status' = [Status EXCEPT ![d] = "DELIVERED"] /\ Holder' = Holder /\ Carrier' = Carrier
    BY <1>t, <1>9, OneRestated, SameCarrier DEF Delivers
  <2>2. Carrier[d] = Holder[d]
    BY <1>6, <1>9 DEF Delivers, Carried
  <2>3. Job!Deliver(d)
    BY <1>9, <2>1, <2>2 DEF Delivers, Job!Deliver, Job!Moves, Status, Holder, Carrier
  <2> QED BY <2>3 DEF Job!Next
<1>10. ASSUME NEW d \in Deliveries, Cancels(d) PROVE Job!Next
  <2>1. PICK h : Restates(d, "CANCELLED", h) /\ h.last.action # "ACCEPTED"
    BY <1>10 DEF Cancels
  <2>2. CarrierOf(h.last) = "NONE"
    BY <2>1 DEF CarrierOf, None
  <2>3. /\ Status' = [Status EXCEPT ![d] = "CANCELLED"] /\ Holder' = Holder
        /\ Carrier' = [Carrier EXCEPT ![d] = "NONE"]
    BY <1>t, <2>1, <2>2, OneRestated
  <2>4. Status[d] \in Job!Cancellable
    BY <1>10 DEF Cancels, Status, Cancellable, Job!Cancellable
  <2>5. Job!Cancel(d)
    BY <1>10, <2>3, <2>4 DEF Cancels, Job!Cancel, Job!Moves, Job!Nobody, Status, Holder, Carrier
  <2> QED BY <2>5 DEF Job!Next
<1> QED BY <1>1, <1>2, <1>3, <1>4, <1>5, <1>7, <1>8, <1>9, <1>10 DEF JobMove

(***************************************************************************)
(* Without overlapping requests and sweeps, every step of dispatch and of  *)
(* the couriers is a step of DeliveryJob or none: one holder at a time,    *)
(* stages in order, proof before delivery, and a delivery that is earned   *)
(* is in the hands of the rider who accepted it.                           *)
(***************************************************************************)
THEOREM JobImplemented ==
    ASSUME OneWorker
    PROVE  Spec => JobRefined
<1>1. Init => Job!Init
  BY DEF Init, Job!Init, Job!Nobody, NoDelivery, NoHistory, NoRow, CarrierOf, None
<1>2. SoloInv /\ [Next]_vars => [Job!Next]_<<Status, Holder, Carrier, proven, earned>>
  BY NextSolo, MoveIsJob DEF SoloStep
<1> QED BY <1>1, <1>2, ChecksHold, PTL
        DEF Spec, JobRefined, Job!Spec, Job!jobVars, Status, Holder, Carrier
=============================================================================
