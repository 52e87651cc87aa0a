--------------------------- MODULE ReviewsProofs ---------------------------
(***************************************************************************)
(* What Reviews promises, for any number of requests, purchases and        *)
(* targets.                                                                *)
(***************************************************************************)
EXTENDS Reviews, TLAPS

(***************************************************************************)
(* A request under way is about a purchase, and about targets its customer *)
(* may rate; one that ended holds nothing.                                 *)
(***************************************************************************)
WellFormed(task) ==
    /\ task.pc = "idle" => task.held = {}
    /\ task.pc # "idle" =>
        /\ task.purchase \in Purchases
        /\ task.status \in {"PUBLISHED", "HIDDEN"}
        /\ task.todo \cup task.held \subseteq Rateable[task.purchase]
    /\ task.pc \in {"count", "update"} => task.target \in Rateable[task.purchase]

TypeInv == TypeOK /\ \A w \in Requests : WellFormed(req[w])

(***************************************************************************)
(* A request owns the rows of the targets it updated, and the reviews it   *)
(* wrote.                                                                  *)
(***************************************************************************)
LockInv ==
    \A v, w \in Requests : v # w =>
        /\ req[v].held \cap req[w].held = {}
        /\ req[v].purchase = req[w].purchase => Written(req[v]) \cap Written(req[w]) = {}

\* Two requests that wrote reviews of one target both know that they met.
MetInv ==
    \A v, w \in Requests : v # w =>
        \A t \in Targets : t \in Written(req[v]) /\ t \in Written(req[w]) => t \in disturbed[w]

\* The targets a request counted for the last time.
Counted(task) == task.held \cup IF task.pc = "update" THEN {task.target} ELSE {}

\* What a request counted of its own review is what it writes.
OwnInv ==
    \A w \in Requests : \A t \in Counted(req[w]) :
        req[w].purchase \in req[w].counted[t] <=> req[w].status = "PUBLISHED"

\* What it counted of the others is right still, unless it met one of them.
OthersInv ==
    \A w \in Requests : \A t \in Counted(req[w]) \ disturbed[w] :
        /\ Published(t) \ {req[w].purchase} \subseteq req[w].counted[t]
        /\ req[w].counted[t] \ {req[w].purchase} \subseteq Visible(t)

---------------------------------------------------------------------------
(* Every state is well typed, and only what was bought is rated. *)

LEMMA InitTyped == Init => TypeInv
  BY RateableAssumption DEF Init, TypeInv, TypeOK, WellFormed, Idle, Task, Steps

LEMMA StartTyped ==
    ASSUME TypeInv, NEW w \in Requests, NEW task \in Task, WellFormed(task),
           Start(w, task) \/ Continue(w, task)
    PROVE  req' \in [Requests -> Task] /\ \A v \in Requests : WellFormed(req'[v])
  BY DEF TypeInv, TypeOK, Start, Continue

LEMMA FinishTyped ==
    ASSUME TypeInv, NEW w \in Requests, Finish(w)
    PROVE  /\ req' \in [Requests -> Task]
           /\ \A v \in Requests : WellFormed(req'[v])
           /\ disturbed' \in [Requests -> SUBSET Targets]
<1>1. Idle \in Task /\ WellFormed(Idle)
  BY DEF Idle, Task, Steps, WellFormed
<1>2. QED
  BY <1>1 DEF TypeInv, TypeOK, Finish

LEMMA StepTyped == ASSUME TypeInv, [Next]_vars PROVE TypeInv'
<1> USE DEF TypeInv
<1>1. ASSUME NEW c \in Purchases, NEW t \in Targets, Report(c, t)
      PROVE  TypeInv'
  BY <1>1 DEF Report, TypeOK, history, Statuses, None
<1>2. ASSUME NEW w \in Requests, NEW c \in Purchases, NEW rated \in SUBSET Targets,
             Submit(w, c, rated)
      PROVE  TypeInv'
  <2> DEFINE task == [Idle EXCEPT !.pc = "next", !.insert = TRUE, !.status = "PUBLISHED",
                                  !.purchase = c, !.todo = rated]
  <2>1. task \in Task /\ WellFormed(task)
    BY <1>2 DEF Submit, Idle, Task, Steps, Statuses, WellFormed
  <2>2. Start(w, task)
    BY <1>2 DEF Submit
  <2>3. QED
    BY <1>2, <2>1, <2>2, StartTyped DEF Submit, TypeOK, history
<1>3. ASSUME NEW w \in Requests, NEW c \in Purchases, NEW t \in Targets,
             NEW s \in {"HIDDEN", "PUBLISHED"}, Moderate(w, c, t, s)
      PROVE  TypeInv'
  <2> DEFINE task == [Idle EXCEPT !.pc = "next", !.status = s, !.purchase = c, !.todo = {t}]
  <2>1. t \in Rateable[c]
    BY <1>3 DEF Moderate, TypeOK
  <2>2. task \in Task /\ WellFormed(task)
    BY <2>1 DEF Idle, Task, Steps, Statuses, WellFormed
  <2>3. Start(w, task)
    BY <1>3 DEF Moderate
  <2>4. QED
    BY <1>3, <2>2, <2>3, StartTyped DEF Moderate, TypeOK, history
<1>4. ASSUME NEW w \in Requests, Write(w)
      PROVE  TypeInv'
  <2>1. PICK t \in Targets : /\ t \in req[w].todo
                             /\ Continue(w, [req[w] EXCEPT !.pc = "count", !.target = t,
                                                           !.todo = @ \ {t}])
    BY <1>4 DEF Write, ComesNext
  <2> DEFINE task == [req[w] EXCEPT !.pc = "count", !.target = t, !.todo = @ \ {t}]
  <2>2. task \in Task /\ WellFormed(task)
    <3>1. req[w] \in Task /\ WellFormed(req[w]) /\ req[w].pc = "next"
      BY <1>4 DEF Write, At, TypeOK
    <3>2. QED
      BY <2>1, <3>1 DEF Task, Steps, WellFormed
  <2>3. disturbed' \in [Requests -> SUBSET Targets]
    BY <1>4 DEF Write, TypeOK
  <2>4. QED
    BY <1>4, <2>1, <2>2, <2>3, StartTyped DEF Write, TypeOK
<1>5. ASSUME NEW w \in Requests, Count(w)
      PROVE  TypeInv'
  <2> DEFINE task == [req[w] EXCEPT !.pc = "update", !.counted[req[w].target] = Seen(req[w])]
  <2>1. req[w] \in Task /\ WellFormed(req[w]) /\ req[w].pc = "count"
    BY <1>5 DEF Count, At, TypeOK
  <2>2. Seen(req[w]) \in SUBSET Purchases
    BY <2>1 DEF Seen, Published, WellFormed
  <2>3. task \in Task /\ WellFormed(task)
    BY <2>1, <2>2 DEF Task, Steps, WellFormed
  <2>4. QED
    BY <1>5, <2>3, StartTyped DEF Count, TypeOK, history
<1>6. ASSUME NEW w \in Requests, Update(w)
      PROVE  TypeInv'
  <2> DEFINE task == [req[w] EXCEPT !.pc = "next", !.held = @ \cup {req[w].target}]
  <2>1. req[w] \in Task /\ WellFormed(req[w]) /\ req[w].pc = "update"
    BY <1>6 DEF Update, At, TypeOK
  <2>2. req[w].target \in Targets
    BY <2>1, RateableAssumption DEF WellFormed
  <2>3. task \in Task /\ WellFormed(task)
    BY <2>1, <2>2 DEF Task, Steps, WellFormed
  <2>4. QED
    BY <1>6, <2>3, StartTyped DEF Update, TypeOK, history
<1>7. ASSUME NEW w \in Requests, Duplicate(w) \/ Fail(w)
      PROVE  TypeInv'
  BY <1>7, FinishTyped DEF Duplicate, Fail, TypeOK
<1>8. ASSUME NEW w \in Requests, Commit(w)
      PROVE  TypeInv'
  <2>1. req[w] \in Task /\ WellFormed(req[w]) /\ req[w].pc = "next"
    BY <1>8 DEF Commit, At, TypeOK
  <2>2. /\ review' \in [Purchases -> [Targets -> Statuses \cup {None}]]
        /\ \A c \in Purchases, t \in Targets : review'[c][t] # None => t \in Rateable[c]
    <3>1. /\ review' = [review EXCEPT ![req[w].purchase] =
                [t \in Targets |-> IF t \in req[w].held THEN req[w].status ELSE @[t]]]
          /\ req[w].purchase \in Purchases
          /\ req[w].status \in Statuses
          /\ req[w].held \subseteq Rateable[req[w].purchase]
      BY <1>8, <2>1 DEF Commit, WellFormed, Statuses
    <3>2. QED
      BY <3>1 DEF TypeOK
  <2>3. figures' \in [Targets -> SUBSET Purchases]
    BY <1>8, <2>1 DEF Commit, TypeOK, Task
  <2>4. stale' \in SUBSET Targets
    BY <1>8, <2>1 DEF Commit, TypeOK, Task
  <2>5. QED
    BY <1>8, <2>2, <2>3, <2>4, FinishTyped DEF Commit, TypeOK
<1>9. CASE UNCHANGED vars
  BY <1>9 DEF vars, history, TypeOK
<1>10. QED
  BY <1>1, <1>2, <1>3, <1>4, <1>5, <1>6, <1>7, <1>8, <1>9 DEF Next

THEOREM TypeInvariant == Spec => []TypeInv
<1>1. QED
  BY InitTyped, StepTyped, PTL DEF Spec

THEOREM TypeCorrect == Spec => []TypeOK
<1>1. TypeInv => TypeOK
  BY DEF TypeInv
<1>2. QED
  BY <1>1, TypeInvariant, PTL

---------------------------------------------------------------------------
(***************************************************************************)
(* What a step does to the requests, whichever action it is.               *)
(***************************************************************************)
Alone(w) == \A v \in Requests \ {w} : req'[v] = req[v]

Same(w) ==
    /\ req'[w].purchase = req[w].purchase
    /\ req'[w].status = req[w].status

Rests ==
    /\ req' = req
    /\ disturbed' = disturbed
    /\ \A t \in Targets : Published(t)' \subseteq Published(t) /\ Visible(t) \subseteq Visible(t)'

Begins(w) ==
    /\ Alone(w)
    /\ req[w].held = {} /\ req[w].pc = "idle"
    /\ req'[w].held = {} /\ req'[w].pc = "next"
    /\ review' = review
    /\ disturbed' = disturbed

Writes(w, t) ==
    /\ Alone(w)
    /\ Same(w)
    /\ req[w].pc = "next" /\ req'[w].pc = "count"
    /\ req'[w].target = t
    /\ req'[w].held = req[w].held
    /\ req'[w].counted = req[w].counted
    /\ RowFree(w, req[w].purchase, t)
    /\ review' = review
    /\ \A v \in Requests : disturbed[v] \subseteq disturbed'[v]
    /\ \A v \in Requests \ {w} : t \in Written(req[v]) => t \in disturbed'[v] /\ t \in disturbed'[w]

Counts(w) ==
    /\ Alone(w)
    /\ Same(w)
    /\ req[w].pc = "count" /\ req'[w].pc = "update"
    /\ req'[w].target = req[w].target
    /\ req'[w].held = req[w].held
    /\ req'[w].counted = [req[w].counted EXCEPT ![req[w].target] = Seen(req[w])]
    /\ review' = review
    /\ disturbed' = disturbed

Updates(w) ==
    /\ Alone(w)
    /\ Same(w)
    /\ req[w].pc = "update" /\ req'[w].pc = "next"
    /\ \A v \in Requests \ {w} : req[w].target \notin req[v].held
    /\ req'[w].held = req[w].held \cup {req[w].target}
    /\ req'[w].counted = req[w].counted
    /\ review' = review
    /\ disturbed' = disturbed

Ends(w) ==
    /\ Alone(w)
    /\ req'[w] = Idle
    /\ \A v \in Requests \ {w} : disturbed'[v] = disturbed[v]
    /\ review' = review \/ Commit(w)

LEMMA StepOfRequest ==
    ASSUME TypeInv, [Next]_vars
    PROVE  \/ Rests
           \/ \E w \in Requests : \/ Begins(w) \/ Counts(w) \/ Updates(w) \/ Ends(w)
                                  \/ \E t \in Targets : Writes(w, t)
<1> USE DEF TypeInv
<1>1. ASSUME NEW c \in Purchases, NEW t \in Targets, Report(c, t)
      PROVE  Rests
  BY <1>1 DEF Report, Rests, Published, Visible, TypeOK, history
<1>2. ASSUME NEW w \in Requests, NEW c \in Purchases, NEW rated \in SUBSET Targets,
             Submit(w, c, rated)
      PROVE  Begins(w)
  BY <1>2 DEF Submit, Start, Begins, Alone, Idle, history, TypeOK
<1>3. ASSUME NEW w \in Requests, NEW c \in Purchases, NEW t \in Targets,
             NEW s \in {"HIDDEN", "PUBLISHED"}, Moderate(w, c, t, s)
      PROVE  Begins(w)
  BY <1>3 DEF Moderate, Start, Begins, Alone, Idle, history, TypeOK
<1>4. ASSUME NEW w \in Requests, Write(w)
      PROVE  \E t \in Targets : Writes(w, t)
  <2>1. PICK t \in Targets :
            /\ RowFree(w, req[w].purchase, t)
            /\ req' = [req EXCEPT ![w] = [req[w] EXCEPT !.pc = "count", !.target = t,
                                                         !.todo = @ \ {t}]]
            /\ disturbed' = [v \in Requests |->
                    IF v \in Meets(w, t) \/ (v = w /\ Meets(w, t) # {})
                    THEN disturbed[v] \cup {t} ELSE disturbed[v]]
    BY <1>4 DEF Write, Continue
  <2>2. req[w] \in Task /\ req[w].pc = "next" /\ review' = review
    BY <1>4 DEF Write, At, TypeOK
  <2>3. /\ Alone(w) /\ Same(w) /\ req'[w].pc = "count" /\ req'[w].target = t
        /\ req'[w].held = req[w].held /\ req'[w].counted = req[w].counted
    BY <2>1, <2>2 DEF Alone, Same, TypeOK, Task
  <2>4. \A v \in Requests : disturbed[v] \subseteq disturbed'[v]
    BY <2>1
  <2>5. \A v \in Requests \ {w} :
            t \in Written(req[v]) => t \in disturbed'[v] /\ t \in disturbed'[w]
    BY <2>1 DEF Meets
  <2>6. QED
    BY <2>1, <2>2, <2>3, <2>4, <2>5 DEF Writes
<1>5. ASSUME NEW w \in Requests, Count(w)
      PROVE  Counts(w)
  BY <1>5 DEF Count, At, Continue, Counts, Alone, Same, history, TypeOK, Task
<1>6. ASSUME NEW w \in Requests, Update(w)
      PROVE  Updates(w)
  BY <1>6 DEF Update, At, Continue, Updates, Alone, Same, history, TypeOK, Task
<1>7. ASSUME NEW w \in Requests, Duplicate(w) \/ Fail(w) \/ Commit(w)
      PROVE  Ends(w)
  BY <1>7 DEF Duplicate, Fail, Commit, Finish, Ends, Alone, TypeOK
<1>8. CASE UNCHANGED vars
  BY <1>8 DEF vars, history, Rests, Published, Visible
<1>9. QED
  BY <1>1, <1>2, <1>3, <1>4, <1>5, <1>6, <1>7, <1>8 DEF Next

\* A request that ended, or is about to write, has written what it holds.
LEMMA IdleWroteNothing == Written(Idle) = {} /\ Counted(Idle) = {} /\ Idle.held = {}
BY DEF Idle, Written, Counted

---------------------------------------------------------------------------
(* Nobody shares a row, and requests that wrote on one target know it. *)

LEMMA LockStep == ASSUME TypeInv, LockInv, [Next]_vars PROVE LockInv'
<1>1. CASE Rests
  BY <1>1 DEF Rests, LockInv, Written
<1>2. ASSUME NEW w \in Requests, Begins(w)
      PROVE  LockInv'
  BY <1>2 DEF Begins, Alone, LockInv, Written
<1>3. ASSUME NEW w \in Requests, NEW t \in Targets, Writes(w, t)
      PROVE  LockInv'
  <2>1. Written(req'[w]) = Written(req[w]) \cup {t}
    BY <1>3 DEF Writes, Written
  <2>2. QED
    BY <1>3, <2>1 DEF Writes, Alone, Same, LockInv, RowFree
<1>4. ASSUME NEW w \in Requests, Counts(w)
      PROVE  LockInv'
  <2>1. Written(req'[w]) = Written(req[w])
    BY <1>4 DEF Counts, Written
  <2>2. QED
    BY <1>4, <2>1 DEF Counts, Alone, Same, LockInv
<1>5. ASSUME NEW w \in Requests, Updates(w)
      PROVE  LockInv'
  <2>1. Written(req'[w]) = Written(req[w])
    BY <1>5 DEF Updates, Written
  <2>2. QED
    BY <1>5, <2>1 DEF Updates, Alone, Same, LockInv
<1>6. ASSUME NEW w \in Requests, Ends(w)
      PROVE  LockInv'
  BY <1>6, IdleWroteNothing DEF Ends, Alone, LockInv
<1>7. QED
  BY <1>1, <1>2, <1>3, <1>4, <1>5, <1>6, StepOfRequest

LEMMA MetStep == ASSUME TypeInv, MetInv, [Next]_vars PROVE MetInv'
<1>1. CASE Rests
  BY <1>1 DEF Rests, MetInv
<1>2. ASSUME NEW w \in Requests, Begins(w)
      PROVE  MetInv'
  BY <1>2 DEF Begins, Alone, MetInv, Written
<1>3. ASSUME NEW w \in Requests, NEW t \in Targets, Writes(w, t)
      PROVE  MetInv'
  <2>1. Written(req'[w]) = Written(req[w]) \cup {t}
    BY <1>3 DEF Writes, Written
  <2>2. QED
    BY <1>3, <2>1 DEF Writes, Alone, MetInv
<1>4. ASSUME NEW w \in Requests, Counts(w)
      PROVE  MetInv'
  <2>1. Written(req'[w]) = Written(req[w])
    BY <1>4 DEF Counts, Written
  <2>2. QED
    BY <1>4, <2>1 DEF Counts, Alone, MetInv
<1>5. ASSUME NEW w \in Requests, Updates(w)
      PROVE  MetInv'
  <2>1. Written(req'[w]) = Written(req[w])
    BY <1>5 DEF Updates, Written
  <2>2. QED
    BY <1>5, <2>1 DEF Updates, Alone, MetInv
<1>6. ASSUME NEW w \in Requests, Ends(w)
      PROVE  MetInv'
  BY <1>6, IdleWroteNothing DEF Ends, Alone, MetInv
<1>7. QED
  BY <1>1, <1>2, <1>3, <1>4, <1>5, <1>6, StepOfRequest

---------------------------------------------------------------------------
(* What a request counted. *)

LEMMA CountedChange ==
    ASSUME TypeInv, NEW w \in Requests,
           Begins(w) \/ Updates(w) \/ Ends(w) \/ \E t \in Targets : Writes(w, t)
    PROVE  \/ Counted(req'[w]) = {}
           \/ /\ Counted(req'[w]) = Counted(req[w])
              /\ req'[w].counted = req[w].counted
              /\ Same(w)
BY IdleWroteNothing DEF Begins, Updates, Ends, Writes, Counted

LEMMA CountIsNew ==
    ASSUME TypeInv, NEW w \in Requests, Counts(w)
    PROVE  /\ Counted(req'[w]) = req[w].held \cup {req[w].target}
           /\ req'[w].counted[req[w].target] = Seen(req[w])
           /\ \A t \in Counted(req'[w]) : t # req[w].target =>
                 t \in Counted(req[w]) /\ req'[w].counted[t] = req[w].counted[t]
<1>1. req[w] \in Task /\ req[w].target \in Targets /\ req[w].held \subseteq Targets
  BY RateableAssumption DEF Counts, TypeInv, TypeOK, WellFormed, Task
<1>2. req[w].counted \in [Targets -> SUBSET Purchases]
  BY <1>1 DEF Task
<1>3. Counted(req'[w]) = req[w].held \cup {req[w].target} /\ Counted(req[w]) = req[w].held
  BY DEF Counts, Counted
<1>4. QED
  BY <1>1, <1>2, <1>3 DEF Counts

LEMMA OwnStep == ASSUME TypeInv, OwnInv, [Next]_vars PROVE OwnInv'
<1>1. CASE Rests
  BY <1>1 DEF Rests, OwnInv
<1>2. ASSUME NEW w \in Requests, Counts(w)
      PROVE  OwnInv'
  <2>1. Alone(w) /\ Same(w)
    BY <1>2 DEF Counts
  <2>2. req[w].purchase \in Seen(req[w]) <=> req[w].status = "PUBLISHED"
    BY DEF Seen
  <2>3. QED
    BY <1>2, <2>1, <2>2, CountIsNew DEF Alone, Same, OwnInv
<1>3. ASSUME NEW w \in Requests,
             Begins(w) \/ Updates(w) \/ Ends(w) \/ \E t \in Targets : Writes(w, t)
      PROVE  OwnInv'
  <2>1. Alone(w)
    BY <1>3 DEF Begins, Updates, Ends, Writes
  <2>2. QED
    BY <1>3, <2>1, CountedChange DEF Alone, Same, OwnInv
<1>4. QED
  BY <1>1, <1>2, <1>3, StepOfRequest

(***************************************************************************)
(* A commit changes the reviews of the targets it holds, of which others   *)
(* counted only as one that it met.                                        *)
(***************************************************************************)
LEMMA CommitElsewhere ==
    ASSUME TypeInv, MetInv, NEW w \in Requests, Commit(w),
           NEW v \in Requests \ {w}, NEW t \in Counted(req[v]) \ disturbed[v]
    PROVE  Published(t)' = Published(t) /\ Visible(t)' = Visible(t)
<1>1. t \in Targets /\ t \in Written(req[v])
  BY RateableAssumption DEF TypeInv, TypeOK, Task, WellFormed, Counted, Written
<1>2. t \notin req[w].held
  BY <1>1 DEF MetInv, Written
<1>3. \A c \in Purchases : review'[c][t] = review[c][t]
  BY <1>1, <1>2 DEF Commit, TypeInv, TypeOK
<1>4. QED
  BY <1>3 DEF Published, Visible

LEMMA OthersStep == ASSUME TypeInv, MetInv, OthersInv, [Next]_vars PROVE OthersInv'
<1>1. CASE Rests
  <2>1. \A w \in Requests : Counted(req[w]) \subseteq Targets
    BY RateableAssumption DEF TypeInv, TypeOK, Task, WellFormed, Counted
  <2>2. QED
    BY <1>1, <2>1 DEF Rests, OthersInv
<1>2. ASSUME NEW w \in Requests, Counts(w)
      PROVE  OthersInv'
  <2>1. Alone(w) /\ Same(w) /\ review' = review /\ disturbed' = disturbed
    BY <1>2 DEF Counts
  <2>2. \A t : Published(t)' = Published(t) /\ Visible(t)' = Visible(t)
    BY <2>1 DEF Published, Visible
  <2>3. /\ Published(req[w].target) \ {req[w].purchase} \subseteq Seen(req[w])
        /\ Seen(req[w]) \ {req[w].purchase} \subseteq Visible(req[w].target)
    BY DEF Seen, Published, Visible
  <2>4. ASSUME NEW t \in Counted(req'[w]) \ disturbed'[w]
        PROVE  /\ Published(t)' \ {req'[w].purchase} \subseteq req'[w].counted[t]
               /\ req'[w].counted[t] \ {req'[w].purchase} \subseteq Visible(t)'
    BY <1>2, <2>1, <2>2, <2>3, <2>4, CountIsNew DEF Same, OthersInv
  <2>5. ASSUME NEW v \in Requests \ {w}, NEW t \in Counted(req'[v]) \ disturbed'[v]
        PROVE  /\ Published(t)' \ {req'[v].purchase} \subseteq req'[v].counted[t]
               /\ req'[v].counted[t] \ {req'[v].purchase} \subseteq Visible(t)'
    BY <2>1, <2>2, <2>5 DEF Alone, OthersInv
  <2>6. QED
    BY <2>4, <2>5 DEF OthersInv
<1>3. ASSUME NEW w \in Requests, Begins(w) \/ Updates(w) \/ \E t \in Targets : Writes(w, t)
      PROVE  OthersInv'
  <2>1. /\ Alone(w) /\ review' = review
        /\ \A v \in Requests : disturbed[v] \subseteq disturbed'[v]
    BY <1>3 DEF Begins, Updates, Writes
  <2>2. \A t : Published(t)' = Published(t) /\ Visible(t)' = Visible(t)
    BY <2>1 DEF Published, Visible
  <2>3. ASSUME NEW v \in Requests, NEW t \in Counted(req'[v]) \ disturbed'[v]
        PROVE  /\ Published(t)' \ {req'[v].purchase} \subseteq req'[v].counted[t]
               /\ req'[v].counted[t] \ {req'[v].purchase} \subseteq Visible(t)'
    BY <1>3, <2>1, <2>2, <2>3, CountedChange DEF Alone, Same, OthersInv
  <2>4. QED
    BY <2>3 DEF OthersInv
<1>4. ASSUME NEW w \in Requests, Ends(w)
      PROVE  OthersInv'
  <2>1. Counted(req'[w]) = {}
    BY <1>4, IdleWroteNothing DEF Ends
  <2>2. ASSUME NEW v \in Requests \ {w}, NEW t \in Counted(req[v]) \ disturbed[v]
        PROVE  Published(t)' = Published(t) /\ Visible(t)' = Visible(t)
    BY <1>4, <2>2, CommitElsewhere DEF Ends, Published, Visible
  <2>3. ASSUME NEW v \in Requests \ {w}, NEW t \in Counted(req'[v]) \ disturbed'[v]
        PROVE  /\ Published(t)' \ {req'[v].purchase} \subseteq req'[v].counted[t]
               /\ req'[v].counted[t] \ {req'[v].purchase} \subseteq Visible(t)'
    BY <1>4, <2>2, <2>3 DEF Ends, Alone, OthersInv
  <2>4. QED
    BY <2>1, <2>3 DEF OthersInv
<1>5. QED
  BY <1>1, <1>2, <1>3, <1>4, StepOfRequest

---------------------------------------------------------------------------
(* The theorems *)

RequestInv == TypeInv /\ LockInv /\ MetInv /\ OwnInv /\ OthersInv

\* What requests hold, know and counted, whatever commits around them.
THEOREM RequestInvariant == Spec => []RequestInv
<1>1. Init => RequestInv
  <2> SUFFICES ASSUME Init PROVE RequestInv
    OBVIOUS
  <2>1. \A w \in Requests : req[w] = Idle
    BY DEF Init
  <2>2. LockInv /\ MetInv /\ OwnInv /\ OthersInv
    BY <2>1, IdleWroteNothing DEF LockInv, MetInv, OwnInv, OthersInv
  <2>3. QED
    BY <2>2, InitTyped DEF RequestInv
<1>2. RequestInv /\ [Next]_vars => RequestInv'
  BY StepTyped, LockStep, MetStep, OwnStep, OthersStep DEF RequestInv
<1>3. QED
  BY <1>1, <1>2, PTL DEF Spec

\* A review that changes is counted, or no longer, by the figures that appear with it.
THEOREM OwnChangeCounted == Spec => OwnChangeIsCounted
<1>1. ASSUME RequestInv, [Next]_vars,
             NEW c \in Purchases, NEW t \in Targets, review'[c][t] # review[c][t]
      PROVE  /\ review'[c][t] = "PUBLISHED" => c \in figures'[t]
             /\ review'[c][t] = "HIDDEN" => c \notin figures'[t]
  <2>1. \/ \E d \in Purchases, u \in Targets : Report(d, u)
        \/ \E w \in Requests : Commit(w)
    BY <1>1 DEF Next, vars, history, Submit, Moderate, Write, Duplicate, Count, Update, Fail
  <2>2. CASE \E d \in Purchases, u \in Targets : Report(d, u)
    <3>1. review'[c][t] = "FLAGGED"
      BY <1>1, <2>2 DEF Report, RequestInv, TypeInv, TypeOK
    <3>2. QED
      BY <3>1
  <2>3. CASE \E w \in Requests : Commit(w)
    <3>1. PICK w \in Requests : Commit(w)
      BY <2>3
    <3>2. c = req[w].purchase /\ t \in req[w].held /\ review'[c][t] = req[w].status
      BY <1>1, <3>1 DEF Commit, RequestInv, TypeInv, TypeOK
    <3>3. figures'[t] = req[w].counted[t]
      BY <3>1, <3>2 DEF Commit
    <3>4. t \in Counted(req[w])
      BY <3>2 DEF Counted
    <3>5. QED
      BY <1>1, <3>2, <3>3, <3>4 DEF RequestInv, OwnInv
  <2>4. QED
    BY <2>1, <2>2, <2>3
<1>2. RequestInv /\ [Next]_vars =>
        [\A c \in Purchases, t \in Targets :
            review'[c][t] # review[c][t] =>
                /\ review'[c][t] = "PUBLISHED" => c \in figures'[t]
                /\ review'[c][t] = "HIDDEN" => c \notin figures'[t]]_vars
  BY <1>1
<1>3. QED
  BY <1>2, RequestInvariant, PTL DEF Spec, OwnChangeIsCounted

LEMMA RecoverStep ==
    ASSUME RequestInv, FiguresRecover, [Next]_vars
    PROVE  FiguresRecover'
<1> USE DEF RequestInv
<1>2. CASE review' = review /\ figures' = figures /\ stale' = stale
  BY <1>2 DEF FiguresRecover, Published, Visible
<1>3. ASSUME NEW w \in Requests, Commit(w)
      PROVE  FiguresRecover'
  <2> DEFINE own == req[w].purchase
  <2>1. /\ own \in Purchases /\ req[w].status \in {"PUBLISHED", "HIDDEN"}
        /\ req[w] \in Task
    BY <1>3 DEF Commit, At, TypeInv, TypeOK, WellFormed
  <2>2. ASSUME NEW t \in Targets \ stale', t \in req[w].held
        PROVE  Published(t)' \subseteq figures'[t] /\ figures'[t] \subseteq Visible(t)'
    <3>1. t \in Counted(req[w]) /\ t \notin disturbed[w] /\ figures'[t] = req[w].counted[t]
      BY <1>3, <2>2 DEF Commit, Counted
    <3>2. /\ review'[own][t] = req[w].status
          /\ \A c \in Purchases \ {own} : review'[c][t] = review[c][t]
      BY <1>3, <2>1, <2>2 DEF Commit, TypeInv, TypeOK
    <3>3. /\ Published(t) \ {own} \subseteq req[w].counted[t]
          /\ req[w].counted[t] \ {own} \subseteq Visible(t)
      BY <3>1 DEF OthersInv
    <3>4. own \in req[w].counted[t] <=> req[w].status = "PUBLISHED"
      BY <3>1 DEF OwnInv
    <3>5. QED
      BY <2>1, <3>1, <3>2, <3>3, <3>4 DEF Published, Visible, Task
  <2>3. ASSUME NEW t \in Targets \ stale', t \notin req[w].held
        PROVE  Published(t)' \subseteq figures'[t] /\ figures'[t] \subseteq Visible(t)'
    <3>1. t \notin stale /\ figures'[t] = figures[t]
      BY <1>3, <2>3 DEF Commit
    <3>2. \A c \in Purchases : review'[c][t] = review[c][t]
      BY <1>3, <2>3 DEF Commit, TypeInv, TypeOK
    <3>3. QED
      BY <3>1, <3>2 DEF FiguresRecover, Published, Visible
  <2>4. QED
    BY <2>2, <2>3 DEF FiguresRecover
<1>4. ASSUME NEW c \in Purchases, NEW t \in Targets, Report(c, t)
      PROVE  FiguresRecover'
  BY <1>4 DEF Report, FiguresRecover, Published, Visible, TypeInv, TypeOK, history
<1>5. QED
  BY <1>2, <1>3, <1>4
     DEF Next, vars, history, Submit, Moderate, Write, Duplicate, Count, Update, Fail

\* Figures are right wherever the last request to write them met nobody.
THEOREM FiguresRight == Spec => []FiguresRecover
<1>1. Init => FiguresRecover
  BY DEF Init, FiguresRecover, Published, Visible, None
<1>2. RequestInv /\ FiguresRecover /\ [Next]_vars => FiguresRecover'
  BY RecoverStep
<1>3. QED
  BY <1>1, <1>2, RequestInvariant, PTL DEF Spec
=============================================================================
