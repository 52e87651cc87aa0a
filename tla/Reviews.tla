------------------------------ MODULE Reviews ------------------------------
(***************************************************************************)
(* ReviewsService: customers rate what they bought, anybody may report a   *)
(* review, an administrator hides or restores it; and every target carries *)
(* the average and the number of its PUBLISHED reviews.                    *)
(*                                                                         *)
(* Unlike the other services, the transactions here have several           *)
(* statements that matter: a row is written, the rows of its target are    *)
(* counted, and the figures are written into the target's own row.  Each   *)
(* statement sees what has been committed when it starts and what its own  *)
(* transaction wrote (READ COMMITTED); rows that were written stay locked  *)
(* until the commit.  So the model shows uncommitted writes, in req[w],    *)
(* and a Commit of its own.                                                *)
(***************************************************************************)
EXTENDS Integers

CONSTANTS
    Requests,    \* HTTP requests the API can be serving at one time
    Purchases,   \* completed orders and bookings, and visits to a place
    Targets,     \* businesses, riders, products, services, places
    Rateable,    \* the targets the customer of a purchase may rate
    Rank         \* the order in which one submission writes them

ASSUME RateableAssumption == Rateable \in [Purchases -> SUBSET Targets]

ASSUME RankAssumption == Rank \in [Targets -> Int]

\* The absence of a row or of a value (SQL NULL).
None == "NONE"

ASSUME NoneAssumption == None \notin Purchases /\ None \notin Targets

(***************************************************************************)
(* The author, the target and the order or booking identify a review (its  *)
(* unique keys), so review[c][t] is THE review of t for the purchase c.    *)
(* ratingAvg and reviewCount are computed by one query and written         *)
(* together; figures[t] is the set of reviews they were computed from.     *)
(***************************************************************************)
VARIABLES
    review,      \* Review.status
    figures,     \* the reviews that ratingAvg and reviewCount of a target count
    req,         \* the request each worker is serving, with what it did not yet commit
    disturbed,   \* history: targets on which a request met another one
    stale        \* history: targets last written by a request that met another one

history == <<disturbed, stale>>
vars == <<review, figures, req, disturbed, stale>>

Statuses == {"PUBLISHED", "FLAGGED", "HIDDEN"}

Steps == {"idle", "next", "count", "update"}

Task == [ pc       : Steps,
          insert   : BOOLEAN,                      \* a submission, or a moderation
          status   : Statuses \cup {None},         \* what it writes
          purchase : Purchases \cup {None},
          todo     : SUBSET Targets,               \* what it has still to rate
          target   : Targets \cup {None},          \* what it is rating
          counted  : [Targets -> SUBSET Purchases],
          held     : SUBSET Targets ]              \* whose rows it wrote, and locks

Idle == [ pc |-> "idle", insert |-> FALSE, status |-> None, purchase |-> None, todo |-> {},
          target |-> None, counted |-> [t \in Targets |-> {}], held |-> {} ]

TypeOK ==
    /\ review \in [Purchases -> [Targets -> Statuses \cup {None}]]
    /\ figures \in [Targets -> SUBSET Purchases]
    /\ req \in [Requests -> Task]
    /\ disturbed \in [Requests -> SUBSET Targets]
    /\ stale \in SUBSET Targets
    /\ \A c \in Purchases, t \in Targets : review[c][t] # None => t \in Rateable[c]

Init ==
    /\ review = [c \in Purchases |-> [t \in Targets |-> None]]
    /\ figures = [t \in Targets |-> {}]
    /\ req = [w \in Requests |-> Idle]
    /\ disturbed = [w \in Requests |-> {}]
    /\ stale = {}

At(w, step) == req[w].pc = step

Start(w, task) == req[w] = Idle /\ req' = [req EXCEPT ![w] = task]
Continue(w, task) == req' = [req EXCEPT ![w] = task]

\* The request ends, and its locks with it.
Finish(w) ==
    /\ req' = [req EXCEPT ![w] = Idle]
    /\ disturbed' = [disturbed EXCEPT ![w] = {}]

\* The targets of which a request has written a review, and not committed it.
Written(task) == task.held \cup IF task.pc \in {"count", "update"} THEN {task.target} ELSE {}

\* Nobody else holds the row, or the key, of the review of t for c.
RowFree(w, c, t) ==
    \A v \in Requests \ {w} : req[v].purchase = c => t \notin Written(req[v])

---------------------------------------------------------------------------
(* What requests ask for *)

\* (Mutant: the targets are not checked against what was bought.)
SubmitAnything(w, c, rated) ==
    /\ rated # {}
    /\ Start(w, [Idle EXCEPT !.pc = "next", !.insert = TRUE, !.status = "PUBLISHED",
                             !.purchase = c, !.todo = rated])
    /\ UNCHANGED <<review, figures, history>>

\* submitForOrder, submitForBooking, submitForPlace: a completed purchase stays completed.
Submit(w, c, rated) ==
    /\ rated # {}
    /\ rated \subseteq Rateable[c]
    /\ Start(w, [Idle EXCEPT !.pc = "next", !.insert = TRUE, !.status = "PUBLISHED",
                             !.purchase = c, !.todo = rated])
    /\ UNCHANGED <<review, figures, history>>

\* hide and restore, of a review that is read first.
Moderate(w, c, t, status) ==
    /\ review[c][t] # None
    /\ Start(w, [Idle EXCEPT !.pc = "next", !.status = status, !.purchase = c, !.todo = {t}])
    /\ UNCHANGED <<review, figures, history>>

\* report: the report and the review's status, in one batch; the figures stay.
Report(c, t) ==
    /\ review[c][t] # None
    /\ \A w \in Requests : RowFree(w, c, t)
    /\ review' = [review EXCEPT ![c][t] = "FLAGGED"]
    /\ UNCHANGED <<figures, req, history>>

---------------------------------------------------------------------------
(* The transaction *)

\* The business comes first, then the rider, then the products, which have one rank.
ComesNext(task, t) == t \in task.todo /\ \A u \in task.todo : Rank[t] <= Rank[u]

\* The requests that w meets on t, if it begins to write there.
Meets(w, t) == {v \in Requests \ {w} : t \in Written(req[v])}

\* The review is inserted, or its status updated.
Write(w) ==
    /\ At(w, "next")
    /\ \E t \in Targets :
        /\ ComesNext(req[w], t)
        /\ RowFree(w, req[w].purchase, t)
        /\ req[w].insert => review[req[w].purchase][t] = None
        /\ Continue(w, [req[w] EXCEPT !.pc = "count", !.target = t, !.todo = @ \ {t}])
        /\ disturbed' = [v \in Requests |->
                IF v \in Meets(w, t) \/ (v = w /\ Meets(w, t) # {})
                THEN disturbed[v] \cup {t} ELSE disturbed[v]]
    /\ UNCHANGED <<review, figures, stale>>

\* The unique key refuses a second review, and everything is rolled back.
Duplicate(w) ==
    /\ At(w, "next")
    /\ req[w].insert
    /\ \E t \in Targets :
        /\ ComesNext(req[w], t)
        /\ RowFree(w, req[w].purchase, t)
        /\ review[req[w].purchase][t] # None
    /\ Finish(w)
    /\ UNCHANGED <<review, figures, stale>>

Published(t) == {c \in Purchases : review[c][t] = "PUBLISHED"}

\* (Mutants: the aggregate is taken before the row is written; hidden reviews count too.)
SeenBeforeWriting(task) == Published(task.target)
SeenWithHidden(task) == {c \in Purchases : review[c][task.target] # None} \cup {task.purchase}

\* What the aggregate sees: what is committed, and its own write.
Seen(task) ==
    (Published(task.target) \ {task.purchase})
        \cup IF task.status = "PUBLISHED" THEN {task.purchase} ELSE {}

\* recomputeAggregate: the query ...
Count(w) ==
    /\ At(w, "count")
    /\ Continue(w, [req[w] EXCEPT !.pc = "update", !.counted[req[w].target] = Seen(req[w])])
    /\ UNCHANGED <<review, figures, history>>

\* ... and the update of the target's row, which waits for who holds it.
Update(w) ==
    /\ At(w, "update")
    /\ \A v \in Requests \ {w} : req[w].target \notin req[v].held
    /\ Continue(w, [req[w] EXCEPT !.pc = "next", !.held = @ \cup {req[w].target}])
    /\ UNCHANGED <<review, figures, history>>

\* Everything it wrote appears at once.
Commit(w) ==
    /\ At(w, "next")
    /\ req[w].todo = {}
    /\ LET task == req[w] IN
        /\ review' = [review EXCEPT ![task.purchase] =
                [t \in Targets |-> IF t \in task.held THEN task.status ELSE @[t]]]
        /\ figures' = [t \in Targets |->
                IF t \in task.held THEN task.counted[t] ELSE figures[t]]
        /\ stale' = (stale \ task.held) \cup (task.held \cap disturbed[w])
    /\ Finish(w)

(***************************************************************************)
(* The transaction is rolled back: a crash, a timeout, or the database     *)
(* aborts one of two that wait for each other, which can happen when two   *)
(* submissions rate the same products in opposite orders.                  *)
(***************************************************************************)
Fail(w) ==
    /\ ~At(w, "idle")
    /\ Finish(w)
    /\ UNCHANGED <<review, figures, stale>>

Next ==
    \/ \E c \in Purchases, t \in Targets : Report(c, t)
    \/ \E w \in Requests :
        \/ \E c \in Purchases, rated \in SUBSET Targets : Submit(w, c, rated)
        \/ \E c \in Purchases, t \in Targets, s \in {"HIDDEN", "PUBLISHED"} : Moderate(w, c, t, s)
        \/ Write(w) \/ Duplicate(w) \/ Count(w) \/ Update(w) \/ Commit(w) \/ Fail(w)

Spec == Init /\ [][Next]_vars

---------------------------------------------------------------------------
(* Safety, for any number of concurrent requests *)

(***************************************************************************)
(* A review that becomes PUBLISHED is counted by the figures that appear   *)
(* with it, and one that is hidden is no longer: "hiding one must be       *)
(* reflected in the average immediately" (recomputeAggregate).             *)
(***************************************************************************)
OwnChangeIsCounted ==
    [][\A c \in Purchases, t \in Targets :
        review'[c][t] # review[c][t] =>
            /\ review'[c][t] = "PUBLISHED" => c \in figures'[t]
            /\ review'[c][t] = "HIDDEN" => c \notin figures'[t]]_vars

(***************************************************************************)
(* The figures are computed from scratch each time, so they recover: they  *)
(* are those of the published reviews whenever the last one to write them  *)
(* met nobody on that target.  FLAGGED reviews may still be counted:       *)
(* report() does not compute them again.                                   *)
(***************************************************************************)
Visible(t) == {c \in Purchases : review[c][t] \in {"PUBLISHED", "FLAGGED"}}

FiguresRecover ==
    \A t \in Targets \ stale : Published(t) \subseteq figures[t] /\ figures[t] \subseteq Visible(t)

(***************************************************************************)
(* The comment of recomputeAggregate: two concurrent reviews "never race   *)
(* each other into losing an update", whichever commits last "accounts for *)
(* both".  Not so: each counts before the other commits.                   *)
(***************************************************************************)
NoReviewIsLost == \A t \in Targets : Published(t) \subseteq figures[t]
=============================================================================
