----------------------------- MODULE ReviewQueue -----------------------------
(***************************************************************************)
(* The human review workflow of one kind of subject: the verdict_reviews   *)
(* table, the write path that queues a review after the verdict has been   *)
(* committed, the reconciliation tool that closes the gap this leaves, and *)
(* the reviewers' claim / release / resolve endpoints.                     *)
(*                                                                         *)
(* Every repository call is one statement in a transaction of its own that *)
(* re-checks its WHERE clause, or the partial unique index, on the row it  *)
(* locks, so each call is one step; what interleaves is the calls.         *)
(* claimed_at is set and cleared with reviewer, resolved_at is set with    *)
(* resolution; created_at is the index of a row.  Notes are left out.      *)
(***************************************************************************)
EXTENDS Integers

CONSTANTS Subject,      \* reviewable verdicts
          Reviewer,     \* reviewer names
          Run,          \* invocations of the reconciliation tool
          MaxReviews,   \* bound: review rows per subject
          None

ASSUME ReviewAssumption ==
    /\ MaxReviews \in Nat \ {0}
    /\ None \notin Reviewer

Resolution == {"CONFIRMED", "DISMISSED"}
ReviewStatus == {"OPEN", "IN_REVIEW", "RESOLVED"}
Review == [status : ReviewStatus, reviewer : Reviewer \cup {None},
           resolution : Resolution \cup {"NULL"}]
Index == 1..MaxReviews
NoRow == [status |-> "NONE"]
NewReview == [status |-> "OPEN", reviewer |-> None, resolution |-> "NULL"]

VARIABLES
    rows,      \* subject |-> its review rows in creation order
    live,      \* subject |-> how far its own write path is
    run,       \* run |-> where the tool is
    scope,     \* run |-> the subjects its SELECT returned
    todo,      \* run |-> those it has still to reconcile
    errored    \* run |-> some record failed

vars == <<rows, live, run, scope, todo, errored>>
tool == <<run, scope, todo, errored>>

Init ==
    /\ rows = [v \in Subject |-> [k \in Index |-> NoRow]]
    /\ live = [v \in Subject |-> "absent"]
    /\ run = [b \in Run |-> "idle"]
    /\ scope = [b \in Run |-> {}] /\ todo = [b \in Run |-> {}]
    /\ errored = [b \in Run |-> FALSE]

Exists(v, k) == rows[v][k] # NoRow
IsActive(v, k) == rows[v][k].status \in {"OPEN", "IN_REVIEW"}
Reviewed(v) == \E k \in Index : Exists(v, k)
-----------------------------------------------------------------------------
\* Mutant: the partial index covers OPEN reviews only.
createUnlessOpen(v) ==
    \/ /\ \E k \in Index : rows[v][k].status = "OPEN"
       /\ UNCHANGED rows
    \/ /\ \A k \in Index : rows[v][k].status # "OPEN"
       /\ \E k \in Index :
             /\ ~ Exists(v, k) /\ \A j \in Index : j < k => Exists(v, j)
             /\ rows' = [rows EXCEPT ![v][k] = NewReview]

\* INSERT ... ON CONFLICT (verdict_id) WHERE status != 'RESOLVED' DO NOTHING.
create(v) ==
    \/ /\ \E k \in Index : IsActive(v, k)
       /\ UNCHANGED rows
    \/ /\ \A k \in Index : ~ IsActive(v, k)
       /\ \E k \in Index :
             /\ ~ Exists(v, k) /\ \A j \in Index : j < k => Exists(v, j)
             /\ rows' = [rows EXCEPT ![v][k] = NewReview]

\* EvidenceStore.append commits a reviewable verdict ...
RecordSubject(v) ==
    /\ live[v] = "absent"
    /\ live' = [live EXCEPT ![v] = "committed"]
    /\ UNCHANGED <<rows, tool>>

\* ... and queues its review in a second transaction ...
QueueLive(v) ==
    /\ live[v] = "committed"
    /\ live' = [live EXCEPT ![v] = "done"]
    /\ create(v)
    /\ UNCHANGED tool

\* ... which may fail, or never run because the process dies: swallowed.
QueueLost(v) ==
    /\ live[v] = "committed"
    /\ live' = [live EXCEPT ![v] = "done"]
    /\ UNCHANGED <<rows, tool>>
-----------------------------------------------------------------------------
\* Mutant: only recent verdicts, whose write path is not over.
StartRunRecent(b) ==
    /\ run[b] # "running"
    /\ run' = [run EXCEPT ![b] = "running"]
    /\ scope' = [scope EXCEPT ![b] = {v \in Subject : live[v] = "committed"}]
    /\ todo' = [todo EXCEPT ![b] = {v \in Subject : live[v] = "committed"}]
    /\ errored' = [errored EXCEPT ![b] = FALSE]
    /\ UNCHANGED <<rows, live>>

\* reconcile_verdict_reviews: one SELECT of every committed reviewable verdict ...
StartRun(b) ==
    /\ run[b] # "running"
    /\ run' = [run EXCEPT ![b] = "running"]
    /\ scope' = [scope EXCEPT ![b] = {v \in Subject : live[v] # "absent"}]
    /\ todo' = [todo EXCEPT ![b] = {v \in Subject : live[v] # "absent"}]
    /\ errored' = [errored EXCEPT ![b] = FALSE]
    /\ UNCHANGED <<rows, live>>

\* ... then, for each, create in a session of its own ...
Reconcile(b, v) ==
    /\ run[b] = "running" /\ v \in todo[b]
    /\ create(v)
    /\ todo' = [todo EXCEPT ![b] = @ \ {v}]
    /\ UNCHANGED <<live, run, scope, errored>>

\* ... whose failure is counted and does not stop the others.
ReconcileError(b, v) ==
    /\ run[b] = "running" /\ v \in todo[b]
    /\ todo' = [todo EXCEPT ![b] = @ \ {v}]
    /\ errored' = [errored EXCEPT ![b] = TRUE]
    /\ UNCHANGED <<rows, live, run, scope>>

\* main returns 0, or 1 if a record failed.
FinishRun(b) ==
    /\ run[b] = "running" /\ todo[b] = {}
    /\ run' = [run EXCEPT ![b] = IF errored[b] THEN "exit 1" ELSE "exit 0"]
    /\ UNCHANGED <<rows, live, scope, todo, errored>>

\* The tool is killed.
KillRun(b) ==
    /\ run[b] = "running"
    /\ run' = [run EXCEPT ![b] = "exit 1"]
    /\ todo' = [todo EXCEPT ![b] = {}]
    /\ UNCHANGED <<rows, live, scope, errored>>
-----------------------------------------------------------------------------
\* Mutant: WHERE status <> 'RESOLVED'.
claimUnresolved(v, k, r) ==
    /\ IsActive(v, k)
    /\ rows' = [rows EXCEPT ![v][k] =
                  [@ EXCEPT !.status = "IN_REVIEW", !.reviewer = r]]
    /\ UNCHANGED <<live, tool>>

\* UPDATE ... WHERE id = :id AND status = 'OPEN', else 409.
claim(v, k, r) ==
    /\ rows[v][k].status = "OPEN"
    /\ rows' = [rows EXCEPT ![v][k] =
                  [@ EXCEPT !.status = "IN_REVIEW", !.reviewer = r]]
    /\ UNCHANGED <<live, tool>>

\* Any reviewer may release any claim.
release(v, k) ==
    /\ rows[v][k].status = "IN_REVIEW"
    /\ rows' = [rows EXCEPT ![v][k] =
                  [@ EXCEPT !.status = "OPEN", !.reviewer = None]]
    /\ UNCHANGED <<live, tool>>

\* UPDATE ... AND status = 'IN_REVIEW' AND reviewer = :reviewer.  The last
\* index is left active, so that create always finds an index: a bound.
resolve(v, k, r, x) ==
    /\ rows[v][k].status = "IN_REVIEW" /\ rows[v][k].reviewer = r
    /\ k < MaxReviews
    /\ rows' = [rows EXCEPT ![v][k] =
                  [@ EXCEPT !.status = "RESOLVED", !.resolution = x]]
    /\ UNCHANGED <<live, tool>>
-----------------------------------------------------------------------------
WritePath(v) == RecordSubject(v) \/ QueueLive(v) \/ QueueLost(v)

Tool(b) ==
    \/ StartRun(b) \/ FinishRun(b) \/ KillRun(b)
    \/ \E v \in Subject : Reconcile(b, v) \/ ReconcileError(b, v)

Endpoint(v, k) ==
    \/ release(v, k)
    \/ \E r \in Reviewer : claim(v, k, r) \/ \E x \in Resolution : resolve(v, k, r, x)

Next ==
    \/ \E v \in Subject : WritePath(v)
    \/ \E b \in Run : Tool(b)
    \/ \E v \in Subject, k \in Index : Endpoint(v, k)

Spec == Init /\ [][Next]_vars

\* The tool is run again and again (a periodic job), a running one proceeds,
\* and the errors of one record are transient: tried for ever, it succeeds.
Fairness ==
    /\ \A b \in Run : WF_vars(StartRun(b)) /\ WF_vars(FinishRun(b))
    /\ \A b \in Run, v \in Subject : SF_vars(Reconcile(b, v))

LiveSpec == Spec /\ Fairness
-----------------------------------------------------------------------------
\* Rows are filled in creation order with well-formed reviews.
TypeOK ==
    /\ rows \in [Subject -> [Index -> Review \cup {NoRow}]]
    /\ live \in [Subject -> {"absent", "committed", "done"}]
    /\ run \in [Run -> {"idle", "running", "exit 0", "exit 1"}]
    /\ scope \in [Run -> SUBSET Subject] /\ todo \in [Run -> SUBSET Subject]
    /\ errored \in [Run -> BOOLEAN]

\* The write path, two runs of the tool and a run racing either never give a
\* verdict two reviews in progress: one reviewer at a time is accountable.
OneActiveReview ==
    \A v \in Subject : \A j, k \in Index :
        IsActive(v, j) /\ IsActive(v, k) => j = k

\* The columns of a row agree with its status whatever sequence of claims and
\* releases led there: a reviewer exactly while claimed or resolved, and a
\* resolution exactly when resolved.
ColumnsAgree ==
    \A v \in Subject, k \in Index : Exists(v, k) =>
        LET r == rows[v][k] IN
        /\ r.reviewer = None <=> r.status = "OPEN"
        /\ r.resolution = "NULL" <=> r.status # "RESOLVED"

\* A review outlives every later step: it is never deleted, a resolved one
\* never changes, a claim passes to another reviewer only through OPEN, and a
\* review is resolved only by the reviewer who holds it.
ReviewHistory ==
    [][\A v \in Subject, k \in Index : Exists(v, k) =>
          LET old == rows[v][k]  new == rows'[v][k] IN
          /\ new # NoRow
          /\ old.status = "RESOLVED" => new = old
          /\ old.status = "IN_REVIEW" /\ new.status # "OPEN" =>
                new.reviewer = old.reviewer
          /\ old.status = "OPEN" => new.status # "RESOLVED"]_vars

\* A run of the tool that exits 0 has left no verdict it started with without
\* a review, although records fail one by one and the write path races it.
ExitZeroMeansCovered ==
    \A b \in Run : run[b] = "exit 0" => \A v \in scope[b] : Reviewed(v)

\* The gap left by a lost queueing step is closed in the end: every recorded
\* reviewable verdict gets a review.
EventuallyReviewed ==
    \A v \in Subject : live[v] # "absent" ~> Reviewed(v)
=============================================================================
