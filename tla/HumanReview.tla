----------------------------- MODULE HumanReview -----------------------------
(***************************************************************************)
(* The whole review workflow: the queue of verdict reviews, the queue of   *)
(* population finding reviews, the reconciliation tool's main, which works *)
(* through the one and then the other, and the endpoints, which decide     *)
(* under whose name a review is claimed and what the caller is told.       *)
(*                                                                         *)
(* Each queue is an instance of ReviewQueue: the two tables, repositories  *)
(* and routers of the code are copies of each other.  A call's 404 check   *)
(* reads a row that is never deleted and its UPDATE checks again whatever  *)
(* else it relies on, so a call is one step.                               *)
(***************************************************************************)
EXTENDS ReviewQueue

CONSTANTS Finding,      \* FLAGGED population findings
          Principal,    \* authenticated callers with the role REVIEWER or ADMIN
          NameOf        \* principal |-> the name it was created with

ASSUME NameAssumption ==
    /\ NameOf \in [Principal -> Reviewer] /\ None \notin Principal
    /\ Subject \cap Finding = {}

VARIABLES
    frows, flive, frun, fscope, ftodo, ferrored,    \* ReviewQueue, of findings
    main,      \* run |-> where main is
    auth,      \* AUTH_ENABLED
    told       \* review |-> reviewers who were told 200 to their claim and
               \* after whom nobody was told 200 to a release (history)

findingQueue == <<frows, flive, frun, fscope, ftodo, ferrored>>
hvars == <<vars, findingQueue, main, auth, told>>

Findings == INSTANCE ReviewQueue WITH
    Subject <- Finding, rows <- frows, live <- flive, run <- frun,
    scope <- fscope, todo <- ftodo, errored <- ferrored

\* A review is named by what it reviews and its index.
Reviews == (Subject \cup Finding) \X Index

HRInit ==
    /\ Init /\ Findings!Init
    /\ main = [b \in Run |-> "idle"]
    /\ auth \in BOOLEAN
    /\ told = [i \in Reviews |-> {}]
-----------------------------------------------------------------------------
\* The write paths: EvidenceStore.append for verdicts, a population run for
\* findings.
HRWritePath ==
    /\ \/ (\E v \in Subject : WritePath(v)) /\ UNCHANGED findingQueue
       \/ (\E f \in Finding : Findings!WritePath(f)) /\ UNCHANGED vars
    /\ UNCHANGED <<main, auth, told>>
-----------------------------------------------------------------------------
\* main: reconcile_verdict_reviews ...
StartMain(b) ==
    /\ main[b] \notin {"verdicts", "between", "findings"}
    /\ StartRun(b)
    /\ main' = [main EXCEPT ![b] = "verdicts"]
    /\ UNCHANGED <<findingQueue, auth, told>>

FinishVerdicts(b) ==
    /\ main[b] = "verdicts" /\ FinishRun(b)
    /\ main' = [main EXCEPT ![b] = "between"]
    /\ UNCHANGED <<findingQueue, auth, told>>

\* Mutant: no second part when a record of the first failed.
StartFindingsIfClean(b) ==
    /\ main[b] = "between" /\ ~ errored[b] /\ Findings!StartRun(b)
    /\ main' = [main EXCEPT ![b] = "findings"]
    /\ UNCHANGED <<vars, auth, told>>

\* ... then reconcile_population_finding_reviews, whatever failed before ...
StartFindings(b) ==
    /\ main[b] = "between" /\ Findings!StartRun(b)
    /\ main' = [main EXCEPT ![b] = "findings"]
    /\ UNCHANGED <<vars, auth, told>>

\* Mutant: the status is that of the part that ran last.
FinishMainLast(b) ==
    /\ main[b] = "findings" /\ Findings!FinishRun(b)
    /\ main' = [main EXCEPT ![b] = IF ferrored[b] THEN "exit 1" ELSE "exit 0"]
    /\ UNCHANGED <<vars, auth, told>>

\* ... and the exit status tells of both.
FinishMain(b) ==
    /\ main[b] = "findings" /\ Findings!FinishRun(b)
    /\ main' = [main EXCEPT ![b] = IF errored[b] \/ ferrored[b] THEN "exit 1" ELSE "exit 0"]
    /\ UNCHANGED <<vars, auth, told>>

ReconcileVerdict(b, v) ==
    /\ Reconcile(b, v)
    /\ UNCHANGED <<findingQueue, main, auth, told>>

ReconcileFinding(b, f) ==
    /\ Findings!Reconcile(b, f)
    /\ UNCHANGED <<vars, main, auth, told>>

RecordFails(b) ==
    /\ \/ (\E v \in Subject : ReconcileError(b, v)) /\ UNCHANGED findingQueue
       \/ (\E f \in Finding : Findings!ReconcileError(b, f)) /\ UNCHANGED vars
    /\ UNCHANGED <<main, auth, told>>

\* Killed, or one of the two SELECTs raises: the rest is not done.
KillMain(b) ==
    /\ main[b] \in {"verdicts", "between", "findings"}
    /\ main' = [main EXCEPT ![b] = "exit 1"]
    /\ \/ main[b] = "verdicts" /\ KillRun(b) /\ UNCHANGED findingQueue
       \/ main[b] = "findings" /\ Findings!KillRun(b) /\ UNCHANGED vars
       \/ main[b] = "between" /\ UNCHANGED <<vars, findingQueue>>
    /\ UNCHANGED <<auth, told>>
-----------------------------------------------------------------------------
\* Mutant: the name in the body wins.
resolve_reviewer_trusting(p, name) ==
    IF name # None THEN {name} ELSE IF p # None THEN {NameOf[p]} ELSE {}

\* The reviewer a call acts as, if any: with authentication the name of the
\* principal, which a name in the body must match; without it (p = None) the
\* name in the body, which is required.  Otherwise 422.
resolve_reviewer(p, name) ==
    IF p = None THEN {name} \ {None}
    ELSE IF name \in {None, NameOf[p]} THEN {NameOf[p]} ELSE {}

Caller == IF auth THEN Principal ELSE {None}

\* Both queues' actions on a review, of which one applies.
RepositoryClaim(i, r) ==
    \/ i[1] \in Subject /\ claim(i[1], i[2], r) /\ UNCHANGED findingQueue
    \/ i[1] \in Finding /\ Findings!claim(i[1], i[2], r) /\ UNCHANGED vars
RepositoryRelease(i) ==
    \/ i[1] \in Subject /\ release(i[1], i[2]) /\ UNCHANGED findingQueue
    \/ i[1] \in Finding /\ Findings!release(i[1], i[2]) /\ UNCHANGED vars
RepositoryResolve(i, r, x) ==
    \/ i[1] \in Subject /\ resolve(i[1], i[2], r, x) /\ UNCHANGED findingQueue
    \/ i[1] \in Finding /\ Findings!resolve(i[1], i[2], r, x) /\ UNCHANGED vars

RowOf(i) == IF i[1] \in Subject THEN rows[i[1]][i[2]] ELSE frows[i[1]][i[2]]

\* Mutant: the count of updated rows is not looked at, so the loser of a race
\* is told that the claim is his.
claim_unchecked(p, name, i) ==
    \E r \in resolve_reviewer(p, name) :
        /\ RowOf(i) # NoRow
        /\ \/ RepositoryClaim(i, r)
           \/ RowOf(i).status # "OPEN" /\ UNCHANGED <<vars, findingQueue>>
        /\ told' = [told EXCEPT ![i] = @ \cup {r}]
        /\ UNCHANGED <<main, auth>>

\* POST .../claim answered 200.  A 404, 409 or 422 leaves everything as it is.
claim_review(p, name, i) ==
    \E r \in resolve_reviewer(p, name) :
        /\ RepositoryClaim(i, r)
        /\ told' = [told EXCEPT ![i] = @ \cup {r}]
        /\ UNCHANGED <<main, auth>>

\* POST .../release: whoever calls, and without a name.
release_review(i) ==
    /\ RepositoryRelease(i)
    /\ told' = [told EXCEPT ![i] = {}]
    /\ UNCHANGED <<main, auth>>

resolve_review(p, name, i, x) ==
    \E r \in resolve_reviewer(p, name) :
        /\ RepositoryResolve(i, r, x)
        /\ UNCHANGED <<main, auth, told>>
-----------------------------------------------------------------------------
HRTool(b) ==
    \/ StartMain(b) \/ FinishVerdicts(b) \/ StartFindings(b) \/ FinishMain(b)
    \/ RecordFails(b) \/ KillMain(b)
    \/ \E v \in Subject : ReconcileVerdict(b, v)
    \/ \E f \in Finding : ReconcileFinding(b, f)

HREndpoint(i) ==
    \/ release_review(i)
    \/ \E p \in Caller, name \in Reviewer \cup {None} :
          claim_review(p, name, i) \/ \E x \in Resolution : resolve_review(p, name, i, x)

HRNext ==
    \/ HRWritePath
    \/ \E b \in Run : HRTool(b)
    \/ \E i \in Reviews : HREndpoint(i)

HRSpec == HRInit /\ [][HRNext]_hvars

\* A periodic job: started again and again, not killed for ever at one point
\* of its work, and each record's errors are transient.
HRFairness ==
    \A b \in Run :
        /\ WF_hvars(StartMain(b)) /\ SF_hvars(FinishVerdicts(b))
        /\ SF_hvars(StartFindings(b)) /\ WF_hvars(FinishMain(b))
        /\ \A v \in Subject : SF_hvars(ReconcileVerdict(b, v))
        /\ \A f \in Finding : SF_hvars(ReconcileFinding(b, f))

HRLiveSpec == HRSpec /\ HRFairness
-----------------------------------------------------------------------------
\* Both queues keep their types, and main is in one part at a time.
HRTypeOK ==
    /\ TypeOK /\ Findings!TypeOK
    /\ main \in [Run -> {"idle", "verdicts", "between", "findings", "exit 0", "exit 1"}]
    /\ auth \in BOOLEAN
    /\ told \in [Reviews -> SUBSET Reviewer]
    /\ \A b \in Run : /\ run[b] = "running" <=> main[b] = "verdicts"
                      /\ frun[b] = "running" <=> main[b] = "findings"

\* When the tool exits 0, no verdict and no finding that either part of it
\* selected is left without a review, although records of either kind fail,
\* and fail in the part that does not decide last.
MainExitZero ==
    \A b \in Run : main[b] = "exit 0" =>
        /\ \A v \in scope[b] : Reviewed(v)
        /\ \A f \in fscope[b] : Findings!Reviewed(f)

\* What the callers were told is true of the row: at most one of the racing
\* claims of a review is answered 200, and the review is then under the name
\* of that caller until a release is answered 200.  While authentication is on
\* that is the name of an authenticated principal, whatever the bodies say.
AnswersAgree ==
    \A i \in Reviews :
        /\ told[i] = IF RowOf(i) = NoRow THEN {} ELSE {RowOf(i).reviewer} \ {None}
        /\ auth => told[i] \subseteq {NameOf[p] : p \in Principal}

\* The gap of a lost queueing step is closed, for verdicts and for findings,
\* although the tool comes to the findings last and may be killed before.
EverythingReviewed ==
    /\ EventuallyReviewed
    /\ \A f \in Finding : flive[f] # "absent" ~> Findings!Reviewed(f)
=============================================================================
