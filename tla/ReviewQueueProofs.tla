-------------------------- MODULE ReviewQueueProofs --------------------------
(***************************************************************************)
(* The safety properties of ReviewQueue, for any numbers of verdicts,      *)
(* reviewers, concurrent runs of the tool and reviews per verdict; that    *)
(* each half of HumanReview implements ReviewQueue; and the safety         *)
(* properties of the two queues together.                                  *)
(***************************************************************************)
EXTENDS HumanReview, TLAPS

USE ReviewAssumption

\* What a step does to the one table it may write, row by row.
RowStep(v, k) ==
    \/ rows'[v][k] = rows[v][k]
    \/ /\ rows[v][k] = NoRow /\ rows'[v][k] = NewReview
       /\ \A j \in Index : j # k => ~ IsActive(v, j) /\ rows'[v][j] = rows[v][j]
    \/ \E r \in Reviewer :
          /\ rows[v][k].status = "OPEN"
          /\ rows'[v][k] = [rows[v][k] EXCEPT !.status = "IN_REVIEW", !.reviewer = r]
    \/ /\ rows[v][k].status = "IN_REVIEW"
       /\ rows'[v][k] = [rows[v][k] EXCEPT !.status = "OPEN", !.reviewer = None]
    \/ \E x \in Resolution :
          /\ rows[v][k].status = "IN_REVIEW" /\ rows[v][k].reviewer \in Reviewer
          /\ rows'[v][k] = [rows[v][k] EXCEPT !.status = "RESOLVED", !.resolution = x]

\* The tool has handled, or failed on, every subject it no longer has to do.
Progress ==
    \A b \in Run :
        /\ run[b] = "running" /\ ~ errored[b] =>
              \A v \in scope[b] \ todo[b] : Reviewed(v)
        /\ run[b] = "exit 0" => \A v \in scope[b] : Reviewed(v)

-----------------------------------------------------------------------------
\* The type invariant of the review queue holds initially.
LEMMA InitType == Init => TypeOK
  BY DEF Init, TypeOK

\* A cell of the table holds a review or nothing.
LEMMA RowType ==
  ASSUME TypeOK, NEW v \in Subject, NEW k \in Index
  PROVE  rows[v][k] \in Review \cup {NoRow}
  <1>1. rows \in [Subject -> [Index -> Review \cup {NoRow}]]
    BY DEF TypeOK
  <1>2. rows[v] \in [Index -> Review \cup {NoRow}]
    BY <1>1
  <1> QED BY <1>2

\* Reconciliation and the write path create the same row.
LEMMA CreateStep ==
  ASSUME TypeOK, NEW w \in Subject, create(w)
  PROVE  /\ rows' \in [Subject -> [Index -> Review \cup {NoRow}]]
         /\ \A v \in Subject, k \in Index : RowStep(v, k)
         /\ \E k \in Index : rows'[w][k] # NoRow
  <1>1. CASE \E k \in Index : IsActive(w, k) /\ UNCHANGED rows
    <2>1. PICK k \in Index : IsActive(w, k)
      BY <1>1
    <2>2. rows[w][k] # NoRow
      BY <2>1 DEF IsActive, NoRow
    <2> QED BY <1>1, <2>2 DEF TypeOK, RowStep
  <1>2. CASE \A k \in Index : ~ IsActive(w, k)
    <2>1. PICK k \in Index : /\ ~ Exists(w, k)
                             /\ rows' = [rows EXCEPT ![w][k] = NewReview]
      BY <1>2 DEF create
    <2>2. NewReview \in Review /\ NewReview # NoRow
      BY DEF NewReview, Review, NoRow, ReviewStatus
    <2>3. rows' \in [Subject -> [Index -> Review \cup {NoRow}]]
      BY <2>1, <2>2 DEF TypeOK
    <2>4. rows'[w][k] = NewReview /\ rows[w][k] = NoRow
      BY <2>1 DEF TypeOK, Exists
    <2>5. ASSUME NEW v \in Subject, NEW j \in Index, ~ (v = w /\ j = k)
          PROVE  rows'[v][j] = rows[v][j]
      BY <2>1, <2>5 DEF TypeOK
    <2>6. RowStep(w, k)
      BY <1>2, <2>4, <2>5 DEF RowStep
    <2>7. ASSUME NEW v \in Subject, NEW j \in Index
          PROVE  RowStep(v, j)
      BY <2>5, <2>6 DEF RowStep
    <2> QED BY <2>2, <2>3, <2>4, <2>7
  <1> QED BY <1>1, <1>2 DEF create

\* An endpoint rewrites one row, into another well-formed review.
LEMMA EndpointStep ==
  ASSUME TypeOK, NEW w \in Subject, NEW i \in Index, Endpoint(w, i)
  PROVE  /\ rows' \in [Subject -> [Index -> Review \cup {NoRow}]]
         /\ \A v \in Subject, k \in Index : RowStep(v, k)
  <1>0. rows \in [Subject -> [Index -> Review \cup {NoRow}]]
    BY DEF TypeOK
  <1>1. CASE release(w, i)
    <2>1. rows[w][i] \in Review
      BY <1>0, <1>1 DEF release, NoRow
    <2>2. [rows[w][i] EXCEPT !.status = "OPEN", !.reviewer = None] \in Review
      BY <2>1 DEF Review, ReviewStatus
    <2> QED BY <1>0, <1>1, <2>2 DEF release, RowStep
  <1>2. ASSUME NEW r \in Reviewer, claim(w, i, r)
        PROVE  /\ rows' \in [Subject -> [Index -> Review \cup {NoRow}]]
               /\ \A v \in Subject, k \in Index : RowStep(v, k)
    <2>1. rows[w][i] \in Review
      BY <1>0, <1>2 DEF claim, NoRow
    <2>2. [rows[w][i] EXCEPT !.status = "IN_REVIEW", !.reviewer = r] \in Review
      BY <2>1 DEF Review, ReviewStatus
    <2> QED BY <1>0, <1>2, <2>2 DEF claim, RowStep
  <1>3. ASSUME NEW r \in Reviewer, NEW x \in Resolution, resolve(w, i, r, x)
        PROVE  /\ rows' \in [Subject -> [Index -> Review \cup {NoRow}]]
               /\ \A v \in Subject, k \in Index : RowStep(v, k)
    <2>1. rows[w][i] \in Review
      BY <1>0, <1>3 DEF resolve, NoRow
    <2>2. [rows[w][i] EXCEPT !.status = "RESOLVED", !.resolution = x] \in Review
      BY <2>1 DEF Review, ReviewStatus
    <2> QED BY <1>0, <1>3, <2>2 DEF resolve, RowStep
  <1> QED BY <1>1, <1>2, <1>3 DEF Endpoint

\* A step changes the table row by row as RowStep allows.
LEMMA StepRows ==
  ASSUME TypeOK, [Next]_vars
  PROVE  /\ rows' \in [Subject -> [Index -> Review \cup {NoRow}]]
         /\ \A v \in Subject, k \in Index : RowStep(v, k)
  <1>1. CASE UNCHANGED rows
    BY <1>1 DEF TypeOK, RowStep
  <1>2. CASE \E v \in Subject : WritePath(v)
    BY <1>1, <1>2, CreateStep DEF WritePath, RecordSubject, QueueLive, QueueLost
  <1>3. CASE \E b \in Run : Tool(b)
    BY <1>1, <1>3, CreateStep
       DEF Tool, StartRun, FinishRun, KillRun, Reconcile, ReconcileError
  <1>4. CASE \E v \in Subject, k \in Index : Endpoint(v, k)
    BY <1>4, EndpointStep
  <1> QED BY <1>1, <1>2, <1>3, <1>4 DEF Next, vars

\* A step keeps every variable in its type.
LEMMA StepType == TypeOK /\ [Next]_vars => TypeOK'
  <1> SUFFICES ASSUME TypeOK, [Next]_vars PROVE TypeOK'
    OBVIOUS
  <1>1. rows' \in [Subject -> [Index -> Review \cup {NoRow}]]
    BY StepRows
  <1>2. CASE UNCHANGED <<live, tool>>
    BY <1>1, <1>2 DEF TypeOK, tool
  <1>3. CASE \E v \in Subject : WritePath(v)
    BY <1>1, <1>3 DEF TypeOK, tool, WritePath, RecordSubject, QueueLive, QueueLost
  <1>4. ASSUME NEW b \in Run, Tool(b)
        PROVE  TypeOK'
    <2>1. CASE StartRun(b)
      BY <1>1, <2>1 DEF TypeOK, StartRun
    <2>2. CASE FinishRun(b) \/ KillRun(b)
      BY <1>1, <2>2 DEF TypeOK, FinishRun, KillRun
    <2>3. CASE \E v \in Subject : Reconcile(b, v) \/ ReconcileError(b, v)
      <3>1. PICK v \in Subject : Reconcile(b, v) \/ ReconcileError(b, v)
        BY <2>3
      <3>2. /\ live' = live /\ run' = run /\ scope' = scope
            /\ todo' = [todo EXCEPT ![b] = @ \ {v}]
            /\ errored' = errored \/ errored' = [errored EXCEPT ![b] = TRUE]
        BY <3>1 DEF Reconcile, ReconcileError
      <3>3. todo' \in [Run -> SUBSET Subject] /\ errored' \in [Run -> BOOLEAN]
        BY <3>2 DEF TypeOK
      <3> QED BY <1>1, <3>2, <3>3 DEF TypeOK
    <2> QED BY <1>4, <2>1, <2>2, <2>3 DEF Tool
  <1>5. CASE \E v \in Subject, k \in Index : Endpoint(v, k)
    BY <1>2, <1>5 DEF Endpoint, claim, release, resolve
  <1> QED BY <1>2, <1>3, <1>4, <1>5 DEF Next, vars, tool

\* Every variable of the review queue keeps its type: rows are well-formed
\* reviews and the tool's bookkeeping stays within the recorded verdicts.
THEOREM TypeCorrect == Spec => []TypeOK
  BY InitType, StepType, PTL DEF Spec
-----------------------------------------------------------------------------
\* A step keeps at most one active review per verdict.
LEMMA StepActive ==
  TypeOK /\ OneActiveReview /\ [Next]_vars => OneActiveReview'
  <1> SUFFICES ASSUME TypeOK, OneActiveReview, [Next]_vars,
                      NEW v \in Subject, NEW j \in Index, NEW k \in Index,
                      IsActive(v, j)', IsActive(v, k)', j # k
               PROVE  FALSE
    BY DEF OneActiveReview
  <1>1. RowStep(v, j) /\ RowStep(v, k)
    BY StepRows
  <1>2. rows[v][j] \in Review \cup {NoRow} /\ rows[v][k] \in Review \cup {NoRow}
    BY RowType
  <1>3. ~ (IsActive(v, j) /\ IsActive(v, k))
    BY DEF OneActiveReview
  <1>4. ASSUME NEW i \in Index, RowStep(v, i), IsActive(v, i)', ~ IsActive(v, i),
               rows[v][i] \in Review \cup {NoRow}
        PROVE  \A h \in Index : h # i => ~ IsActive(v, h) /\ rows'[v][h] = rows[v][h]
    BY <1>4 DEF RowStep, IsActive, Review, NoRow, ReviewStatus
  <1>5. ~ IsActive(v, j) => ~ IsActive(v, k)'
    BY <1>1, <1>2, <1>4 DEF IsActive
  <1>6. ~ IsActive(v, k) => ~ IsActive(v, j)'
    BY <1>1, <1>2, <1>4 DEF IsActive
  <1> QED BY <1>3, <1>5, <1>6

\* However the write path, the reconciliation runs and the reviewers
\* interleave, a verdict has at most one review that is not resolved.
THEOREM SingleReview == Spec => []OneActiveReview
  <1>1. Init => OneActiveReview
    BY DEF Init, OneActiveReview, IsActive, NoRow
  <1> QED BY <1>1, InitType, StepType, StepActive, PTL DEF Spec
-----------------------------------------------------------------------------
\* A step keeps the columns of every row in agreement.
LEMMA StepColumns ==
  TypeOK /\ ColumnsAgree /\ [Next]_vars => ColumnsAgree'
  <1> SUFFICES ASSUME TypeOK, ColumnsAgree, [Next]_vars,
                      NEW v \in Subject, NEW k \in Index, rows'[v][k] # NoRow
               PROVE  /\ rows'[v][k].reviewer = None <=> rows'[v][k].status = "OPEN"
                      /\ rows'[v][k].resolution = "NULL"
                            <=> rows'[v][k].status # "RESOLVED"
    BY DEF ColumnsAgree, Exists
  <1> DEFINE old == rows[v][k]
  <1>1. RowStep(v, k)
    BY StepRows
  <1>2. old \in Review \cup {NoRow}
    BY RowType
  <1>3. old # NoRow => /\ old.reviewer = None <=> old.status = "OPEN"
                       /\ old.resolution = "NULL" <=> old.status # "RESOLVED"
    BY DEF ColumnsAgree, Exists
  <1>4. CASE rows'[v][k] = old
    BY <1>3, <1>4
  <1>5. CASE rows'[v][k] = NewReview
    BY <1>5 DEF NewReview
  <1>6. ASSUME NEW r \in Reviewer, old.status = "OPEN",
               rows'[v][k] = [old EXCEPT !.status = "IN_REVIEW", !.reviewer = r]
        PROVE  /\ rows'[v][k].reviewer = None <=> rows'[v][k].status = "OPEN"
               /\ rows'[v][k].resolution = "NULL" <=> rows'[v][k].status # "RESOLVED"
    <2>1. old \in Review
      BY <1>2, <1>6 DEF NoRow
    <2>2. old.resolution = "NULL"
      BY <1>3, <1>6, <2>1 DEF NoRow
    <2>3. r # None
      OBVIOUS
    <2> QED BY <1>6, <2>1, <2>2, <2>3 DEF Review
  <1>7. CASE /\ old.status = "IN_REVIEW"
             /\ rows'[v][k] = [old EXCEPT !.status = "OPEN", !.reviewer = None]
    <2>1. old \in Review
      BY <1>2, <1>7 DEF NoRow
    <2>2. old.resolution = "NULL"
      BY <1>3, <1>7, <2>1 DEF NoRow
    <2> QED BY <1>7, <2>1, <2>2 DEF Review
  <1>8. ASSUME NEW x \in Resolution, old.status = "IN_REVIEW",
               rows'[v][k] = [old EXCEPT !.status = "RESOLVED", !.resolution = x]
        PROVE  /\ rows'[v][k].reviewer = None <=> rows'[v][k].status = "OPEN"
               /\ rows'[v][k].resolution = "NULL" <=> rows'[v][k].status # "RESOLVED"
    <2>1. old \in Review
      BY <1>2, <1>8 DEF NoRow
    <2>2. old.reviewer # None
      BY <1>3, <1>8, <2>1 DEF NoRow
    <2> QED BY <1>8, <2>1, <2>2 DEF Review, Resolution
  <1> QED BY <1>1, <1>4, <1>5, <1>6, <1>7, <1>8 DEF RowStep

\* Whatever claims, releases and resolutions led to a row, its reviewer and
\* resolution columns say what its status says.
THEOREM ConsistentColumns == Spec => []ColumnsAgree
  <1>1. Init => ColumnsAgree
    BY DEF Init, ColumnsAgree, Exists
  <1> QED BY <1>1, InitType, StepType, StepColumns, PTL DEF Spec

\* A review is never lost or rewritten once resolved, and a claim changes
\* hands only by being released.
THEOREM AuditableHistory == Spec => ReviewHistory
  <1>1. TypeOK /\ [Next]_vars =>
          [\A v \in Subject, k \in Index : Exists(v, k) =>
             LET old == rows[v][k]  new == rows'[v][k] IN
             /\ new # NoRow
             /\ old.status = "RESOLVED" => new = old
             /\ old.status = "IN_REVIEW" /\ new.status # "OPEN" =>
                   new.reviewer = old.reviewer
             /\ old.status = "OPEN" => new.status # "RESOLVED"]_vars
    <2> SUFFICES ASSUME TypeOK, [Next]_vars,
                        NEW v \in Subject, NEW k \in Index, Exists(v, k)
                 PROVE  /\ rows'[v][k] # NoRow
                        /\ rows[v][k].status = "RESOLVED" => rows'[v][k] = rows[v][k]
                        /\ rows[v][k].status = "IN_REVIEW" /\ rows'[v][k].status # "OPEN"
                              => rows'[v][k].reviewer = rows[v][k].reviewer
                        /\ rows[v][k].status = "OPEN" => rows'[v][k].status # "RESOLVED"
      OBVIOUS
    <2>1. rows[v][k] \in Review
      BY RowType DEF Exists
    <2>2. RowStep(v, k)
      BY StepRows
    <2> QED BY <2>1, <2>2 DEF RowStep, Exists, Review, NoRow
  <1> QED BY <1>1, InitType, StepType, PTL DEF Spec, ReviewHistory
-----------------------------------------------------------------------------
\* A verdict with a review keeps one.
LEMMA StillReviewed ==
  ASSUME TypeOK, [Next]_vars, NEW v \in Subject, Reviewed(v)
  PROVE  Reviewed(v)'
  <1>1. PICK k \in Index : rows[v][k] # NoRow
    BY DEF Reviewed, Exists
  <1>2. rows[v][k] \in Review /\ RowStep(v, k)
    BY <1>1, RowType, StepRows
  <1>3. rows'[v][k] # NoRow
    BY <1>1, <1>2 DEF RowStep, Review, NoRow
  <1> QED BY <1>3 DEF Reviewed, Exists

\* A step of the tool or of anyone else keeps its bookkeeping truthful.
LEMMA StepProgress ==
  TypeOK /\ Progress /\ [Next]_vars => Progress'
  <1> SUFFICES ASSUME TypeOK, Progress, [Next]_vars, NEW b \in Run
               PROVE  /\ run'[b] = "running" /\ ~ errored'[b] =>
                            \A v \in scope'[b] \ todo'[b] : Reviewed(v)'
                      /\ run'[b] = "exit 0" => \A v \in scope'[b] : Reviewed(v)'
    BY DEF Progress
  <1>0. \A v \in Subject : Reviewed(v) => Reviewed(v)'
    BY StillReviewed
  <1>1. CASE UNCHANGED <<run[b], scope[b], todo[b], errored[b]>>
    BY <1>0, <1>1 DEF Progress, TypeOK
  <1>2. CASE StartRun(b)
    BY <1>2 DEF StartRun, TypeOK
  <1>3. CASE FinishRun(b)
    BY <1>0, <1>3 DEF FinishRun, TypeOK, Progress
  <1>4. CASE KillRun(b)
    BY <1>4 DEF KillRun, TypeOK
  <1>5. ASSUME NEW w \in Subject, Reconcile(b, w)
        PROVE  /\ run'[b] = "running" /\ ~ errored'[b] =>
                     \A v \in scope'[b] \ todo'[b] : Reviewed(v)'
               /\ run'[b] = "exit 0" => \A v \in scope'[b] : Reviewed(v)'
    <2>1. Reviewed(w)'
      BY <1>5, CreateStep DEF Reconcile, Reviewed, Exists
    <2> QED BY <1>0, <1>5, <2>1 DEF Reconcile, TypeOK, Progress
  <1>6. CASE \E w \in Subject : ReconcileError(b, w)
    BY <1>6 DEF ReconcileError, TypeOK
  <1>7. CASE \E c \in Run : c # b /\ Tool(c)
    BY <1>1, <1>7
       DEF Tool, StartRun, FinishRun, KillRun, Reconcile, ReconcileError, TypeOK
  <1>8. CASE \E v \in Subject : WritePath(v)
    BY <1>1, <1>8 DEF WritePath, RecordSubject, QueueLive, QueueLost, tool
  <1>9. CASE \E v \in Subject, k \in Index : Endpoint(v, k)
    BY <1>1, <1>9 DEF Endpoint, claim, release, resolve, tool
  <1>10. CASE UNCHANGED vars
    BY <1>1, <1>10 DEF vars, tool
  <1> QED BY <1>2, <1>3, <1>4, <1>5, <1>6, <1>7, <1>8, <1>9, <1>10 DEF Next, Tool

\* An exit code of 0 can be trusted: every verdict the run started with has a
\* review, whatever failed, was killed or raced it.
THEOREM TrustedExit == Spec => []ExitZeroMeansCovered
  <1>1. Init => Progress
    BY DEF Init, Progress
  <1>2. Progress => ExitZeroMeansCovered
    BY DEF Progress, ExitZeroMeansCovered
  <1> QED BY <1>1, <1>2, InitType, StepType, StepProgress, PTL DEF Spec
-----------------------------------------------------------------------------
\* The two queues as parts of HumanReview.
USE NameAssumption

\* AUTH_ENABLED is set or it is not.
AuthOK == auth \in BOOLEAN

\* Whoever calls, the name he acts under is a reviewer's; authenticated, it is
\* that of a principal (resolve_reviewer).
LEMMA Names ==
  ASSUME AuthOK, NEW p \in Caller, NEW name \in Reviewer \cup {None},
         NEW r \in resolve_reviewer(p, name)
  PROVE  r \in Reviewer /\ (auth => r \in {NameOf[q] : q \in Principal})
  <1>1. CASE auth
    <2>1. p \in Principal /\ p # None
      BY <1>1 DEF Caller, AuthOK
    <2>2. r = NameOf[p]
      BY <2>1 DEF resolve_reviewer
    <2> QED BY <2>1, <2>2
  <1>2. CASE ~ auth
    BY <1>2 DEF Caller, resolve_reviewer
  <1> QED BY <1>1, <1>2 DEF AuthOK

\* What a step of the composition is to the queue of verdicts ...
LEMMA VerdictStep ==
  ASSUME AuthOK, [HRNext]_hvars
  PROVE  [Next]_vars
  <1>1. CASE HRWritePath
    BY <1>1 DEF HRWritePath, Next
  <1>2. ASSUME NEW b \in Run, HRTool(b)
        PROVE  [Next]_vars
    <2>1. UNCHANGED vars \/ Tool(b)
      BY <1>2 DEF HRTool, StartMain, FinishVerdicts, StartFindings, FinishMain, RecordFails,
         KillMain, ReconcileVerdict, ReconcileFinding, Tool
    <2> QED BY <2>1 DEF Next
  <1>3. ASSUME NEW i \in Reviews, HREndpoint(i)
        PROVE  [Next]_vars
    <2>1. i[2] \in Index
      BY DEF Reviews
    <2>2. CASE release_review(i)
      BY <2>1, <2>2 DEF release_review, RepositoryRelease, Next, Endpoint
    <2>3. ASSUME NEW p \in Caller, NEW name \in Reviewer \cup {None},
                 NEW r \in resolve_reviewer(p, name),
                 \/ RepositoryClaim(i, r)
                 \/ \E x \in Resolution : RepositoryResolve(i, r, x)
          PROVE  [Next]_vars
      <3>1. r \in Reviewer
        BY Names
      <3>2. UNCHANGED vars \/ (i[1] \in Subject /\ Endpoint(i[1], i[2]))
        BY <2>3, <3>1 DEF RepositoryClaim, RepositoryResolve, Endpoint
      <3> QED BY <2>1, <3>2 DEF Next
    <2> QED BY <1>3, <2>2, <2>3 DEF HREndpoint, claim_review, resolve_review
  <1>4. CASE UNCHANGED hvars
    BY <1>4 DEF hvars
  <1> QED BY <1>1, <1>2, <1>3, <1>4 DEF HRNext

\* ... and to that of findings.
LEMMA FindingStep ==
  ASSUME AuthOK, [HRNext]_hvars
  PROVE  Findings!Next \/ UNCHANGED findingQueue
  <1>1. CASE HRWritePath
    BY <1>1 DEF HRWritePath, Findings!Next
  <1>2. ASSUME NEW b \in Run, HRTool(b)
        PROVE  Findings!Next \/ UNCHANGED findingQueue
    <2>1. UNCHANGED findingQueue \/ Findings!Tool(b)
      BY <1>2 DEF HRTool, StartMain, FinishVerdicts, StartFindings, FinishMain, RecordFails,
         KillMain, ReconcileVerdict, ReconcileFinding, Findings!Tool
    <2> QED BY <2>1 DEF Findings!Next
  <1>3. ASSUME NEW i \in Reviews, HREndpoint(i)
        PROVE  Findings!Next \/ UNCHANGED findingQueue
    <2>1. i[2] \in Findings!Index
      BY DEF Reviews, Index, Findings!Index
    <2>2. CASE release_review(i)
      BY <2>1, <2>2 DEF release_review, RepositoryRelease, Findings!Next, Findings!Endpoint
    <2>3. ASSUME NEW p \in Caller, NEW name \in Reviewer \cup {None},
                 NEW r \in resolve_reviewer(p, name),
                 \/ RepositoryClaim(i, r)
                 \/ \E x \in Resolution : RepositoryResolve(i, r, x)
          PROVE  Findings!Next \/ UNCHANGED findingQueue
      <3>1. r \in Reviewer
        BY Names
      <3>2. UNCHANGED findingQueue \/ (i[1] \in Finding /\ Findings!Endpoint(i[1], i[2]))
        BY <2>3, <3>1 DEF RepositoryClaim, RepositoryResolve, Findings!Endpoint, Resolution,
           Findings!Resolution
      <3> QED BY <2>1, <3>2 DEF Findings!Next
    <2> QED BY <1>3, <2>2, <2>3 DEF HREndpoint, claim_review, resolve_review
  <1>4. CASE UNCHANGED hvars
    BY <1>4 DEF hvars
  <1> QED BY <1>1, <1>2, <1>3, <1>4 DEF HRNext

\* AUTH_ENABLED is read once.
LEMMA AuthStep == AuthOK /\ [HRNext]_hvars => AuthOK'
  BY DEF AuthOK, HRNext, hvars, HRWritePath, HRTool, StartMain, FinishVerdicts, StartFindings, FinishMain,
     RecordFails, KillMain, ReconcileVerdict, ReconcileFinding, HREndpoint, release_review,
     claim_review, resolve_review

\* Under one main and one set of endpoints, the verdicts' reviews still are a
\* ReviewQueue: the theorems above hold of the composition.
THEOREM VerdictQueue == HRSpec => Spec
  <1>1. HRInit => Init /\ AuthOK
    BY DEF HRInit, AuthOK
  <1>2. AuthOK /\ [HRNext]_hvars => [Next]_vars
    BY VerdictStep
  <1> QED BY <1>1, <1>2, AuthStep, PTL DEF HRSpec, Spec

\* So are the findings' reviews.
THEOREM FindingQueue == HRSpec => Findings!Spec
  <1>1. HRInit => Findings!Init /\ AuthOK
    BY DEF HRInit, AuthOK
  <1>2. AuthOK /\ [HRNext]_hvars => [Findings!Next]_(Findings!vars)
    BY FindingStep DEF findingQueue, Findings!vars
  <1> QED BY <1>1, <1>2, AuthStep, PTL DEF HRSpec, Findings!Spec
-----------------------------------------------------------------------------
\* The tables of reviews of a set of subjects.
TableOf(S) == [S -> [Index -> Review \cup {NoRow}]]

\* The queues have their definitions in common.
LEMMA SameDefinitions ==
  /\ Findings!Index = Index /\ Findings!Review = Review /\ Findings!Resolution = Resolution
  /\ Findings!NoRow = NoRow /\ Findings!NewReview = NewReview
  /\ Findings!ReviewStatus = ReviewStatus
  BY DEF Findings!Index, Index, Findings!Review, Review, Findings!Resolution, Resolution,
     Findings!NoRow, NoRow, Findings!NewReview, NewReview, Findings!ReviewStatus, ReviewStatus

\* A review is no absence of one, and a new one is a review.
LEMMA ReviewsAreRows == NoRow \notin Review /\ NewReview \in Review
  BY DEF NoRow, Review, NewReview, ReviewStatus

\* u is t with one row of s rewritten.
UpdatedIn(t, u, s, k, new) == u = [t EXCEPT ![s][k] = new]

\* That leaves the others.
LEMMA Update ==
  ASSUME NEW S, NEW t \in TableOf(S), NEW s \in S, NEW k \in Index, NEW new \in Review, NEW u,
         UpdatedIn(t, u, s, k, new)
  PROVE  /\ u \in TableOf(S) /\ u[s][k] = new
         /\ \A r \in S, j \in Index : ~ (r = s /\ j = k) => u[r][j] = t[r][j]
  <1>1. /\ t \in [S -> [Index -> Review \cup {NoRow}]]
        /\ t[s] \in [Index -> Review \cup {NoRow}]
    BY DEF TableOf
  <1>2. u = [t EXCEPT ![s] = [t[s] EXCEPT ![k] = new]]
    BY DEF UpdatedIn
  <1>3. [t[s] EXCEPT ![k] = new] \in [Index -> Review \cup {NoRow}]
    BY <1>1
  <1>4. u \in [S -> [Index -> Review \cup {NoRow}]]
    BY <1>1, <1>2, <1>3
  <1>5. u[s] = [t[s] EXCEPT ![k] = new] /\ \A r \in S : r # s => u[r] = t[r]
    BY <1>1, <1>2
  <1> QED BY <1>1, <1>4, <1>5 DEF TableOf

\* What a create does to a table t: nothing where a review is active, else a
\* new row (create).
CreatedIn(t, u, s) ==
    \/ u = t /\ \E k \in Index : t[s][k].status \in {"OPEN", "IN_REVIEW"}
    \/ \E k \in Index : t[s][k] = NoRow /\ UpdatedIn(t, u, s, k, NewReview)

\* No row is lost, and s has one in the end.
LEMMA Created ==
  ASSUME NEW S, NEW t \in TableOf(S), NEW s \in S, NEW u, CreatedIn(t, u, s)
  PROVE  /\ u \in TableOf(S) /\ \E k \in Index : u[s][k] # NoRow
         /\ \A r \in S, j \in Index :
               u[r][j] = t[r][j] \/ (t[r][j] = NoRow /\ u[r][j] = NewReview)
  <1>1. ASSUME u = t, NEW k \in Index, t[s][k].status \in {"OPEN", "IN_REVIEW"}
        PROVE  u[s][k] # NoRow
    BY <1>1 DEF NoRow
  <1>2. ASSUME NEW k \in Index, t[s][k] = NoRow, UpdatedIn(t, u, s, k, NewReview)
        PROVE  /\ u \in TableOf(S) /\ \E i \in Index : u[s][i] # NoRow
               /\ \A r \in S, j \in Index :
                     u[r][j] = t[r][j] \/ (t[r][j] = NoRow /\ u[r][j] = NewReview)
    <2>1. /\ u \in TableOf(S) /\ u[s][k] = NewReview
          /\ \A r \in S, j \in Index : ~ (r = s /\ j = k) => u[r][j] = t[r][j]
      BY <1>2, Update, ReviewsAreRows
    <2> QED BY <1>2, <2>1, ReviewsAreRows
  <1> QED BY <1>1, <1>2 DEF CreatedIn

\* Both queues create so.
LEMMA Creates ==
  /\ \A v \in Subject : create(v) => CreatedIn(rows, rows', v)
  /\ \A f \in Finding : Findings!create(f) => CreatedIn(frows, frows', f)
  BY SameDefinitions
  DEF create, Findings!create, IsActive, Findings!IsActive, Exists, Findings!Exists, CreatedIn,
     UpdatedIn

\* What one step does to a review, and to what the reviewers were told of it.
Moves(i) ==
    \/ RowOf(i)' = RowOf(i) /\ told'[i] = told[i]
    \/ RowOf(i) = NoRow /\ RowOf(i)' = NewReview /\ told'[i] = told[i]
    \/ \E r \in Reviewer :
          /\ RowOf(i).status = "OPEN" /\ told'[i] = told[i] \cup {r}
          /\ RowOf(i)' = [RowOf(i) EXCEPT !.status = "IN_REVIEW", !.reviewer = r]
          /\ auth => r \in {NameOf[q] : q \in Principal}
    \/ /\ RowOf(i).status = "IN_REVIEW" /\ told'[i] = {}
       /\ RowOf(i)' = [RowOf(i) EXCEPT !.status = "OPEN", !.reviewer = None]
    \/ \E x \in Resolution :
          /\ RowOf(i).status = "IN_REVIEW" /\ told'[i] = told[i]
          /\ RowOf(i)' = [RowOf(i) EXCEPT !.status = "RESOLVED", !.resolution = x]

Tables == rows \in TableOf(Subject) /\ frows \in TableOf(Finding)

\* A row of either table is that of a review, and the reverse.
LEMMA RowsOfReviews ==
  ASSUME Tables
  PROVE  /\ \A i \in Reviews : /\ i[2] \in Index /\ RowOf(i) \in Review \cup {NoRow}
                               /\ i[1] \in Subject \/ i[1] \in Finding
         /\ \A v \in Subject, k \in Index :
               <<v, k>> \in Reviews /\ RowOf(<<v, k>>) = rows[v][k]
         /\ \A f \in Finding, k \in Index :
               <<f, k>> \in Reviews /\ RowOf(<<f, k>>) = frows[f][k]
  <1>1. /\ \A v \in Subject, k \in Index : rows[v][k] \in Review \cup {NoRow}
        /\ \A f \in Finding, k \in Index : frows[f][k] \in Review \cup {NoRow}
    BY DEF Tables, TableOf
  <1>2. \A i \in Reviews : i[2] \in Index /\ i[1] \in Subject \cup Finding
    BY DEF Reviews
  <1>3. \A s \in Subject \cup Finding, k \in Index : <<s, k>> \in Reviews
    BY DEF Reviews
  <1> QED BY <1>1, <1>2, <1>3 DEF RowOf

\* An endpoint writes one row of one table.
RowUpdated(i, new) ==
    \/ i[1] \in Subject /\ UpdatedIn(rows, rows', i[1], i[2], new) /\ UNCHANGED frows
    \/ i[1] \in Finding /\ UpdatedIn(frows, frows', i[1], i[2], new) /\ UNCHANGED rows

\* The other reviews stay as they are.
LEMMA RowUpdate ==
  ASSUME Tables, NEW i \in Reviews, NEW new \in Review, RowUpdated(i, new)
  PROVE  /\ Tables' /\ RowOf(i)' = new
         /\ \A j \in Reviews : j # i => RowOf(j)' = RowOf(j)
  <1>1. \A j \in Reviews : /\ j[2] \in Index /\ j[1] \in Subject \cup Finding
                           /\ j # i => ~ (j[1] = i[1] /\ j[2] = i[2])
    BY DEF Reviews
  <1>2. CASE /\ i[1] \in Subject /\ UpdatedIn(rows, rows', i[1], i[2], new)
             /\ UNCHANGED frows
    <2>1. /\ rows' \in TableOf(Subject) /\ rows'[i[1]][i[2]] = new
          /\ \A v \in Subject, k \in Index :
                ~ (v = i[1] /\ k = i[2]) => rows'[v][k] = rows[v][k]
      BY <1>1, <1>2, Update DEF Tables
    <2> QED BY <1>1, <1>2, <2>1 DEF Tables, RowOf
  <1>3. CASE /\ i[1] \in Finding /\ UpdatedIn(frows, frows', i[1], i[2], new)
             /\ UNCHANGED rows
    <2>1. /\ frows' \in TableOf(Finding) /\ frows'[i[1]][i[2]] = new
          /\ \A v \in Finding, k \in Index :
                ~ (v = i[1] /\ k = i[2]) => frows'[v][k] = frows[v][k]
      BY <1>1, <1>3, Update DEF Tables
    <2>2. i[1] \notin Subject
      BY <1>3
    <2> QED BY <1>1, <1>3, <2>1, <2>2 DEF Tables, RowOf
  <1> QED BY <1>2, <1>3 DEF RowUpdated

\* The three statements of the endpoints as such.
LEMMA Statements ==
  ASSUME Tables, NEW i \in Reviews
  PROVE  /\ \A r \in Reviewer : RepositoryClaim(i, r) =>
               /\ RowOf(i).status = "OPEN" /\ RowOf(i) \in Review
               /\ RowUpdated(i, [RowOf(i) EXCEPT !.status = "IN_REVIEW", !.reviewer = r])
         /\ RepositoryRelease(i) =>
               /\ RowOf(i).status = "IN_REVIEW" /\ RowOf(i) \in Review
               /\ RowUpdated(i, [RowOf(i) EXCEPT !.status = "OPEN", !.reviewer = None])
         /\ \A r \in Reviewer, x \in Resolution : RepositoryResolve(i, r, x) =>
               /\ RowOf(i).status = "IN_REVIEW" /\ RowOf(i) \in Review
               /\ RowUpdated(i, [RowOf(i) EXCEPT !.status = "RESOLVED", !.resolution = x])
  <1>1. /\ i[1] \in Subject => RowOf(i) = rows[i[1]][i[2]]
        /\ i[1] \in Finding => RowOf(i) = frows[i[1]][i[2]]
    BY DEF RowOf
  <1>2. RowOf(i) \in Review \cup {NoRow} /\ NoRow.status = "NONE"
    BY RowsOfReviews DEF NoRow
  <1>3. ASSUME NEW r \in Reviewer, RepositoryClaim(i, r)
        PROVE  /\ RowOf(i).status = "OPEN"
               /\ RowUpdated(i, [RowOf(i) EXCEPT !.status = "IN_REVIEW", !.reviewer = r])
    BY <1>1, <1>3
    DEF RepositoryClaim, claim, Findings!claim, vars, findingQueue, RowUpdated, UpdatedIn
  <1>4. ASSUME RepositoryRelease(i)
        PROVE  /\ RowOf(i).status = "IN_REVIEW"
               /\ RowUpdated(i, [RowOf(i) EXCEPT !.status = "OPEN", !.reviewer = None])
    BY <1>1, <1>4
    DEF RepositoryRelease, release, Findings!release, vars, findingQueue, RowUpdated, UpdatedIn
  <1>5. ASSUME NEW r \in Reviewer, NEW x \in Resolution, RepositoryResolve(i, r, x)
        PROVE  /\ RowOf(i).status = "IN_REVIEW"
               /\ RowUpdated(i, [RowOf(i) EXCEPT !.status = "RESOLVED", !.resolution = x])
    BY <1>1, <1>5
    DEF RepositoryResolve, resolve, Findings!resolve, vars, findingQueue, RowUpdated, UpdatedIn
  <1>6. RowOf(i).status \in {"OPEN", "IN_REVIEW"} => RowOf(i) \in Review
    BY <1>2
  <1> QED BY <1>3, <1>4, <1>5, <1>6

\* A step that creates reviews, if it does anything to them, tells nobody.
LEMMA CreateMoves ==
  ASSUME Tables, UNCHANGED told,
         \/ UNCHANGED <<rows, frows>>
         \/ (\E v \in Subject : create(v)) /\ UNCHANGED frows
         \/ (\E f \in Finding : Findings!create(f)) /\ UNCHANGED rows
  PROVE  Tables' /\ \A i \in Reviews : Moves(i)
  <1>1. \A i \in Reviews : i[2] \in Index /\ i[1] \in Subject \cup Finding
    BY DEF Reviews
  <1>2. ASSUME NEW v \in Subject, create(v), UNCHANGED frows
        PROVE  Tables' /\ \A i \in Reviews : Moves(i)
    <2>1. CreatedIn(rows, rows', v)
      BY <1>2, Creates
    <2>2. /\ rows' \in TableOf(Subject)
          /\ \A r \in Subject, j \in Index : rows'[r][j] = rows[r][j] \/
                (rows[r][j] = NoRow /\ rows'[r][j] = NewReview)
      BY <2>1, Created DEF Tables
    <2> QED BY <1>1, <1>2, <2>2 DEF Tables, RowOf, Moves
  <1>3. ASSUME NEW f \in Finding, Findings!create(f), UNCHANGED rows
        PROVE  Tables' /\ \A i \in Reviews : Moves(i)
    <2>1. CreatedIn(frows, frows', f)
      BY <1>3, Creates
    <2>2. /\ frows' \in TableOf(Finding)
          /\ \A r \in Finding, j \in Index : frows'[r][j] = frows[r][j] \/
                (frows[r][j] = NoRow /\ frows'[r][j] = NewReview)
      BY <2>1, Created DEF Tables
    <2> QED BY <1>1, <1>3, <2>2 DEF Tables, RowOf, Moves
  <1>4. CASE UNCHANGED <<rows, frows>>
    BY <1>4 DEF Tables, RowOf, Moves
  <1> QED BY <1>2, <1>3, <1>4

\* The endpoints' steps.
LEMMA EndpointMoves ==
  ASSUME Tables, AuthOK, told \in [Reviews -> SUBSET Reviewer], NEW i \in Reviews, HREndpoint(i)
  PROVE  /\ Tables' /\ told' \in [Reviews -> SUBSET Reviewer]
         /\ \A j \in Reviews : Moves(j)
  <1>1. CASE release_review(i)
    <2>1. /\ RowOf(i).status = "IN_REVIEW" /\ RowOf(i) \in Review
          /\ RowUpdated(i, [RowOf(i) EXCEPT !.status = "OPEN", !.reviewer = None])
          /\ told' = [told EXCEPT ![i] = {}]
      BY <1>1, Statements DEF release_review
    <2>2. [RowOf(i) EXCEPT !.status = "OPEN", !.reviewer = None] \in Review
      BY <2>1 DEF Review, ReviewStatus
    <2>3. /\ Tables' /\ RowOf(i)' = [RowOf(i) EXCEPT !.status = "OPEN", !.reviewer = None]
          /\ \A j \in Reviews : j # i => RowOf(j)' = RowOf(j)
      BY <2>1, <2>2, RowUpdate
    <2>4. /\ told' \in [Reviews -> SUBSET Reviewer] /\ told'[i] = {}
          /\ \A j \in Reviews : j # i => told'[j] = told[j]
      BY <2>1
    <2> QED BY <2>1, <2>3, <2>4 DEF Moves
  <1>2. ASSUME NEW p \in Caller, NEW name \in Reviewer \cup {None}, claim_review(p, name, i)
        PROVE  /\ Tables' /\ told' \in [Reviews -> SUBSET Reviewer]
               /\ \A j \in Reviews : Moves(j)
    <2>1. PICK r \in resolve_reviewer(p, name) :
             RepositoryClaim(i, r) /\ told' = [told EXCEPT ![i] = @ \cup {r}]
      BY <1>2 DEF claim_review
    <2>2. r \in Reviewer /\ (auth => r \in {NameOf[q] : q \in Principal})
      BY Names
    <2>3. /\ RowOf(i).status = "OPEN" /\ RowOf(i) \in Review
          /\ RowUpdated(i, [RowOf(i) EXCEPT !.status = "IN_REVIEW", !.reviewer = r])
      BY <2>1, <2>2, Statements
    <2>4. [RowOf(i) EXCEPT !.status = "IN_REVIEW", !.reviewer = r] \in Review
      BY <2>2, <2>3 DEF Review, ReviewStatus
    <2>5. /\ Tables' /\ RowOf(i)' = [RowOf(i) EXCEPT !.status = "IN_REVIEW", !.reviewer = r]
          /\ \A j \in Reviews : j # i => RowOf(j)' = RowOf(j)
      BY <2>3, <2>4, RowUpdate
    <2>6. /\ told' \in [Reviews -> SUBSET Reviewer] /\ told'[i] = told[i] \cup {r}
          /\ \A j \in Reviews : j # i => told'[j] = told[j]
      BY <2>1, <2>2
    <2> QED BY <2>2, <2>3, <2>5, <2>6 DEF Moves
  <1>3. ASSUME NEW p \in Caller, NEW name \in Reviewer \cup {None}, NEW x \in Resolution,
               resolve_review(p, name, i, x)
        PROVE  /\ Tables' /\ told' \in [Reviews -> SUBSET Reviewer]
               /\ \A j \in Reviews : Moves(j)
    <2>1. PICK r \in resolve_reviewer(p, name) : RepositoryResolve(i, r, x)
      BY <1>3 DEF resolve_review
    <2>2. told' = told
      BY <1>3 DEF resolve_review
    <2>3. /\ RowOf(i).status = "IN_REVIEW" /\ RowOf(i) \in Review
          /\ RowUpdated(i, [RowOf(i) EXCEPT !.status = "RESOLVED", !.resolution = x])
      BY <2>1, Names, Statements
    <2>4. [RowOf(i) EXCEPT !.status = "RESOLVED", !.resolution = x] \in Review
      BY <2>3 DEF Review, ReviewStatus
    <2>5. /\ Tables' /\ RowOf(i)' = [RowOf(i) EXCEPT !.status = "RESOLVED", !.resolution = x]
          /\ \A j \in Reviews : j # i => RowOf(j)' = RowOf(j)
      BY <2>3, <2>4, RowUpdate
    <2> QED BY <2>2, <2>3, <2>5 DEF Moves
  <1> QED BY <1>1, <1>2, <1>3 DEF HREndpoint

\* What the tool does to the tables.
LEMMA ToolCreates ==
  ASSUME NEW b \in Run, HRTool(b)
  PROVE  /\ UNCHANGED told
         /\ \/ UNCHANGED <<rows, frows>>
            \/ (\E v \in Subject : create(v)) /\ UNCHANGED frows
            \/ (\E f \in Finding : Findings!create(f)) /\ UNCHANGED rows
  BY DEF HRTool, StartMain, FinishVerdicts, StartFindings, FinishMain, RecordFails,
     KillMain, ReconcileVerdict, ReconcileFinding, StartRun, FinishRun, KillRun, Reconcile,
     ReconcileError, Findings!StartRun, Findings!FinishRun, Findings!KillRun,
     Findings!Reconcile, Findings!ReconcileError, vars, findingQueue

\* Every step moves every review so.
LEMMA StepMoves ==
  ASSUME Tables, AuthOK, told \in [Reviews -> SUBSET Reviewer], [HRNext]_hvars
  PROVE  /\ Tables' /\ told' \in [Reviews -> SUBSET Reviewer]
         /\ \A i \in Reviews : Moves(i)
  <1>1. CASE HRWritePath
    <2>1. /\ UNCHANGED told
          /\ \/ UNCHANGED <<rows, frows>>
             \/ (\E v \in Subject : create(v)) /\ UNCHANGED frows
             \/ (\E f \in Finding : Findings!create(f)) /\ UNCHANGED rows
      BY <1>1 DEF HRWritePath, WritePath, RecordSubject, QueueLive, QueueLost,
         Findings!WritePath, Findings!RecordSubject, Findings!QueueLive, Findings!QueueLost,
         vars, findingQueue
    <2> QED BY <2>1, CreateMoves
  <1>2. CASE \E b \in Run : HRTool(b)
    BY <1>2, ToolCreates, CreateMoves
  <1>3. CASE \E i \in Reviews : HREndpoint(i)
    BY <1>3, EndpointMoves
  <1>4. CASE UNCHANGED hvars
    <2>1. UNCHANGED <<rows, frows>> /\ UNCHANGED told
      BY <1>4 DEF hvars, vars, findingQueue
    <2> QED BY <2>1, CreateMoves
  <1> QED BY <1>1, <1>2, <1>3, <1>4 DEF HRNext
-----------------------------------------------------------------------------
\* Progress of the part of the tool that works through the findings.
FindingProgress ==
    \A b \in Run :
        /\ frun[b] = "running" /\ ~ ferrored[b] =>
              \A f \in fscope[b] \ ftodo[b] : Findings!Reviewed(f)
        /\ frun[b] = "exit 0" => \A f \in fscope[b] : Findings!Reviewed(f)

\* What main remembers of its parts.
MainProgress ==
    \A b \in Run :
        /\ main[b] \in {"between", "findings", "exit 0"} /\ ~ errored[b] => run[b] = "exit 0"
        /\ main[b] = "exit 0" => ~ errored[b] /\ frun[b] = "exit 0"

\* An open review has no reviewer.
OpenUnclaimed == \A i \in Reviews : RowOf(i).status = "OPEN" => RowOf(i).reviewer = None

HRInv ==
    /\ HRTypeOK /\ OpenUnclaimed /\ AnswersAgree
    /\ Progress /\ FindingProgress /\ MainProgress

\* The two queues are empty and the tool has not run.
LEMMA HRInitInv == HRInit => HRInv
  <1> SUFFICES ASSUME HRInit PROVE HRInv
    OBVIOUS
  <1>1. TypeOK /\ Progress
    BY InitType DEF HRInit, Init, Progress
  <1>2. /\ frows = [f \in Finding |-> [k \in Index |-> NoRow]]
        /\ flive = [f \in Finding |-> "absent"] /\ frun = [b \in Run |-> "idle"]
        /\ fscope = [b \in Run |-> {}] /\ ftodo = [b \in Run |-> {}]
        /\ ferrored = [b \in Run |-> FALSE]
    BY SameDefinitions DEF HRInit, Findings!Init
  <1>3. Findings!TypeOK /\ FindingProgress
    BY <1>2, SameDefinitions DEF Findings!TypeOK, FindingProgress
  <1>4. \A b \in Run : run[b] = "idle" /\ frun[b] = "idle" /\ main[b] = "idle"
    BY <1>2 DEF HRInit, Init
  <1>5. HRTypeOK
    BY <1>1, <1>3, <1>4 DEF HRInit, HRTypeOK
  <1>6. \A i \in Reviews : RowOf(i) = NoRow
    BY <1>2 DEF HRInit, Init, Reviews, RowOf
  <1>7. OpenUnclaimed /\ AnswersAgree
    BY <1>6 DEF HRInit, OpenUnclaimed, AnswersAgree, NoRow
  <1> QED BY <1>1, <1>3, <1>4, <1>5, <1>7 DEF HRInv, MainProgress

\* What a step does to a table keeps a review there.
LEMMA StillThere ==
  ASSUME Tables, NEW i \in Reviews, Moves(i), RowOf(i) # NoRow
  PROVE  RowOf(i)' # NoRow
  <1>1. RowOf(i) \in Review
    BY RowsOfReviews
  <1> QED BY <1>1 DEF Moves, Review, NoRow

\* HRTypeOK, spelled out.
LEMMA Typed ==
  ASSUME HRTypeOK
  PROVE  /\ TypeOK /\ Findings!TypeOK /\ Tables /\ AuthOK
         /\ told \in [Reviews -> SUBSET Reviewer]
  BY SameDefinitions DEF HRTypeOK, TypeOK, Findings!TypeOK, Tables, TableOf, AuthOK

\* The steps' effect on what callers were told.
LEMMA StepAnswers ==
  ASSUME HRInv, [HRNext]_hvars
  PROVE  OpenUnclaimed' /\ AnswersAgree'
  <1>1. /\ Tables /\ Tables' /\ told' \in [Reviews -> SUBSET Reviewer]
        /\ \A i \in Reviews : Moves(i)
    BY Typed, StepMoves DEF HRInv
  <1>2. auth' = auth
    BY DEF HRNext, hvars, HRWritePath, HRTool, StartMain, FinishVerdicts, StartFindings,
       FinishMain, RecordFails, KillMain, ReconcileVerdict, ReconcileFinding, HREndpoint,
       release_review, claim_review, resolve_review
  <1>3. ASSUME NEW i \in Reviews
        PROVE  /\ RowOf(i)'.status = "OPEN" => RowOf(i)'.reviewer = None
               /\ told'[i] = IF RowOf(i)' = NoRow THEN {} ELSE {RowOf(i)'.reviewer} \ {None}
               /\ auth => told'[i] \subseteq {NameOf[p] : p \in Principal}
    <2> DEFINE old == RowOf(i)
               new == RowOf(i)'
    <2>1. /\ old \in Review \cup {NoRow} /\ Moves(i)
          /\ old.status = "OPEN" => old.reviewer = None
          /\ told[i] = IF old = NoRow THEN {} ELSE {old.reviewer} \ {None}
          /\ auth => told[i] \subseteq {NameOf[p] : p \in Principal}
      BY <1>1, RowsOfReviews DEF HRInv, OpenUnclaimed, AnswersAgree
    <2>2. CASE new = old /\ told'[i] = told[i]
      BY <2>1, <2>2
    <2>3. CASE old = NoRow /\ new = NewReview /\ told'[i] = told[i]
      BY <2>1, <2>3 DEF NewReview
    <2>4. ASSUME NEW r \in Reviewer, old.status = "OPEN", told'[i] = told[i] \cup {r},
                 new = [old EXCEPT !.status = "IN_REVIEW", !.reviewer = r],
                 auth => r \in {NameOf[q] : q \in Principal}
          PROVE  /\ new.status = "OPEN" => new.reviewer = None
                 /\ told'[i] = IF new = NoRow THEN {} ELSE {new.reviewer} \ {None}
                 /\ auth => told'[i] \subseteq {NameOf[p] : p \in Principal}
      <3>1. old \in Review
        BY <2>1, <2>4 DEF NoRow
      <3>2. new.status = "IN_REVIEW" /\ new.reviewer = r /\ new # NoRow
        BY <2>4, <3>1 DEF Review, NoRow
      <3>3. told[i] = {}
        BY <2>1, <2>4, <3>1
      <3>4. r # None
        OBVIOUS
      <3> QED BY <2>4, <3>2, <3>3, <3>4
    <2>5. CASE /\ old.status = "IN_REVIEW" /\ told'[i] = {}
               /\ new = [old EXCEPT !.status = "OPEN", !.reviewer = None]
      <3>1. old \in Review
        BY <2>1, <2>5 DEF NoRow
      <3>2. new.reviewer = None
        BY <2>5, <3>1 DEF Review
      <3> QED BY <2>5, <3>2
    <2>6. ASSUME NEW x \in Resolution, old.status = "IN_REVIEW", told'[i] = told[i],
                 new = [old EXCEPT !.status = "RESOLVED", !.resolution = x]
          PROVE  /\ new.status = "OPEN" => new.reviewer = None
                 /\ told'[i] = IF new = NoRow THEN {} ELSE {new.reviewer} \ {None}
                 /\ auth => told'[i] \subseteq {NameOf[p] : p \in Principal}
      <3>1. old \in Review /\ old # NoRow
        BY <2>1, <2>6 DEF NoRow
      <3>2. new.status = "RESOLVED" /\ new.reviewer = old.reviewer /\ new # NoRow
        BY <2>6, <3>1 DEF Review, NoRow
      <3> QED BY <2>1, <2>6, <3>1, <3>2
    <2> QED BY <2>1, <2>2, <2>3, <2>4, <2>5, <2>6 DEF Moves
  <1> QED BY <1>2, <1>3 DEF OpenUnclaimed, AnswersAgree

\* Where main and both parts of the tool are.
toolState == <<tool, frun, fscope, ftodo, ferrored, main>>

\* The reviewers leave the tool alone, and the write paths.
LEMMA EndpointsLeaveTool ==
  ASSUME NEW i \in Reviews, HREndpoint(i)
  PROVE  UNCHANGED <<toolState, live, flive, auth>>
  <1>1. CASE release_review(i)
    BY <1>1 DEF release_review, RepositoryRelease, release, Findings!release, Findings!tool,
       vars, tool, findingQueue, toolState
  <1>2. ASSUME NEW p \in Caller, NEW name \in Reviewer \cup {None}, claim_review(p, name, i)
        PROVE  UNCHANGED <<toolState, live, flive, auth>>
    BY <1>2 DEF claim_review, RepositoryClaim, claim, Findings!claim, Findings!tool,
       vars, tool, findingQueue, toolState
  <1>3. ASSUME NEW p \in Caller, NEW name \in Reviewer \cup {None}, NEW x \in Resolution,
               resolve_review(p, name, i, x)
        PROVE  UNCHANGED <<toolState, live, flive, auth>>
    BY <1>3 DEF resolve_review, RepositoryResolve, resolve, Findings!resolve, Findings!tool,
       vars, tool, findingQueue, toolState
  <1> QED BY <1>1, <1>2, <1>3 DEF HREndpoint

\* So do the write paths.
LEMMA OthersLeaveTool ==
  ASSUME HRWritePath \/ (\E i \in Reviews : HREndpoint(i)) \/ UNCHANGED hvars
  PROVE  UNCHANGED toolState
  <1>1. CASE \E v \in Subject : WritePath(v) /\ UNCHANGED <<findingQueue, main>>
    BY <1>1 DEF WritePath, RecordSubject, QueueLive, QueueLost, tool, findingQueue, toolState
  <1>2. CASE \E f \in Finding : Findings!WritePath(f) /\ UNCHANGED <<vars, main>>
    BY <1>2 DEF Findings!WritePath, Findings!RecordSubject, Findings!QueueLive,
       Findings!QueueLost, Findings!tool, vars, tool, toolState
  <1>3. CASE UNCHANGED hvars
    BY <1>3 DEF hvars, vars, tool, findingQueue, toolState
  <1> QED BY <1>1, <1>2, <1>3, EndpointsLeaveTool DEF HRWritePath

\* A step of the tool, run by run: the parts it is in.
ToolTyped ==
    /\ flive \in [Finding -> {"absent", "committed", "done"}]
    /\ frun \in [Run -> {"idle", "running", "exit 0", "exit 1"}]
    /\ fscope \in [Run -> SUBSET Finding] /\ ftodo \in [Run -> SUBSET Finding]
    /\ ferrored \in [Run -> BOOLEAN]
    /\ main \in [Run -> {"idle", "verdicts", "between", "findings", "exit 0", "exit 1"}]
    /\ \A b \in Run : /\ run[b] = "running" <=> main[b] = "verdicts"
                      /\ frun[b] = "running" <=> main[b] = "findings"

\* A step of the tool keeps all that in its type.
LEMMA ToolStepTyped ==
  ASSUME TypeOK, ToolTyped, NEW b \in Run, HRTool(b)
  PROVE  ToolTyped'
  <1>1. CASE StartMain(b)
    BY <1>1 DEF StartMain, StartRun, findingQueue, ToolTyped, TypeOK
  <1>2. CASE FinishVerdicts(b)
    BY <1>2 DEF FinishVerdicts, FinishRun, findingQueue, ToolTyped, TypeOK
  <1>3. CASE StartFindings(b)
    BY <1>3 DEF StartFindings, Findings!StartRun, vars, ToolTyped, TypeOK
  <1>4. CASE FinishMain(b)
    BY <1>4 DEF FinishMain, Findings!FinishRun, vars, ToolTyped, TypeOK
  <1>5. CASE RecordFails(b)
    <2>1. ASSUME NEW v \in Subject, ReconcileError(b, v), UNCHANGED findingQueue, UNCHANGED main
          PROVE  ToolTyped'
      BY <2>1 DEF ReconcileError, findingQueue, ToolTyped
    <2>2. ASSUME NEW f \in Finding, Findings!ReconcileError(b, f), UNCHANGED vars, UNCHANGED main
          PROVE  ToolTyped'
      <3>1. /\ flive' = flive /\ frun' = frun /\ fscope' = fscope /\ run' = run /\ main' = main
            /\ ftodo' = [ftodo EXCEPT ![b] = @ \ {f}]
            /\ ferrored' = [ferrored EXCEPT ![b] = TRUE]
        BY <2>2 DEF Findings!ReconcileError, vars
      <3>2. ftodo' \in [Run -> SUBSET Finding] /\ ferrored' \in [Run -> BOOLEAN]
        BY <3>1 DEF ToolTyped
      <3> QED BY <3>1, <3>2 DEF ToolTyped
    <2> QED BY <1>5, <2>1, <2>2 DEF RecordFails
  <1>6. CASE KillMain(b)
    <2>1. main' = [main EXCEPT ![b] = "exit 1"]
      BY <1>6 DEF KillMain
    <2>2. CASE main[b] = "verdicts" /\ KillRun(b) /\ UNCHANGED findingQueue
      BY <2>1, <2>2 DEF KillRun, findingQueue, ToolTyped, TypeOK
    <2>3. CASE main[b] = "findings" /\ Findings!KillRun(b) /\ UNCHANGED vars
      <3>1. /\ flive' = flive /\ fscope' = fscope /\ ferrored' = ferrored /\ run' = run
            /\ frun' = [frun EXCEPT ![b] = "exit 1"] /\ ftodo' = [ftodo EXCEPT ![b] = {}]
        BY <2>3 DEF Findings!KillRun, vars
      <3>2. ftodo' \in [Run -> SUBSET Finding]
        BY <3>1 DEF ToolTyped
      <3> QED BY <2>1, <2>3, <3>1, <3>2 DEF ToolTyped
    <2>4. CASE main[b] = "between" /\ UNCHANGED <<vars, findingQueue>>
      BY <2>1, <2>4 DEF vars, findingQueue, ToolTyped
    <2> QED BY <1>6, <2>2, <2>3, <2>4 DEF KillMain
  <1>7. CASE \E v \in Subject : ReconcileVerdict(b, v)
    <2>1. UNCHANGED <<run, findingQueue, main>>
      BY <1>7 DEF ReconcileVerdict, Reconcile
    <2> QED BY <2>1 DEF findingQueue, ToolTyped
  <1>8. CASE \E f \in Finding : ReconcileFinding(b, f)
    <2>1. PICK f \in Finding : ReconcileFinding(b, f)
      BY <1>8
    <2>2. /\ flive' = flive /\ frun' = frun /\ fscope' = fscope /\ ferrored' = ferrored
          /\ run' = run /\ main' = main /\ ftodo' = [ftodo EXCEPT ![b] = @ \ {f}]
      BY <2>1 DEF ReconcileFinding, Findings!Reconcile, vars
    <2>3. ftodo' \in [Run -> SUBSET Finding]
      BY <2>2 DEF ToolTyped
    <2> QED BY <2>2, <2>3 DEF ToolTyped
  <1> QED BY <1>1, <1>2, <1>3, <1>4, <1>5, <1>6, <1>7, <1>8 DEF HRTool

\* Both queues and main keep their types.
LEMMA StepHRType ==
  ASSUME HRTypeOK, [HRNext]_hvars
  PROVE  HRTypeOK'
  <1>1. TypeOK' /\ Tables' /\ told' \in [Reviews -> SUBSET Reviewer] /\ AuthOK'
    BY Typed, VerdictStep, StepType, StepMoves, AuthStep
  <1>2. TypeOK /\ ToolTyped
    BY DEF HRTypeOK, ToolTyped, Findings!TypeOK
  <1>3. ToolTyped'
    <2>1. CASE \E b \in Run : HRTool(b)
      BY <1>2, <2>1, ToolStepTyped
    <2>2. CASE HRWritePath
      <3>1. UNCHANGED toolState
        BY <2>2, OthersLeaveTool
      <3>2. flive' \in [Finding -> {"absent", "committed", "done"}]
        <4>1. CASE flive' = flive
          BY <1>2, <4>1 DEF ToolTyped
        <4>2. ASSUME NEW f \in Finding, Findings!WritePath(f)
              PROVE  flive' = [flive EXCEPT ![f] = "committed"]
                     \/ flive' = [flive EXCEPT ![f] = "done"]
          BY <4>2 DEF Findings!WritePath, Findings!RecordSubject, Findings!QueueLive,
             Findings!QueueLost
        <4>3. flive' = flive \/ \E f \in Finding : Findings!WritePath(f)
          BY <2>2 DEF HRWritePath, findingQueue
        <4>4. ASSUME NEW f \in Finding, Findings!WritePath(f)
              PROVE  flive' \in [Finding -> {"absent", "committed", "done"}]
          <5>1. flive \in [Finding -> {"absent", "committed", "done"}]
            BY <1>2 DEF ToolTyped
          <5> QED  BY ONLY <4>2, <4>4, <5>1
        <4> QED  BY <1>2, <4>1, <4>3, <4>4 DEF ToolTyped
      <3> QED BY <1>2, <3>1, <3>2 DEF toolState, tool, ToolTyped
    <2>3. CASE (\E i \in Reviews : HREndpoint(i)) \/ UNCHANGED hvars
      <3>1. UNCHANGED toolState
        BY <2>3, OthersLeaveTool
      <3>2. flive' = flive
        BY <2>3, EndpointsLeaveTool DEF hvars, findingQueue
      <3> QED BY <1>2, <3>1, <3>2 DEF toolState, tool, ToolTyped
    <2> QED BY <2>1, <2>2, <2>3 DEF HRNext
  <1>4. Findings!TypeOK'
    BY <1>1, <1>3, SameDefinitions DEF ToolTyped, Findings!TypeOK, Tables, TableOf
  <1> QED BY <1>1, <1>3, <1>4 DEF HRTypeOK, ToolTyped, AuthOK
-----------------------------------------------------------------------------
\* A step of the tool or of anyone else keeps the bookkeeping of the findings'
\* part truthful.
LEMMA StepFindingProgress ==
  ASSUME HRTypeOK, FindingProgress, [HRNext]_hvars
  PROVE  FindingProgress'
  <1>1. Tables /\ Tables' /\ \A i \in Reviews : Moves(i)
    BY Typed, StepMoves
  <1>2. \A f \in Finding : Findings!Reviewed(f) => Findings!Reviewed(f)'
    <2> SUFFICES ASSUME NEW f \in Finding, Findings!Reviewed(f)
                 PROVE  Findings!Reviewed(f)'
      OBVIOUS
    <2>1. PICK k \in Index : frows[f][k] # NoRow
      BY SameDefinitions DEF Findings!Reviewed, Findings!Exists
    <2>2. <<f, k>> \in Reviews /\ RowOf(<<f, k>>) = frows[f][k]
      BY <1>1, RowsOfReviews
    <2>3. RowOf(<<f, k>>)' # NoRow
      BY <1>1, <2>1, <2>2, StillThere
    <2>4. f \notin Subject
      OBVIOUS
    <2>5. frows'[f][k] # NoRow
      BY <2>3, <2>4 DEF RowOf
    <2> QED BY <2>5, SameDefinitions DEF Findings!Reviewed, Findings!Exists
  <1>3. /\ frun \in [Run -> {"idle", "running", "exit 0", "exit 1"}]
        /\ fscope \in [Run -> SUBSET Finding] /\ ftodo \in [Run -> SUBSET Finding]
        /\ ferrored \in [Run -> BOOLEAN]
    BY DEF HRTypeOK, Findings!TypeOK
  <1> SUFFICES ASSUME NEW b \in Run
               PROVE  /\ frun'[b] = "running" /\ ~ ferrored'[b] =>
                            \A f \in fscope'[b] \ ftodo'[b] : Findings!Reviewed(f)'
                      /\ frun'[b] = "exit 0" => \A f \in fscope'[b] : Findings!Reviewed(f)'
    BY DEF FindingProgress
  <1>4. CASE UNCHANGED <<frun[b], fscope[b], ftodo[b], ferrored[b]>>
    BY <1>2, <1>3, <1>4 DEF FindingProgress
  <1>5. CASE StartFindings(b)
    BY <1>3, <1>5 DEF StartFindings, Findings!StartRun
  <1>6. CASE FinishMain(b)
    BY <1>2, <1>3, <1>6 DEF FinishMain, Findings!FinishRun, FindingProgress
  <1>7. CASE KillMain(b)
    <2>1. CASE Findings!KillRun(b)
      BY <1>3, <2>1 DEF Findings!KillRun
    <2>2. CASE UNCHANGED findingQueue
      BY <1>4, <2>2 DEF findingQueue
    <2> QED BY <1>7, <2>1, <2>2 DEF KillMain
  <1>8. ASSUME NEW g \in Finding, ReconcileFinding(b, g)
        PROVE  /\ frun'[b] = "running" /\ ~ ferrored'[b] =>
                     \A f \in fscope'[b] \ ftodo'[b] : Findings!Reviewed(f)'
               /\ frun'[b] = "exit 0" => \A f \in fscope'[b] : Findings!Reviewed(f)'
    <2>1. CreatedIn(frows, frows', g)
      BY <1>8, Creates DEF ReconcileFinding, Findings!Reconcile
    <2>2. Findings!Reviewed(g)'
      BY <1>1, <2>1, Created, SameDefinitions DEF Tables, Findings!Reviewed, Findings!Exists
    <2> QED BY <1>2, <1>3, <1>8, <2>2 DEF ReconcileFinding, Findings!Reconcile, FindingProgress
  <1>9. CASE RecordFails(b)
    <2>1. ASSUME NEW f \in Finding, Findings!ReconcileError(b, f)
          PROVE  ferrored'[b] /\ frun'[b] = "running"
      BY <1>3, <2>1 DEF Findings!ReconcileError
    <2>2. CASE UNCHANGED findingQueue
      BY <1>4, <2>2 DEF findingQueue
    <2> QED BY <1>9, <2>1, <2>2 DEF RecordFails
  <1>10. CASE UNCHANGED findingQueue
    BY <1>4, <1>10 DEF findingQueue
  <1>11. ASSUME NEW c \in Run, HRTool(c), c # b
         PROVE  UNCHANGED <<frun[b], fscope[b], ftodo[b], ferrored[b]>>
    BY <1>3, <1>11 DEF HRTool, StartMain, FinishVerdicts, StartFindings, FinishMain, RecordFails,
       KillMain, ReconcileVerdict, ReconcileFinding, Findings!StartRun, Findings!FinishRun,
       Findings!KillRun, Findings!Reconcile, Findings!ReconcileError, findingQueue
  <1>12. CASE HRWritePath \/ (\E i \in Reviews : HREndpoint(i)) \/ UNCHANGED hvars
    BY <1>4, <1>12, OthersLeaveTool DEF toolState
  <1>13. CASE HRTool(b)
    <2>1. CASE StartMain(b) \/ FinishVerdicts(b) \/ \E v \in Subject : ReconcileVerdict(b, v)
      BY <1>10, <2>1 DEF StartMain, FinishVerdicts, ReconcileVerdict
    <2> QED BY <1>13, <1>5, <1>6, <1>7, <1>8, <1>9, <2>1 DEF HRTool
  <1> QED BY <1>4, <1>11, <1>12, <1>13 DEF HRNext

\* The status of main tells of both parts.
LEMMA StepMainProgress ==
  ASSUME HRTypeOK, MainProgress, [HRNext]_hvars
  PROVE  MainProgress'
  <1>1. /\ TypeOK /\ ToolTyped
    BY DEF HRTypeOK, ToolTyped, Findings!TypeOK
  <1>2. /\ run \in [Run -> {"idle", "running", "exit 0", "exit 1"}]
        /\ errored \in [Run -> BOOLEAN]
        /\ frun \in [Run -> {"idle", "running", "exit 0", "exit 1"}]
        /\ ferrored \in [Run -> BOOLEAN]
        /\ main \in [Run -> {"idle", "verdicts", "between", "findings", "exit 0", "exit 1"}]
        /\ \A c \in Run : /\ run[c] = "running" <=> main[c] = "verdicts"
                          /\ frun[c] = "running" <=> main[c] = "findings"
    BY <1>1 DEF TypeOK, ToolTyped
  <1> SUFFICES ASSUME NEW b \in Run
               PROVE  /\ main'[b] \in {"between", "findings", "exit 0"} /\ ~ errored'[b] =>
                             run'[b] = "exit 0"
                      /\ main'[b] = "exit 0" => ~ errored'[b] /\ frun'[b] = "exit 0"
    BY DEF MainProgress
  <1>3. CASE UNCHANGED <<main[b], errored[b], run[b], frun[b]>>
    BY <1>3 DEF MainProgress
  <1>4. CASE StartMain(b)
    BY <1>2, <1>4 DEF StartMain
  <1>5. CASE FinishVerdicts(b)
    BY <1>2, <1>5 DEF FinishVerdicts, FinishRun
  <1>6. CASE StartFindings(b)
    BY <1>2, <1>6 DEF StartFindings, vars, MainProgress
  <1>7. CASE FinishMain(b)
    BY <1>2, <1>7 DEF FinishMain, Findings!FinishRun, vars, MainProgress
  <1>8. CASE KillMain(b)
    BY <1>2, <1>8 DEF KillMain
  <1>9. CASE RecordFails(b)
    <2>1. ASSUME NEW v \in Subject, ReconcileError(b, v), UNCHANGED main
          PROVE  main'[b] = "verdicts"
      BY <1>2, <2>1 DEF ReconcileError
    <2>2. ASSUME NEW f \in Finding, Findings!ReconcileError(b, f), UNCHANGED vars, UNCHANGED main
          PROVE  UNCHANGED <<main[b], errored[b], run[b], frun[b]>>
      BY <2>2 DEF Findings!ReconcileError, vars
    <2> QED BY <1>3, <1>9, <2>1, <2>2 DEF RecordFails
  <1>10. CASE \E v \in Subject : ReconcileVerdict(b, v)
    BY <1>3, <1>10 DEF ReconcileVerdict, Reconcile, findingQueue
  <1>11. CASE \E f \in Finding : ReconcileFinding(b, f)
    BY <1>3, <1>11 DEF ReconcileFinding, Findings!Reconcile, vars
  <1>12. ASSUME NEW c \in Run, HRTool(c), c # b
         PROVE  UNCHANGED <<main[b], errored[b], run[b], frun[b]>>
    BY <1>2, <1>12 DEF HRTool, StartMain, FinishVerdicts, StartFindings, FinishMain, RecordFails,
       KillMain, ReconcileVerdict, ReconcileFinding, StartRun, FinishRun, KillRun, Reconcile,
       ReconcileError, Findings!StartRun, Findings!FinishRun, Findings!KillRun,
       Findings!Reconcile, Findings!ReconcileError, vars, findingQueue
  <1>13. CASE HRWritePath \/ (\E i \in Reviews : HREndpoint(i)) \/ UNCHANGED hvars
    BY <1>3, <1>13, OthersLeaveTool DEF toolState, tool
  <1> QED
    BY <1>3, <1>4, <1>5, <1>6, <1>7, <1>8, <1>9, <1>10, <1>11, <1>12, <1>13 DEF HRNext, HRTool

\* HRInv is inductive.
LEMMA HRStepInv == HRInv /\ [HRNext]_hvars => HRInv'
  <1> SUFFICES ASSUME HRInv, [HRNext]_hvars PROVE HRInv'
    OBVIOUS
  <1>1. HRTypeOK' /\ OpenUnclaimed' /\ AnswersAgree'
    BY StepHRType, StepAnswers DEF HRInv
  <1>2. Progress'
    BY Typed, VerdictStep, StepProgress DEF HRInv
  <1>3. FindingProgress' /\ MainProgress'
    BY StepFindingProgress, StepMainProgress DEF HRInv
  <1> QED BY <1>1, <1>2, <1>3 DEF HRInv

\* Both queues, main and what callers were told keep their types.
THEOREM WorkflowTypeCorrect == HRSpec => []HRTypeOK
  <1>1. HRInv => HRTypeOK
    BY DEF HRInv
  <1> QED BY <1>1, HRInitInv, HRStepInv, PTL DEF HRSpec

\* An exit status of 0 tells of both parts of the tool, whatever failed, was
\* killed or raced it (main).
THEOREM TrustedMain == HRSpec => []MainExitZero
  <1>1. HRInv => MainExitZero
    BY DEF HRInv, Progress, FindingProgress, MainProgress, MainExitZero
  <1> QED BY <1>1, HRInitInv, HRStepInv, PTL DEF HRSpec

\* Whatever claims race, what callers were told is true of the row, and with
\* authentication on it is under a principal's own name (claim, resolve_reviewer).
THEOREM HonestAnswers == HRSpec => []AnswersAgree
  <1>1. HRInv => AnswersAgree
    BY DEF HRInv
  <1> QED BY <1>1, HRInitInv, HRStepInv, PTL DEF HRSpec
=============================================================================
