------------------------------ MODULE Reporting ------------------------------
(***************************************************************************)
(* The readers and the purger of the evidence: the monthly compliance      *)
(* report, the metrics endpoint and the retention tool, beside the writers *)
(* whose rows they count and delete.                                       *)
(*                                                                         *)
(* A row is [table, of, at]: what it is a row of, and the timestamp by     *)
(* which windows select it (created_at, evaluated_at, resolved_at), taken  *)
(* from the writer's clock some time before its transaction commits.       *)
(* Counts by status, policy or outcome are the rows that are counted; the  *)
(* filter on one system is left out.  A unit of time is both a month of    *)
(* the report and a day of the retention settings.                         *)
(***************************************************************************)
EXTENDS Integers, Sequences

CONSTANTS Event, PopulationFinding,
          LastDay,      \* bound of the clock
          ClockStops,   \* tool |-> bound: the day at which it stops beside that one
          Requested,    \* windows given on the command line of a report
          Retention,    \* purged table |-> days, or None: RETENTION_DAYS_*
          None

Day == 1 .. LastDay
Window == {w \in [start : 0 .. LastDay, end : Day] : w.start < w.end}
Tool == {"report", "metrics", "purge"}
PurgedTable == {"shadow_findings", "protected_attribute_resolutions"}

ASSUME ReportingAssumption ==
    /\ LastDay \in Nat \ {0} /\ ClockStops \in [Tool -> Day] /\ Requested \subseteq Window
    /\ Retention \in [PurgedTable -> Nat \cup {None}]

VARIABLES
    now,
    db,         \* committed rows
    pending,    \* transaction |-> the rows it will commit
    report,     \* the report being generated
    published,  \* the last report that was generated (history)
    metrics,    \* the request being answered
    purge,      \* the run of the retention tool
    tool        \* which of the three runs beside the writers
vars == <<now, db, pending, report, published, metrics, purge, tool>>
writers == <<now, db, pending>>
readers == <<report, published, metrics, purge, tool>>

\* The transactions that write about an event or a population finding: its own,
\* that of its shadow findings, and the resolution of its review.
Subject == Event \cup PopulationFinding
Transaction == Subject \X {"record", "shadow", "review"}

Row(table, s) == [table |-> table, of |-> s, at |-> now]
Has(table, s) == \E r \in db : r.table = table /\ r.of = s
Tables(t) == {r.table : r \in pending[t]}
InFlight == UNION {pending[t] : t \in Transaction}

NoReport == [next |-> 0, window |-> None, snapshot |-> {}, inflight |-> {},
             closed |-> FALSE, counted |-> {}]
NoMetrics == [since |-> 0, seen |-> <<>>]
NoPurge == [at |-> "idle", now |-> 0, before |-> {}]

Init ==
    /\ now = 1 /\ db = {}
    /\ pending = [t \in Transaction |-> {}]
    /\ report = NoReport
    /\ published = NoReport
    /\ metrics = NoMetrics
    /\ purge = NoPurge
    /\ tool \in Tool
-----------------------------------------------------------------------------
Tick ==
    /\ now < ClockStops[tool] /\ now' = now + 1
    /\ UNCHANGED <<db, pending, readers>>

\* A behaviour has one of the three, with the rows of the tables that one is
\* about.  Only the purge writes, and what it deletes the other two read in one
\* case: metrics count shadow findings.  That meeting is left out: the count is
\* one statement, and MetricsAgree says nothing of it.
Concerns ==
    [report  |-> {"findings", "verdicts", "verdict_reviews", "population_findings",
                  "population_finding_reviews"},
     metrics |-> {"findings", "verdicts", "shadow_findings", "population_findings"},
     purge   |-> {"findings", "verdicts"} \cup PurgedTable]

Stamp(t, table) ==
    /\ table \in Concerns[tool]
    /\ pending' = [pending EXCEPT ![t] = @ \cup {Row(table, t[1])}]
    /\ UNCHANGED <<now, db, readers>>

\* Ingestion: the policies' findings are stamped, then the verdict, then, in
\* the transaction, the protected attributes it has, if any.
Evaluate(e) == Tables(<<e, "record">>) = {} /\ ~ Has("findings", e)
               /\ Stamp(<<e, "record">>, "findings")
Judge(e) == Tables(<<e, "record">>) = {"findings"} /\ Stamp(<<e, "record">>, "verdicts")
ResolveAttributes(e) ==
    /\ Tables(<<e, "record">>) = {"findings", "verdicts"}
    /\ Stamp(<<e, "record">>, "protected_attribute_resolutions")

\* A population run, a shadow policy, and the resolution of a review.
EvaluatePopulation(p) ==
    /\ Tables(<<p, "record">>) = {} /\ ~ Has("population_findings", p)
    /\ Stamp(<<p, "record">>, "population_findings")
EvaluateShadow(e) ==
    /\ Tables(<<e, "shadow">>) = {} /\ Has("verdicts", e) /\ ~ Has("shadow_findings", e)
    /\ Stamp(<<e, "shadow">>, "shadow_findings")
Resolve(s, table, reviews) ==
    /\ Tables(<<s, "review">>) = {} /\ Has(table, s) /\ ~ Has(reviews, s)
    /\ Stamp(<<s, "review">>, reviews)

\* After a wait of any length, for the lock of the chain or the database, a
\* transaction commits as a whole or is rolled back.
Commit(t) ==
    /\ Tables(t) \notin {{}, {"findings"}}
    /\ db' = db \cup pending[t]
    /\ pending' = [pending EXCEPT ![t] = {}]
    /\ UNCHANGED <<now, readers>>

Rollback(t) ==
    /\ pending[t] # {}
    /\ pending' = [pending EXCEPT ![t] = {}]
    /\ UNCHANGED <<now, db, readers>>
-----------------------------------------------------------------------------
\* Mutant: the end of the window is inclusive.
SelectedInclusive(rows, table, w) ==
    {r \in rows : r.table = table /\ w.start <= r.at /\ r.at <= w.end}

\* Windows are half-open.
Selected(rows, table, w) ==
    {r \in rows : r.table = table /\ w.start <= r.at /\ r.at < w.end}

\* The last full month.
default_window == [start |-> now - 1, end |-> now]

\* get_compliance_report: five SELECTs in this order ...
ReportTables == <<"verdicts", "findings", "population_findings", "verdict_reviews",
                  "population_finding_reviews">>

StartReport(w) ==
    /\ tool = "report" /\ report.next = 0
    /\ report' = [NoReport EXCEPT !.next = 1, !.window = w]
    /\ UNCHANGED <<writers, published, metrics, purge, tool>>

Select(snapshot) ==
    /\ report.next \in DOMAIN ReportTables
    /\ report' = [report EXCEPT
          !.next = @ + 1, !.snapshot = snapshot,
          !.inflight = IF report.next = 1 THEN InFlight ELSE @,
          !.closed = IF report.next = 1 THEN report.window.end <= now ELSE @,
          !.counted = @ \cup Selected(snapshot, ReportTables[report.next], report.window)]
    /\ UNCHANGED <<writers, published, metrics, purge, tool>>

\* Mutant: each statement sees what is committed by then.
SelectReportReadCommitted == Select(db)

\* ... in a REPEATABLE READ transaction whose snapshot the first one takes.
SelectReport == Select(IF report.next = 1 THEN db ELSE report.snapshot)

\* main writes the files.
PublishReport ==
    /\ report.next = Len(ReportTables) + 1
    /\ published' = [report EXCEPT !.snapshot = {}]
    /\ report' = NoReport
    /\ UNCHANGED <<writers, metrics, purge, tool>>
-----------------------------------------------------------------------------
\* Mutant: the verdicts are counted after the findings.
MetricsTablesVerdictsLast ==
    <<"verdicts", "population_findings",
      "findings", "verdicts", "population_findings", "shadow_findings">>

\* get_metrics: the length of the chain and the last evaluation of each active
\* binding, which have no window, and then the four counts since a time; every
\* statement sees what is committed by then.
MetricsTables ==
    <<"verdicts", "population_findings",
      "verdicts", "findings", "population_findings", "shadow_findings">>
Unwindowed == 1 .. 2

StartMetrics(since) ==
    /\ tool = "metrics" /\ metrics = NoMetrics
    /\ metrics' = [metrics EXCEPT !.since = since]
    /\ UNCHANGED <<writers, report, published, purge, tool>>

SelectMetrics ==
    LET i == Len(metrics.seen) + 1 IN
    /\ metrics # NoMetrics /\ i \in DOMAIN MetricsTables
    /\ metrics' = [metrics EXCEPT !.seen = Append(@,
          {r \in db : /\ r.table = MetricsTables[i]
                      /\ i \in Unwindowed \/ metrics.since <= r.at})]
    /\ UNCHANGED <<writers, report, published, purge, tool>>

AnswerMetrics ==
    /\ Len(metrics.seen) = Len(MetricsTables)
    /\ metrics' = NoMetrics
    /\ UNCHANGED <<writers, report, published, purge, tool>>
-----------------------------------------------------------------------------
\* Mutant: each table is given the other one's setting.
retention_days_swapped(table) ==
    Retention[CHOOSE other \in PurgedTable : other # table]

retention_days(table) == Retention[table]

Expired(table) ==
    IF retention_days(table) = None THEN {}
    ELSE {r \in db : r.table = table /\ r.at < purge.now - retention_days(table)}

\* run_purge: one moment for both tables, one transaction for each.
StartPurge ==
    /\ tool = "purge" /\ purge.at \notin PurgedTable
    /\ purge' = [at |-> "shadow_findings", now |-> now, before |-> db]
    /\ UNCHANGED <<writers, report, published, metrics, tool>>

Following == [t \in PurgedTable |->
    IF t = "shadow_findings" THEN "protected_attribute_resolutions" ELSE "exit 0"]

PurgeTable ==
    /\ purge.at \in PurgedTable
    /\ db' = db \ Expired(purge.at)
    /\ purge' = [purge EXCEPT !.at = Following[@]]
    /\ UNCHANGED <<now, pending, report, published, metrics, tool>>

\* Mutant: a failure is swallowed and the run goes on to what follows.
FailPurgeSwallowed ==
    /\ purge.at \in PurgedTable
    /\ purge' = [purge EXCEPT !.at = Following[@]]
    /\ UNCHANGED <<writers, report, published, metrics, tool>>

\* An exception rolls the table's transaction back and ends the run: after one
\* in the first table the second is not purged.
FailPurge ==
    /\ purge.at \in PurgedTable
    /\ purge' = [purge EXCEPT !.at = "exit 1"]
    /\ UNCHANGED <<writers, report, published, metrics, tool>>
-----------------------------------------------------------------------------
Next ==
    \/ Tick
    \/ \E e \in Event : \/ Evaluate(e) \/ Judge(e) \/ ResolveAttributes(e)
                        \/ EvaluateShadow(e) \/ Resolve(e, "verdicts", "verdict_reviews")
    \/ \E p \in PopulationFinding :
           \/ EvaluatePopulation(p)
           \/ Resolve(p, "population_findings", "population_finding_reviews")
    \/ \E t \in Transaction : Commit(t) \/ Rollback(t)
    \/ StartReport(default_window)
    \/ \E w \in Requested : StartReport(w)
    \/ SelectReport \/ PublishReport
    \/ \E since \in Day : StartMetrics(since)
    \/ SelectMetrics \/ AnswerMetrics
    \/ StartPurge \/ PurgeTable \/ FailPurge

Spec == Init /\ [][Next]_vars
-----------------------------------------------------------------------------
\* The counts of one report belong together: a subject that has a review counted
\* is counted itself, as are the findings of a verdict that is counted, whenever
\* they are of the window (get_compliance_report's REPEATABLE READ).
ReportClosed ==
    \A r \in published.counted, s \in db :
        /\ s.of = r.of /\ s \in Selected(db, s.table, published.window)
        /\ \/ r.table = "verdicts" /\ s.table = "findings"
           \/ r.table = "verdict_reviews" /\ s.table = "verdicts"
           \/ r.table = "population_finding_reviews" /\ s.table = "population_findings"
        => s \in published.counted

\* Generating the report of a window that has ended again counts everything the
\* earlier one counted, and besides that only rows whose transactions were open
\* while the earlier one was generated (default_window, half-open windows).
RegenerationAddsLateOnly ==
    [][published.closed /\ published'.window = published.window =>
           /\ published.counted \subseteq published'.counted
           /\ published'.counted \ published.counted \subseteq published.inflight]_vars

\* The parts of one metrics response fit, although every statement sees another
\* state of the database: no verdict of the chain's length and no evaluation of
\* the staleness is missing from the counts since then, and no verdict is counted
\* without its findings.
MetricsAgree ==
    Len(metrics.seen) = Len(MetricsTables) =>
        LET Seen(i) == metrics.seen[i]
            Recent(r) == metrics.since <= r.at
        IN  /\ \A v \in Seen(1) : Recent(v) => v \in Seen(3)
            /\ \A p \in Seen(2) : Recent(p) => p \in Seen(5)
            /\ \A v \in Seen(3), f \in db :
                   f.table = "findings" /\ f.of = v.of /\ Recent(f) => f \in Seen(4)

\* The rows a step of the tool takes away are expired ones; what is left at the
\* end of a run that succeeds is not.
OnlyExpiredGo ==
    \A r \in db \ db' : /\ r.table \in PurgedTable
                        /\ Retention[r.table] # None
                        /\ r.at < now - Retention[r.table]
AllExpiredGone ==
    purge.at = "exit 0" =>
        \A r \in purge.before \cap db : r.table \in PurgedTable =>
            \/ Retention[r.table] = None
            \/ r.at >= purge.now - Retention[r.table]

\* The retention tool deletes what is expired and nothing else: no row of
\* another table is ever lost, and of its two tables only rows older than the
\* table's own setting, which None sets to never; and a run that exits 0 has
\* deleted every row of both tables that was there when it began and too old
\* then (run_purge, main).
PurgeIsExact == [][OnlyExpiredGo /\ AllExpiredGone']_vars
=============================================================================
