--------------------------- MODULE ReportingProofs ---------------------------
(***************************************************************************)
(* The safety properties of Reporting for any events, windows, retention   *)
(* settings and number of days.                                            *)
(***************************************************************************)
EXTENDS Reporting, TLAPS

USE ReportingAssumption

Table == {"findings", "verdicts", "protected_attribute_resolutions", "population_findings",
          "shadow_findings", "verdict_reviews", "population_finding_reviews"}

\* Which of a subject's transactions writes a table.
Home == [table \in Table |->
    IF table = "shadow_findings" THEN "shadow"
    ELSE IF table \in {"verdict_reviews", "population_finding_reviews"} THEN "review"
    ELSE "record"]

\* <<child, parent>>: a row of child is not there before one of parent.
Behind == {<<"verdicts", "findings">>, <<"protected_attribute_resolutions", "findings">>,
           <<"verdict_reviews", "verdicts">>,
           <<"population_finding_reviews", "population_findings">>}

Rows == [table : Table, of : Subject, at : Day]

Reports == [next : 0 .. 6, window : Window \cup {None}, snapshot : SUBSET Rows,
            inflight : SUBSET Rows, closed : BOOLEAN, counted : SUBSET Rows]

TypeInv ==
    /\ now \in Day
    /\ db \in SUBSET Rows
    /\ pending \in [Transaction -> SUBSET Rows]
    /\ tool \in Tool
    /\ report \in Reports /\ published \in Reports
    /\ metrics \in [since : Nat, seen : Seq(SUBSET Rows)]
    /\ purge \in [at : PurgedTable \cup {"idle", "exit 0", "exit 1"}, now : Nat,
                  before : SUBSET Rows]

\* None of the three beside the writers runs in the place of another.
ToolInv ==
    /\ tool # "report" => report = NoReport /\ published = NoReport
    /\ tool # "metrics" => metrics = NoMetrics
    /\ tool # "purge" => purge = NoPurge

\* A row is written once, by one transaction, and not before what it is about.
RowInv ==
    /\ \A r \in db : r.at <= now
    /\ \A r \in db, parent \in Table :
          <<r.table, parent>> \in Behind => Has(parent, r.of)
    /\ \A t \in Transaction : \A r \in pending[t] :
          /\ t = <<r.of, Home[r.table]>> /\ r.at <= now /\ ~ Has(r.table, r.of)
          /\ \A parent \in Table : <<r.table, parent>> \in Behind =>
                Has(parent, r.of) \/ parent \in Tables(t)

InWindow(r, w) == w.start <= r.at /\ r.at < w.end

\* What is there of the subjects of a set of rows is in that set: no later
\* commit adds to it.
Closed(S) ==
    \A r \in S, s \in db : <<r.table, s.table>> \in Behind /\ s.of = r.of => s \in S

ReportInv ==
    /\ report.next >= 1 => report.window \in Window
    /\ report.next <= 1 => report.counted = {} /\ ~ report.closed
    /\ report.closed => report.window.end <= now
    /\ report.next > 1 =>
          /\ report.snapshot \in SUBSET db /\ Closed(report.snapshot)
          /\ published.counted \in SUBSET report.snapshot
          /\ report.closed => \A r \in db \cup InFlight :
                r.at < report.window.end => r \in report.snapshot \cup report.inflight
          /\ \A r \in Rows : r \in report.counted <=>
                /\ r \in report.snapshot /\ InWindow(r, report.window)
                /\ \E i \in DOMAIN ReportTables : i < report.next /\ r.table = ReportTables[i]

Reported == {"verdicts", "findings", "population_findings", "verdict_reviews",
             "population_finding_reviews"}

PublishedInv ==
    /\ published.closed => published.window \in Window /\ published.window.end <= now
    /\ published.counted \in SUBSET db
    /\ \A r \in published.counted : r.table \in Reported /\ InWindow(r, published.window)
    /\ \A r \in published.counted, s \in db :
          /\ <<r.table, s.table>> \in Behind /\ s.of = r.of
          /\ s.table \in Reported /\ InWindow(s, published.window)
          => s \in published.counted
    /\ published.closed => \A r \in db \cup InFlight :
          r.table \in Reported /\ InWindow(r, published.window) =>
              r \in published.counted \cup published.inflight

Recent(r) == metrics.since <= r.at

MetricsInv ==
    /\ Len(metrics.seen) >= 1 => \A v \in metrics.seen[1] : v \in db /\ v.table = "verdicts"
    /\ Len(metrics.seen) >= 2 =>
          \A p \in metrics.seen[2] : p \in db /\ p.table = "population_findings"
    /\ Len(metrics.seen) >= 3 =>
          /\ \A v \in metrics.seen[3] : v \in db /\ v.table = "verdicts"
          /\ \A v \in metrics.seen[1] : Recent(v) => v \in metrics.seen[3]
    /\ Len(metrics.seen) >= 4 =>
          \A v \in metrics.seen[3], f \in db :
              f.table = "findings" /\ f.of = v.of /\ Recent(f) => f \in metrics.seen[4]
    /\ Len(metrics.seen) >= 5 =>
          \A p \in metrics.seen[2] : Recent(p) => p \in metrics.seen[5]

\* To be kept, by the settings and the moment of the run.
Kept(r) == Retention[r.table] = None \/ r.at >= purge.now - Retention[r.table]

PurgeInv ==
    /\ purge.now <= now
    /\ \A r \in purge.before : r \in InFlight => r.at >= purge.now
    /\ \A r \in purge.before \cap db :
          /\ r.table = "shadow_findings"
                /\ purge.at \in {"protected_attribute_resolutions", "exit 0"} => Kept(r)
          /\ r.table = "protected_attribute_resolutions" /\ purge.at = "exit 0" => Kept(r)

IInv == TypeInv /\ ToolInv /\ RowInv /\ ReportInv /\ PublishedInv /\ MetricsInv /\ PurgeInv
-----------------------------------------------------------------------------
\* The time and the days are natural numbers.
LEMMA Days == Day \subseteq Nat /\ 1 \in Day
BY DEF Day

\* So are the ends of a window.
LEMMA WindowDays == \A w \in Window : w.start \in Nat /\ w.end \in Nat
<1> SUFFICES ASSUME NEW w \in Window PROVE w.start \in Nat /\ w.end \in Nat
  OBVIOUS
<1>1. w.start \in 0 .. LastDay /\ w.end \in Day
  BY DEF Window
<1>2. \A i \in 0 .. LastDay : i \in Nat
  OBVIOUS
<1> QED  BY ONLY <1>1, <1>2, Days, Zenon

\* No report, no request and no run, field by field; FALSE is named, as the
\* provers do not take it inside a record.
LEMMA NoReportShape ==
    /\ NoReport \in Reports /\ NoReport.next = 0 /\ NoReport.window = None
    /\ NoReport.snapshot = {} /\ NoReport.inflight = {} /\ NoReport.counted = {}
    /\ ~ NoReport.closed
<1> DEFINE h == FALSE
<1>1. NoReport = [next |-> 0, window |-> None, snapshot |-> {}, inflight |-> {},
                  closed |-> h, counted |-> {}]
  BY DEF NoReport
<1>2. h \in BOOLEAN /\ h = FALSE
  OBVIOUS
<1> HIDE DEF h
<1>3. NoReport \in Reports
  BY <1>1, <1>2 DEF Reports
<1>4. /\ NoReport.next = 0 /\ NoReport.window = None
      /\ NoReport.snapshot = {} /\ NoReport.inflight = {} /\ NoReport.counted = {}
      /\ NoReport.closed = h
  BY <1>1
<1> QED  BY <1>2, <1>3, <1>4

\* The same for a request: nothing is seen before the first SELECT.
LEMMA NoMetricsShape ==
    /\ NoMetrics \in [since : Nat, seen : Seq(SUBSET Rows)]
    /\ NoMetrics.since = 0 /\ Len(NoMetrics.seen) = 0
<1> DEFINE c == << >>
<1>1. NoMetrics = [since |-> 0, seen |-> c]
  BY DEF NoMetrics
<1>2. c \in Seq(SUBSET Rows) /\ Len(c) = 0
  OBVIOUS
<1> HIDE DEF c
<1> QED  BY <1>1, <1>2

\* The same for a run of the retention tool.
LEMMA NoPurgeShape ==
    /\ NoPurge \in [at : PurgedTable \cup {"idle", "exit 0", "exit 1"}, now : Nat,
                    before : SUBSET Rows]
    /\ NoPurge.at = "idle" /\ NoPurge.now = 0 /\ NoPurge.before = {}
BY DEF NoPurge

\* The invariant holds of an empty database.
LEMMA InitInv == Init => IInv
<1> SUFFICES ASSUME Init PROVE IInv
  OBVIOUS
<1>1. /\ now = 1 /\ db = {} /\ \A t \in Transaction : pending[t] = {}
      /\ pending \in [Transaction -> SUBSET Rows]
      /\ report = NoReport /\ published = NoReport /\ metrics = NoMetrics /\ purge = NoPurge
      /\ tool \in Tool
  BY DEF Init
<1>2. TypeInv
  BY <1>1, Days, NoReportShape, NoMetricsShape, NoPurgeShape DEF TypeInv
<1>3. ToolInv /\ RowInv
  BY <1>1 DEF ToolInv, RowInv
<1>4. InFlight = {}
  BY <1>1 DEF InFlight
<1>5. ReportInv /\ PublishedInv
  BY <1>1, <1>4, NoReportShape DEF ReportInv, PublishedInv
<1>6. MetricsInv
  BY <1>1, NoMetricsShape DEF MetricsInv
<1>7. PurgeInv
  <2>1. purge.before = {} /\ purge.now = 0 /\ now = 1
    BY <1>1, NoPurgeShape
  <2>2. purge.now <= now
    BY <2>1
  <2> QED  BY <2>1, <2>2 DEF PurgeInv
<1> QED  BY <1>2, <1>3, <1>5, <1>6, <1>7 DEF IInv
-----------------------------------------------------------------------------
\* A row of a table is stamped in the transaction that is that table's, when
\* there is none of its subject yet, but what it is about.
Stamps(t, table) ==
    /\ Stamp(t, table)
    /\ t \in Transaction /\ table \in Table
    /\ t = <<t[1], Home[table]>> /\ ~ Has(table, t[1])
    /\ \A parent \in Table :
          <<table, parent>> \in Behind => Has(parent, t[1]) \/ parent \in Tables(t)

\* The writers' steps, and those of the three that run beside them.
Reads ==
    \/ \E w \in Window : StartReport(w)
    \/ SelectReport \/ PublishReport
    \/ \E since \in Day : StartMetrics(since)
    \/ SelectMetrics \/ AnswerMetrics
    \/ StartPurge \/ FailPurge

Writes ==
    \/ \E t \in Transaction : \E table \in Table : Stamps(t, table)
    \/ \E t \in Transaction : Commit(t) \/ Rollback(t)

\* What a transaction holds of a subject, nobody has committed.
LEMMA PendingNew ==
    ASSUME RowInv, NEW t \in Transaction, NEW table \in Tables(t)
    PROVE  ~ Has(table, t[1]) /\ t = <<t[1], Home[table]>>
<1>1. PICK r \in pending[t] : r.table = table
  BY DEF Tables
<1>2. t = <<r.of, Home[r.table]>> /\ ~ Has(r.table, r.of)
  BY <1>1 DEF RowInv
<1> QED  BY <1>1, <1>2

\* Every step that stamps a row stamps it so.
LEMMA Stamping ==
    ASSUME IInv, NEW e \in Subject,
           \/ Evaluate(e) \/ Judge(e) \/ ResolveAttributes(e)
           \/ EvaluateShadow(e) \/ Resolve(e, "verdicts", "verdict_reviews")
           \/ EvaluatePopulation(e)
           \/ Resolve(e, "population_findings", "population_finding_reviews")
    PROVE  \E t \in Transaction : \E table \in Table : Stamps(t, table)
<1>1. RowInv
  BY DEF IInv
<1>2. \A s \in Subject, kind \in {"record", "shadow", "review"} :
         <<s, kind>> \in Transaction /\ <<s, kind>>[1] = s
  BY DEF Transaction
<1>3. e \in Subject
  OBVIOUS
<1>4. \A table \in Table : table \in {"findings", "verdicts", "protected_attribute_resolutions",
                                      "population_findings"} => Home[table] = "record"
  BY DEF Home
<1>5. /\ Home["shadow_findings"] = "shadow" /\ Home["verdict_reviews"] = "review"
      /\ Home["population_finding_reviews"] = "review"
  BY DEF Home, Table
<1>6. CASE Evaluate(e)
  <2>1. Stamps(<<e, "record">>, "findings")
    BY <1>2, <1>3, <1>4, <1>6 DEF Evaluate, Stamps, Table, Behind
  <2> QED  BY <1>2, <1>3, <2>1 DEF Table
<1>7. CASE Judge(e)
  <2>1. "findings" \in Tables(<<e, "record">>)
    BY <1>7 DEF Judge
  <2>2. ~ Has("findings", e)
    BY <1>1, <1>2, <1>3, <2>1, PendingNew
  <2>3. ~ Has("verdicts", e)
    BY <1>1, <2>2 DEF RowInv, Has, Behind, Table
  <2>4. Stamps(<<e, "record">>, "verdicts")
    BY <1>2, <1>3, <1>4, <1>7, <2>1, <2>3 DEF Judge, Stamps, Table, Behind
  <2> QED  BY <1>2, <1>3, <2>4 DEF Table
<1>8. CASE ResolveAttributes(e)
  <2>1. "findings" \in Tables(<<e, "record">>)
    BY <1>8 DEF ResolveAttributes
  <2>2. ~ Has("findings", e)
    BY <1>1, <1>2, <1>3, <2>1, PendingNew
  <2>3. ~ Has("protected_attribute_resolutions", e)
    BY <1>1, <2>2 DEF RowInv, Has, Behind, Table
  <2>4. Stamps(<<e, "record">>, "protected_attribute_resolutions")
    BY <1>2, <1>3, <1>4, <1>8, <2>1, <2>3 DEF ResolveAttributes, Stamps, Table, Behind
  <2> QED  BY <1>2, <1>3, <2>4 DEF Table
<1>9. CASE EvaluateShadow(e)
  <2>1. Stamps(<<e, "shadow">>, "shadow_findings")
    BY <1>2, <1>3, <1>5, <1>9 DEF EvaluateShadow, Stamps, Table, Behind
  <2> QED  BY <1>2, <1>3, <2>1 DEF Table
<1>10. CASE Resolve(e, "verdicts", "verdict_reviews")
  <2>1. Stamps(<<e, "review">>, "verdict_reviews")
    BY <1>2, <1>3, <1>5, <1>10 DEF Resolve, Stamps, Table, Behind
  <2> QED  BY <1>2, <1>3, <2>1 DEF Table
<1>11. CASE EvaluatePopulation(e)
  <2>1. Stamps(<<e, "record">>, "population_findings")
    BY <1>2, <1>3, <1>4, <1>11 DEF EvaluatePopulation, Stamps, Table, Behind
  <2> QED  BY <1>2, <1>3, <2>1 DEF Table
<1>12. CASE Resolve(e, "population_findings", "population_finding_reviews")
  <2>1. Stamps(<<e, "review">>, "population_finding_reviews")
    BY <1>2, <1>3, <1>5, <1>12 DEF Resolve, Stamps, Table, Behind
  <2> QED  BY <1>2, <1>3, <2>1 DEF Table
<1> QED  BY <1>6, <1>7, <1>8, <1>9, <1>10, <1>11, <1>12

\* The steps, sorted.
LEMMA StepSplit ==
    ASSUME IInv, [Next]_vars
    PROVE  UNCHANGED vars \/ Tick \/ Writes \/ Reads \/ PurgeTable
<1>1. ASSUME Next PROVE Tick \/ Writes \/ Reads \/ PurgeTable
  <2>1. default_window \in Window
    <3>1. now - 1 \in 0 .. LastDay /\ now \in Day /\ now - 1 < now
      <4>1. now \in 1 .. LastDay /\ LastDay \in Nat
        BY DEF IInv, TypeInv, Day
      <4> QED  BY ONLY <4>1 DEF Day
    <3> QED  BY <3>1 DEF default_window, Window
  <2>2. \A e \in Event : e \in Subject
    BY DEF Subject
  <2>3. \A p \in PopulationFinding : p \in Subject
    BY DEF Subject
  <2>4. CASE \E e \in Event : \/ Evaluate(e) \/ Judge(e) \/ ResolveAttributes(e)
                              \/ EvaluateShadow(e) \/ Resolve(e, "verdicts", "verdict_reviews")
    BY <2>2, <2>4, Stamping DEF Writes
  <2>5. CASE \E p \in PopulationFinding :
                \/ EvaluatePopulation(p)
                \/ Resolve(p, "population_findings", "population_finding_reviews")
    BY <2>3, <2>5, Stamping DEF Writes
  <2>6. CASE \E t \in Transaction : Commit(t) \/ Rollback(t)
    BY <2>6 DEF Writes
  <2>7. CASE StartReport(default_window) \/ \E w \in Requested : StartReport(w)
    <3>1. \A w \in Requested : w \in Window
      OBVIOUS
    <3> QED  BY <2>1, <2>7, <3>1 DEF Reads
  <2> QED  BY <1>1, <2>4, <2>5, <2>6, <2>7 DEF Next, Reads
<1> QED  BY <1>1
-----------------------------------------------------------------------------
\* The five SELECTs of a report and the six of the metrics.
LEMMA TablesInOrder ==
    /\ DOMAIN ReportTables = 1 .. 5 /\ Len(ReportTables) = 5
    /\ ReportTables[1] = "verdicts" /\ ReportTables[2] = "findings"
    /\ ReportTables[3] = "population_findings" /\ ReportTables[4] = "verdict_reviews"
    /\ ReportTables[5] = "population_finding_reviews"
    /\ DOMAIN MetricsTables = 1 .. 6 /\ Len(MetricsTables) = 6
    /\ MetricsTables[1] = "verdicts" /\ MetricsTables[2] = "population_findings"
    /\ MetricsTables[3] = "verdicts" /\ MetricsTables[4] = "findings"
    /\ MetricsTables[5] = "population_findings" /\ MetricsTables[6] = "shadow_findings"
BY DEF ReportTables, MetricsTables

\* The uncommitted rows are rows.
LEMMA InFlightRows ==
    ASSUME TypeInv
    PROVE  InFlight \in SUBSET Rows
<1> SUFFICES ASSUME NEW r \in InFlight PROVE r \in Rows
  OBVIOUS
<1>1. PICK t \in Transaction : r \in pending[t]
  BY DEF InFlight
<1>2. pending[t] \in SUBSET Rows
  BY DEF TypeInv
<1> QED  BY <1>1, <1>2

\* A report begins with nothing counted.
LEMMA StartReportStep ==
    ASSUME NEW w \in Window, StartReport(w)
    PROVE  /\ report' \in Reports /\ report'.next = 1 /\ report'.window = w
           /\ report'.counted = {} /\ ~ report'.closed
<1>1. report' = [NoReport EXCEPT !.next = 1, !.window = w]
  BY DEF StartReport
<1>2. /\ NoReport \in Reports /\ NoReport.counted = {} /\ ~ NoReport.closed
  BY NoReportShape
<1>3. /\ report' \in Reports /\ report'.next = 1 /\ report'.window = w
      /\ report'.counted = NoReport.counted /\ report'.closed = NoReport.closed
  <2>1. 1 \in 0 .. 6 /\ w \in Window \cup {None}
    OBVIOUS
  <2>2. PICK x : x = NoReport
    OBVIOUS
  <2>3. x \in Reports /\ report' = [x EXCEPT !.next = 1, !.window = w]
    BY <1>1, <1>2, <2>2
  <2>4. /\ report' \in Reports /\ report'.next = 1 /\ report'.window = w
        /\ report'.counted = x.counted /\ report'.closed = x.closed
    BY ONLY <2>1, <2>3 DEF Reports
  <2> QED  BY <2>2, <2>4
<1> QED  BY <1>2, <1>3

\* The first SELECT takes the snapshot and each adds the rows of its table.
LEMMA SelectStep ==
    ASSUME IInv, SelectReport
    PROVE  /\ report.next \in 1 .. 5 /\ report' \in Reports /\ report'.next = report.next + 1
           /\ report'.window = report.window
           /\ report'.snapshot = IF report.next = 1 THEN db ELSE report.snapshot
           /\ report'.inflight = IF report.next = 1 THEN InFlight ELSE report.inflight
           /\ report'.closed <=>
                 IF report.next = 1 THEN report.window.end <= now ELSE report.closed
           /\ report'.counted = report.counted \cup
                 Selected(report'.snapshot, ReportTables[report.next], report.window)
<1> DEFINE s == IF report.next = 1 THEN db ELSE report.snapshot
           f == IF report.next = 1 THEN InFlight ELSE report.inflight
           b == IF report.next = 1 THEN report.window.end <= now ELSE report.closed
           c == report.counted \cup Selected(s, ReportTables[report.next], report.window)
<1>1. /\ report.next \in DOMAIN ReportTables
      /\ report' = [report EXCEPT !.next = report.next + 1, !.snapshot = s, !.inflight = f,
                                  !.closed = b, !.counted = c]
  BY DEF SelectReport, Select
<1>2. report \in Reports /\ InFlight \in SUBSET Rows /\ db \in SUBSET Rows
  BY InFlightRows DEF IInv, TypeInv
<1>3. s \in SUBSET Rows /\ f \in SUBSET Rows
  BY <1>2 DEF Reports
<1>4. c \in SUBSET Rows
  BY <1>2, <1>3 DEF Reports, Selected
<1>5. report.next \in 1 .. 5 /\ report.next + 1 \in 0 .. 6
  BY <1>1, TablesInOrder
<1>6. b \in BOOLEAN
  <2>1. report.closed \in BOOLEAN
    BY <1>2 DEF Reports
  <2>2. CASE report.next = 1
    BY <2>2
  <2>3. CASE report.next # 1
    BY <2>1, <2>3
  <2> QED  BY <2>2, <2>3
<1>7. PICK n : n = report.next + 1
  OBVIOUS
<1> HIDE DEF s, f, b, c
<1>8. report' = [report EXCEPT !.next = n, !.snapshot = s, !.inflight = f,
                                  !.closed = b, !.counted = c]
  BY <1>1, <1>7
<1>9. /\ report' \in Reports /\ report'.next = n /\ report'.window = report.window
      /\ report'.snapshot = s /\ report'.inflight = f /\ report'.closed = b
      /\ report'.counted = c
  BY ONLY <1>2, <1>3, <1>4, <1>5, <1>6, <1>7, <1>8 DEF Reports
<1> QED  BY <1>5, <1>7, <1>9 DEF s, f, b, c

\* What is published is the report, but for its snapshot.
LEMMA PublishStep ==
    ASSUME IInv, PublishReport
    PROVE  /\ report.next = 6 /\ report' = NoReport /\ published' \in Reports
           /\ published'.window = report.window /\ published'.inflight = report.inflight
           /\ published'.closed = report.closed /\ published'.counted = report.counted
<1>1. report.next = 6 /\ report' = NoReport /\ published' = [report EXCEPT !.snapshot = {}]
  BY TablesInOrder DEF PublishReport
<1>2. report \in Reports
  BY DEF IInv, TypeInv
<1>3. /\ published' \in Reports
      /\ published'.window = report.window /\ published'.inflight = report.inflight
      /\ published'.closed = report.closed /\ published'.counted = report.counted
  BY ONLY <1>1, <1>2 DEF Reports
<1> QED  BY <1>1, <1>3

\* One more answer is seen.
LEMMA SelectMetricsStep ==
    ASSUME IInv, SelectMetrics
    PROVE  LET i == Len(metrics.seen) + 1
               S == {r \in db : /\ r.table = MetricsTables[i]
                                /\ i \in Unwindowed \/ metrics.since <= r.at}
           IN  /\ i \in 1 .. 6 /\ S \in SUBSET Rows
               /\ metrics' \in [since : Nat, seen : Seq(SUBSET Rows)]
               /\ metrics'.since = metrics.since /\ metrics'.seen = Append(metrics.seen, S)
<1> DEFINE i == Len(metrics.seen) + 1
           S == {r \in db : /\ r.table = MetricsTables[i]
                            /\ i \in Unwindowed \/ metrics.since <= r.at}
           q == Append(metrics.seen, S)
<1>1. i \in DOMAIN MetricsTables /\ metrics' = [metrics EXCEPT !.seen = q]
  BY DEF SelectMetrics
<1>2. metrics \in [since : Nat, seen : Seq(SUBSET Rows)] /\ db \in SUBSET Rows
  BY DEF IInv, TypeInv
<1>3. i \in 1 .. 6 /\ S \in SUBSET Rows
  BY <1>1, <1>2, TablesInOrder
<1>4. q \in Seq(SUBSET Rows)
  <2> HIDE DEF S
  <2> QED  BY <1>2, <1>3
<1>5. q = Append(metrics.seen, S)
  OBVIOUS
<1> HIDE DEF q, S
<1>6. /\ metrics' \in [since : Nat, seen : Seq(SUBSET Rows)]
      /\ metrics'.since = metrics.since /\ metrics'.seen = q
  BY <1>1, <1>2, <1>4
<1> QED  BY <1>3, <1>5, <1>6 DEF S
-----------------------------------------------------------------------------
\* The stamped row.
LEMMA RowStamped ==
    ASSUME IInv, NEW t \in Transaction, NEW table \in Table, Stamps(t, table)
    PROVE  /\ Row(table, t[1]) \in Rows /\ Row(table, t[1]).table = table
           /\ Row(table, t[1]).of = t[1] /\ Row(table, t[1]).at = now
           /\ pending' = [pending EXCEPT ![t] = @ \cup {Row(table, t[1])}]
           /\ UNCHANGED <<now, db, readers>>
<1>1. t[1] \in Subject
  BY DEF Transaction
<1>2. now \in Day
  BY DEF IInv, TypeInv
<1> QED  BY <1>1, <1>2 DEF Row, Rows, Stamps, Stamp

\* A step of a reader leaves the writers' variables.
LEMMA ReadsOnly ==
    ASSUME Reads
    PROVE  UNCHANGED writers
BY DEF Reads, StartReport, SelectReport, Select, PublishReport, StartMetrics, SelectMetrics,
   AnswerMetrics, StartPurge, FailPurge

\* Every variable keeps its type.
LEMMA TypeStep ==
    ASSUME IInv, [Next]_vars
    PROVE  TypeInv'
<1>1. TypeInv
  BY DEF IInv
<1>2. now' \in Day
  <2>1. CASE Tick
    <3>1. /\ now \in 1 .. LastDay /\ now < ClockStops[tool] /\ now' = now + 1
          /\ ClockStops[tool] \in 1 .. LastDay /\ LastDay \in Nat
      BY <1>1, <2>1 DEF TypeInv, Tick, Day
    <3> QED  BY ONLY <3>1 DEF Day
  <2>2. CASE UNCHANGED now
    BY <1>1, <2>2 DEF TypeInv
  <2> QED
    BY <2>1, <2>2, StepSplit, ReadsOnly DEF vars, writers, Writes, Stamps, Stamp, Commit, Rollback,
       PurgeTable
<1>3. db' \in SUBSET Rows /\ pending' \in [Transaction -> SUBSET Rows]
  <2>1. db \in SUBSET Rows /\ pending \in [Transaction -> SUBSET Rows]
    BY <1>1 DEF TypeInv
  <2>2. ASSUME NEW t \in Transaction, NEW table \in Table, Stamps(t, table)
        PROVE  db' \in SUBSET Rows /\ pending' \in [Transaction -> SUBSET Rows]
    BY <2>1, <2>2, RowStamped
  <2>3. ASSUME NEW t \in Transaction, Commit(t) \/ Rollback(t)
        PROVE  db' \in SUBSET Rows /\ pending' \in [Transaction -> SUBSET Rows]
    BY <2>1, <2>3 DEF Commit, Rollback
  <2>4. CASE PurgeTable
    BY <2>1, <2>4 DEF PurgeTable
  <2>5. CASE UNCHANGED <<db, pending>>
    BY <2>1, <2>5
  <2> QED
    BY <2>2, <2>3, <2>4, <2>5, StepSplit, ReadsOnly DEF vars, writers, Writes, Tick
<1>4. /\ report' \in Reports /\ published' \in Reports
      /\ metrics' \in [since : Nat, seen : Seq(SUBSET Rows)]
      /\ purge' \in [at : PurgedTable \cup {"idle", "exit 0", "exit 1"}, now : Nat,
                     before : SUBSET Rows]
      /\ tool' = tool
  <2>1. /\ report \in Reports /\ published \in Reports
        /\ metrics \in [since : Nat, seen : Seq(SUBSET Rows)]
        /\ purge \in [at : PurgedTable \cup {"idle", "exit 0", "exit 1"}, now : Nat,
                      before : SUBSET Rows]
    BY <1>1 DEF TypeInv
  <2>2. CASE UNCHANGED readers
    BY <2>1, <2>2 DEF readers
  <2>3. ASSUME NEW w \in Window, StartReport(w)
        PROVE  report' \in Reports /\ UNCHANGED <<published, metrics, purge, tool>>
    BY <2>3, StartReportStep DEF StartReport
  <2>4. CASE SelectReport
    BY <2>1, <2>4, SelectStep DEF SelectReport, Select
  <2>5. CASE PublishReport
    BY <2>1, <2>5, PublishStep, NoReportShape DEF PublishReport
  <2>6. ASSUME NEW since \in Day, StartMetrics(since)
        PROVE  /\ metrics' \in [since : Nat, seen : Seq(SUBSET Rows)]
               /\ UNCHANGED <<report, published, purge, tool>>
    BY <2>1, <2>6, Days DEF StartMetrics
  <2>7. CASE SelectMetrics
    BY <2>1, <2>7, SelectMetricsStep DEF SelectMetrics
  <2>8. CASE AnswerMetrics
    BY <2>1, <2>8, NoMetricsShape DEF AnswerMetrics
  <2>9. CASE StartPurge
    <3>1. now \in Nat /\ db \in SUBSET Rows
      BY <1>1, Days DEF TypeInv
    <3> QED  BY <2>1, <2>9, <3>1 DEF StartPurge, PurgedTable
  <2>10. CASE PurgeTable
    <3>1. Following[purge.at] \in PurgedTable \cup {"idle", "exit 0", "exit 1"}
      BY <2>10 DEF PurgeTable, Following, PurgedTable
    <3>2. purge' = [purge EXCEPT !.at = Following[purge.at]]
      BY <2>10 DEF PurgeTable
    <3> QED  BY <2>1, <2>10, <3>1, <3>2 DEF PurgeTable
  <2>11. CASE FailPurge
    BY <2>1, <2>11 DEF FailPurge
  <2> QED
    BY <2>1, <2>2, <2>3, <2>4, <2>5, <2>6, <2>7, <2>8, <2>9, <2>10, <2>11, StepSplit
    DEF vars, readers, Writes, Reads, Tick, Stamps, Stamp, Commit, Rollback
<1> QED  BY <1>1, <1>2, <1>3, <1>4 DEF TypeInv

\* Only the chosen one of the three runs.
LEMMA ToolStep ==
    ASSUME IInv, [Next]_vars
    PROVE  ToolInv'
<1>1. ToolInv
  BY DEF IInv
<1>2. CASE UNCHANGED readers
  BY <1>1, <1>2 DEF ToolInv, readers
<1>3. CASE Reads
  <2>1. CASE (\E w \in Window : StartReport(w)) \/ SelectReport \/ PublishReport
    <3>1. tool = "report" /\ UNCHANGED <<metrics, purge, tool>>
      <4>1. CASE \E w \in Window : StartReport(w)
        BY <4>1 DEF StartReport
      <4>2. CASE SelectReport
        <5>1. report # NoReport
          BY <4>2, SelectStep, NoReportShape
        <5> QED  BY <1>1, <4>2, <5>1 DEF SelectReport, Select, ToolInv
      <4>3. CASE PublishReport
        <5>1. report # NoReport
          BY <4>3, PublishStep, NoReportShape
        <5> QED  BY <1>1, <4>3, <5>1 DEF PublishReport, ToolInv
      <4> QED  BY <2>1, <4>1, <4>2, <4>3
    <3> QED  BY <1>1, <3>1 DEF ToolInv
  <2>2. CASE (\E since \in Day : StartMetrics(since)) \/ SelectMetrics \/ AnswerMetrics
    <3>1. tool = "metrics" /\ UNCHANGED <<report, published, purge, tool>>
      <4>1. CASE \E since \in Day : StartMetrics(since)
        BY <4>1 DEF StartMetrics
      <4>2. CASE SelectMetrics
        BY <1>1, <4>2 DEF SelectMetrics, ToolInv
      <4>3. CASE AnswerMetrics
        <5>1. metrics # NoMetrics
          <6>1. Len(metrics.seen) = Len(MetricsTables)
            BY <4>3 DEF AnswerMetrics
          <6>2. Len(metrics.seen) = 6
            BY <6>1, TablesInOrder
          <6>3. Len(NoMetrics.seen) = 0
            BY NoMetricsShape
          <6>4. ASSUME metrics = NoMetrics PROVE FALSE
            <7>1. Len(metrics.seen) = 0
              BY <6>3, <6>4, Zenon
            <7> QED  BY ONLY <6>2, <7>1
          <6> QED  BY <6>4
        <5> QED  BY <1>1, <4>3, <5>1 DEF AnswerMetrics, ToolInv
      <4> QED  BY <2>2, <4>1, <4>2, <4>3
    <3> QED  BY <1>1, <3>1 DEF ToolInv
  <2>3. CASE StartPurge \/ FailPurge
    <3>1. tool = "purge" /\ UNCHANGED <<report, published, metrics, tool>>
      BY <1>1, <2>3, NoPurgeShape DEF StartPurge, FailPurge, ToolInv, PurgedTable
    <3> QED  BY <1>1, <3>1 DEF ToolInv
  <2> QED  BY <1>3, <2>1, <2>2, <2>3 DEF Reads
<1>4. CASE PurgeTable
  <2>1. tool = "purge" /\ UNCHANGED <<report, published, metrics, tool>>
    BY <1>1, <1>4, NoPurgeShape DEF PurgeTable, ToolInv, PurgedTable
  <2> QED  BY <1>1, <2>1 DEF ToolInv
<1> QED
  BY <1>2, <1>3, <1>4, StepSplit DEF vars, readers, Writes, Tick, Stamps, Stamp, Commit, Rollback

\* Rows once written by the transaction of their table stay so.
LEMMA RowStep ==
    ASSUME IInv, [Next]_vars
    PROVE  RowInv'
<1>1. TypeInv /\ RowInv
  BY DEF IInv
<1>2. db \in SUBSET Rows /\ pending \in [Transaction -> SUBSET Rows] /\ now \in Nat
  BY <1>1, Days DEF TypeInv
<1>3. ASSUME db' = db, pending' = pending, now' \in Nat, now' >= now PROVE RowInv'
  <2>1. \A r \in Rows : r.at \in Nat
    BY Days DEF Rows
  <2>2. \A r \in db : r.at <= now'
    BY <1>1, <1>2, <1>3, <2>1 DEF RowInv
  <2>3. \A t \in Transaction : \A r \in pending[t] : r.at <= now'
    BY <1>1, <1>2, <1>3, <2>1 DEF RowInv
  <2> QED  BY <1>1, <1>3, <2>2, <2>3 DEF RowInv, Has, Tables
<1>4. ASSUME NEW u \in Transaction, NEW table \in Table, Stamps(u, table) PROVE RowInv'
  <2> DEFINE new == Row(table, u[1])
  <2>1. /\ new \in Rows /\ new.table = table /\ new.of = u[1] /\ new.at = now
        /\ pending' = [pending EXCEPT ![u] = @ \cup {new}] /\ now' = now /\ db' = db
    BY <1>4, RowStamped
  <2>2. u = <<u[1], Home[table]>> /\ ~ Has(table, u[1])
        /\ \A parent \in Table :
              <<table, parent>> \in Behind => Has(parent, u[1]) \/ parent \in Tables(u)
    BY <1>4 DEF Stamps
  <2> HIDE DEF new
  <2>3. \A x, s : Has(x, s)' <=> Has(x, s)
    BY <2>1 DEF Has
  <2>4. \A t \in Transaction : Tables(t) \subseteq Tables(t)'
    BY <1>2, <2>1 DEF Tables
  <2>5. ASSUME NEW t \in Transaction, NEW r \in pending'[t]
        PROVE  /\ t = <<r.of, Home[r.table]>> /\ r.at <= now' /\ ~ Has(r.table, r.of)'
               /\ \A parent \in Table : <<r.table, parent>> \in Behind =>
                     Has(parent, r.of)' \/ parent \in Tables(t)'
    <3>1. CASE r \in pending[t]
      <4>1. /\ t = <<r.of, Home[r.table]>> /\ r.at <= now /\ ~ Has(r.table, r.of)
            /\ \A parent \in Table : <<r.table, parent>> \in Behind =>
                  Has(parent, r.of) \/ parent \in Tables(t)
        BY <1>1, <3>1 DEF RowInv
      <4> QED  BY <2>1, <2>3, <2>4, <4>1
    <3>2. CASE t = u /\ r = new
      BY <1>2, <2>1, <2>2, <2>3, <2>4, <3>2
    <3> QED  BY <1>2, <2>1, <2>5, <3>1, <3>2
  <2>6. \A r \in db' : r.at <= now'
    BY <1>1, <2>1 DEF RowInv
  <2>7. \A r \in db', parent \in Table :
           <<r.table, parent>> \in Behind => Has(parent, r.of)'
    BY <1>1, <2>1, <2>3 DEF RowInv
  <2> QED  BY <2>5, <2>6, <2>7 DEF RowInv
<1>5. ASSUME NEW u \in Transaction, Rollback(u) PROVE RowInv'
  <2>1. pending' = [pending EXCEPT ![u] = {}] /\ now' = now /\ db' = db
    BY <1>5 DEF Rollback
  <2>2. \A x, s : Has(x, s)' <=> Has(x, s)
    BY <2>1 DEF Has
  <2>3. ASSUME NEW t \in Transaction, NEW r \in pending'[t]
        PROVE  /\ t = <<r.of, Home[r.table]>> /\ r.at <= now' /\ ~ Has(r.table, r.of)'
               /\ \A parent \in Table : <<r.table, parent>> \in Behind =>
                     Has(parent, r.of)' \/ parent \in Tables(t)'
    <3>1. t # u /\ pending'[t] = pending[t]
      BY <1>2, <2>1, <2>3
    <3>2. /\ t = <<r.of, Home[r.table]>> /\ r.at <= now /\ ~ Has(r.table, r.of)
          /\ \A parent \in Table : <<r.table, parent>> \in Behind =>
                Has(parent, r.of) \/ parent \in Tables(t)
      BY <1>1, <3>1 DEF RowInv
    <3>3. Tables(t)' = Tables(t)
      BY <3>1 DEF Tables
    <3> QED  BY <2>1, <2>2, <3>2, <3>3
  <2> QED  BY <1>1, <2>1, <2>2, <2>3 DEF RowInv
<1>6. ASSUME NEW u \in Transaction, Commit(u) PROVE RowInv'
  <2>1. /\ pending' = [pending EXCEPT ![u] = {}] /\ now' = now /\ db' = db \cup pending[u]
    BY <1>6 DEF Commit
  <2>2. \A x, s : Has(x, s) => Has(x, s)'
    BY <2>1 DEF Has
  <2>3. ASSUME NEW t \in Transaction, NEW r \in pending'[t]
        PROVE  /\ t = <<r.of, Home[r.table]>> /\ r.at <= now' /\ ~ Has(r.table, r.of)'
               /\ \A parent \in Table : <<r.table, parent>> \in Behind =>
                     Has(parent, r.of)' \/ parent \in Tables(t)'
    <3>1. t # u /\ pending'[t] = pending[t]
      BY <1>2, <2>1, <2>3
    <3>2. /\ t = <<r.of, Home[r.table]>> /\ r.at <= now /\ ~ Has(r.table, r.of)
          /\ \A parent \in Table : <<r.table, parent>> \in Behind =>
                Has(parent, r.of) \/ parent \in Tables(t)
      BY <1>1, <3>1 DEF RowInv
    <3>3. Tables(t)' = Tables(t)
      BY <3>1 DEF Tables
    <3>4. \A s \in pending[u] : ~ (s.table = r.table /\ s.of = r.of)
      BY <1>1, <3>1, <3>2 DEF RowInv
    <3>5. ~ Has(r.table, r.of)'
      BY <2>1, <3>2, <3>4 DEF Has
    <3> QED  BY <2>1, <2>2, <3>2, <3>3, <3>5
  <2>4. \A r \in db' : r.at <= now'
    BY <1>1, <2>1 DEF RowInv
  <2>5. ASSUME NEW r \in db', NEW parent \in Table, <<r.table, parent>> \in Behind
        PROVE  Has(parent, r.of)'
    <3>1. CASE r \in db
      BY <1>1, <2>2, <2>5, <3>1 DEF RowInv
    <3>2. CASE r \in pending[u]
      <4>1. /\ u = <<r.of, Home[r.table]>>
            /\ Has(parent, r.of) \/ parent \in Tables(u)
        BY <1>1, <2>5, <3>2 DEF RowInv
      <4>2. CASE parent \in Tables(u)
        <5>1. PICK s \in pending[u] : s.table = parent
          BY <4>2 DEF Tables
        <5>2. u = <<s.of, Home[s.table]>>
          BY <1>1, <5>1 DEF RowInv
        <5>3. s.of = r.of
          BY <4>1, <5>2
        <5> QED  BY <2>1, <5>1, <5>3 DEF Has
      <4> QED  BY <2>2, <4>1, <4>2
    <3> QED  BY <2>1, <3>1, <3>2
  <2> QED  BY <2>3, <2>4, <2>5 DEF RowInv
<1>7. CASE PurgeTable
  <2>1. /\ pending' = pending /\ now' = now
        /\ \A r : r \in db' => r \in db
        /\ \A r \in db : r.table \notin PurgedTable => r \in db'
    BY <1>7 DEF PurgeTable, Expired
  <2>2. \A r, parent : <<r, parent>> \in Behind => parent \notin PurgedTable
    BY DEF Behind, PurgedTable
  <2>3. \A x, s : Has(x, s)' => Has(x, s)
    BY <2>1 DEF Has
  <2>4. \A x, s : x \notin PurgedTable /\ Has(x, s) => Has(x, s)'
    BY <2>1 DEF Has
  <2>5. \A t : Tables(t)' = Tables(t)
    BY <2>1 DEF Tables
  <2>6. \A r \in db' : r.at <= now'
    BY <1>1, <2>1 DEF RowInv
  <2>7. \A r \in db', parent \in Table :
           <<r.table, parent>> \in Behind => Has(parent, r.of)'
    BY <1>1, <2>1, <2>2, <2>4 DEF RowInv
  <2>8. ASSUME NEW t \in Transaction, NEW r \in pending'[t]
        PROVE  /\ t = <<r.of, Home[r.table]>> /\ r.at <= now' /\ ~ Has(r.table, r.of)'
               /\ \A parent \in Table : <<r.table, parent>> \in Behind =>
                     Has(parent, r.of)' \/ parent \in Tables(t)'
    <3>2. /\ t = <<r.of, Home[r.table]>> /\ r.at <= now /\ ~ Has(r.table, r.of)
          /\ \A parent \in Table : <<r.table, parent>> \in Behind =>
                Has(parent, r.of) \/ parent \in Tables(t)
      BY <1>1, <2>1, <2>8 DEF RowInv
    <3> QED  BY <2>1, <2>2, <2>3, <2>4, <2>5, <3>2
  <2> QED  BY <2>6, <2>7, <2>8 DEF RowInv
<1>8. CASE Tick
  BY <1>2, <1>3, <1>8 DEF Tick
<1>9. CASE UNCHANGED writers
  BY <1>2, <1>3, <1>9 DEF writers
<1> QED  BY <1>4, <1>5, <1>6, <1>7, <1>8, <1>9, StepSplit, ReadsOnly DEF Writes, vars, writers
-----------------------------------------------------------------------------
\* What a step does to the rows as the readers see them: what commits was in
\* flight, what is in flight anew is of now, only a purge takes rows away, and
\* no row is committed behind one that is about it.
Flow ==
    /\ now' \in Nat /\ now' >= now
    /\ \A r \in db' : r \in db \/ r \in InFlight
    /\ \A r \in InFlight' : r \in InFlight \/ r.at = now
    /\ tool # "purge" => db \subseteq db'
    /\ \A r \in db, s \in db' : <<r.table, s.table>> \in Behind /\ s.of = r.of => s \in db

\* Every step of the writers and of the three beside them does so (Commit,
\* Rollback, PurgeTable).
LEMMA StepFlow ==
    ASSUME IInv, [Next]_vars
    PROVE  Flow
<1>1. TypeInv /\ RowInv /\ ToolInv
  BY DEF IInv
<1>2. db \in SUBSET Rows /\ pending \in [Transaction -> SUBSET Rows] /\ now \in Nat
  BY <1>1, Days DEF TypeInv
<1>3. now' \in Nat /\ now' >= now
  <2>1. CASE Tick
    BY <1>2, <2>1 DEF Tick
  <2>2. CASE UNCHANGED now
    BY <1>2, <2>2
  <2> QED
    BY <2>1, <2>2, StepSplit, ReadsOnly DEF vars, writers, Writes, Stamps, Stamp, Commit, Rollback,
       PurgeTable
<1>4. CASE UNCHANGED <<db, pending>>
  BY <1>3, <1>4 DEF Flow, InFlight
<1>5. ASSUME NEW u \in Transaction, NEW table \in Table, Stamps(u, table) PROVE Flow
  <2> DEFINE new == Row(table, u[1])
  <2>1. /\ new.at = now /\ pending' = [pending EXCEPT ![u] = @ \cup {new}] /\ db' = db
    BY <1>5, RowStamped
  <2> HIDE DEF new
  <2>2. ASSUME NEW r \in InFlight' PROVE r \in InFlight \/ r.at = now
    <3>1. PICK t \in Transaction : r \in pending'[t]
      BY <2>2 DEF InFlight
    <3>2. r \in pending[t] \/ r = new
      BY <1>2, <2>1, <3>1
    <3> QED  BY <2>1, <3>2 DEF InFlight
  <2> QED  BY <1>3, <2>1, <2>2 DEF Flow
<1>6. ASSUME NEW u \in Transaction, pending' = [pending EXCEPT ![u] = {}]
      PROVE  \A r \in InFlight' : r \in InFlight
  <2> SUFFICES ASSUME NEW r \in InFlight' PROVE r \in InFlight
    OBVIOUS
  <2>1. PICK t \in Transaction : r \in pending'[t]
    BY DEF InFlight
  <2>2. r \in pending[t]
    BY <1>2, <1>6, <2>1
  <2> QED  BY <2>2 DEF InFlight
<1>7. ASSUME NEW u \in Transaction, Rollback(u) PROVE Flow
  BY <1>3, <1>6, <1>7 DEF Rollback, Flow
<1>8. ASSUME NEW u \in Transaction, Commit(u) PROVE Flow
  <2>1. db' = db \cup pending[u] /\ pending' = [pending EXCEPT ![u] = {}]
    BY <1>8 DEF Commit
  <2>2. ASSUME NEW r \in db, NEW s \in pending[u], <<r.table, s.table>> \in Behind, s.of = r.of
        PROVE  FALSE
    <3>1. s.table \in Table
      BY <1>2 DEF Rows
    <3>2. Has(s.table, r.of)
      BY <1>1, <2>2, <3>1 DEF RowInv
    <3> QED  BY <1>1, <2>2, <3>2 DEF RowInv
  <2> QED  BY <1>3, <1>6, <2>1, <2>2 DEF Flow, InFlight
<1>9. CASE PurgeTable
  <2>1. tool = "purge"
    BY <1>1, <1>9, NoPurgeShape DEF PurgeTable, ToolInv, PurgedTable
  <2>2. db' \subseteq db /\ pending' = pending
    BY <1>9 DEF PurgeTable
  <2> QED  BY <1>3, <2>1, <2>2 DEF Flow, InFlight
<1> QED
  BY <1>4, <1>5, <1>7, <1>8, <1>9, StepSplit, ReadsOnly DEF Writes, vars, writers, Tick

\* The tables a report counts.
LEMMA ReportedTables ==
    ASSUME NEW x
    PROVE  x \in Reported <=> \E i \in DOMAIN ReportTables : i < 6 /\ x = ReportTables[i]
<1>1. /\ 1 \in 1 .. 5 /\ 2 \in 1 .. 5 /\ 3 \in 1 .. 5 /\ 4 \in 1 .. 5 /\ 5 \in 1 .. 5
      /\ \A i \in 1 .. 5 : i = 1 \/ i = 2 \/ i = 3 \/ i = 4 \/ i = 5
      /\ \A i \in 1 .. 5 : i < 6
  OBVIOUS
<1> QED  BY <1>1, TablesInOrder DEF Reported

\* A report under way stays true of its snapshot.
LEMMA ReportStep ==
    ASSUME IInv, [Next]_vars
    PROVE  ReportInv'
<1>1. TypeInv /\ ToolInv /\ ReportInv /\ PublishedInv /\ Flow
  BY StepFlow DEF IInv
<1>2. report \in Reports /\ published \in Reports /\ now \in Nat /\ db \in SUBSET Rows
      /\ InFlight \in SUBSET Rows
  BY <1>1, Days, InFlightRows DEF TypeInv
<1>3. ASSUME UNCHANGED <<report, published, tool>> PROVE ReportInv'
  <2>1. report.closed => report.window \in Window /\ report.window.end \in Nat
    <3>1. report.closed => report.next >= 1
      BY <1>1, <1>2 DEF ReportInv, Reports
    <3>2. \A w \in Window : w.end \in Nat
      BY Days DEF Window
    <3> QED  BY <1>1, <3>1, <3>2 DEF ReportInv
  <2>2. report.closed => report.window.end <= now'
    BY <1>1, <1>2, <2>1 DEF ReportInv, Flow
  <2>3. ASSUME report.next > 1
        PROVE  /\ report.snapshot \in SUBSET db' /\ Closed(report.snapshot)'
               /\ report.closed => \A r \in db' \cup InFlight' :
                     r.at < report.window.end => r \in report.snapshot \cup report.inflight
    <3>1. tool = "report"
      BY <1>1, <2>3, NoReportShape DEF ToolInv
    <3>2. report.snapshot \in SUBSET db /\ Closed(report.snapshot)
      BY <1>1, <2>3 DEF ReportInv
    <3>3. report.snapshot \in SUBSET db'
      BY <1>1, <3>1, <3>2 DEF Flow
    <3>4. Closed(report.snapshot)'
      <4> SUFFICES ASSUME NEW r \in report.snapshot, NEW s \in db',
                          <<r.table, s.table>> \in Behind, s.of = r.of
                   PROVE  s \in report.snapshot
        BY <1>3 DEF Closed
      <4>1. s \in db
        BY <1>1, <3>2 DEF Flow
      <4> QED  BY <3>2, <4>1 DEF Closed
    <3>5. ASSUME report.closed, NEW r \in db' \cup InFlight', r.at < report.window.end
          PROVE  r \in report.snapshot \cup report.inflight
      <4>1. ~ (r.at = now)
        BY <1>1, <1>2, <2>1, <3>5 DEF ReportInv
      <4>2. r \in db \cup InFlight
        BY <1>1, <3>5, <4>1 DEF Flow
      <4> QED  BY <1>1, <2>3, <3>5, <4>2 DEF ReportInv
    <3> QED  BY <3>3, <3>4, <3>5
  <2>4. /\ report.next >= 1 => report.window \in Window
        /\ report.next <= 1 => report.counted = {} /\ ~ report.closed
        /\ report.next > 1 =>
              /\ published.counted \in SUBSET report.snapshot
              /\ \A r \in Rows : r \in report.counted <=>
                    /\ r \in report.snapshot /\ InWindow(r, report.window)
                    /\ \E i \in DOMAIN ReportTables : i < report.next /\ r.table = ReportTables[i]
    BY <1>1 DEF ReportInv
  <2> QED  BY <1>3, <2>2, <2>3, <2>4 DEF ReportInv
<1>4. ASSUME NEW w \in Window, StartReport(w) PROVE ReportInv'
  BY <1>4, StartReportStep DEF ReportInv
<1>5. CASE PublishReport
  BY <1>5, PublishStep, NoReportShape DEF ReportInv
<1>6. CASE SelectReport
  <2> DEFINE n == report.next
             S == report'.snapshot
             w == report.window
  <2>1. /\ n \in 1 .. 5 /\ report' \in Reports /\ report'.next = n + 1
        /\ report'.window = w
        /\ S = IF n = 1 THEN db ELSE report.snapshot
        /\ report'.inflight = IF n = 1 THEN InFlight ELSE report.inflight
        /\ report'.counted = report.counted \cup Selected(S, ReportTables[n], w)
    BY <1>6, SelectStep
  <2>c. report'.closed <=> IF n = 1 THEN w.end <= now ELSE report.closed
    BY <1>6, SelectStep
  <2>2. UNCHANGED writers /\ published' = published
    BY <1>6 DEF SelectReport, Select
  <2>3. /\ w \in Window
        /\ n > 1 => S = report.snapshot
    BY <1>1, <1>2, <2>1 DEF ReportInv
  <2>4. S \in SUBSET db /\ published.counted \in SUBSET S
    BY <1>1, <2>1 DEF ReportInv, PublishedInv
  <2>5. Closed(S)
    BY <1>1, <2>1 DEF ReportInv, Closed
  <2>6. report'.closed => w.end <= now
    BY <1>1, <2>1, <2>c DEF ReportInv
  <2>7. report'.closed => \A r \in db \cup InFlight :
           r.at < w.end => r \in S \cup report'.inflight
    BY <1>1, <2>1, <2>c DEF ReportInv
  <2>8. ASSUME NEW r \in Rows
        PROVE  r \in report'.counted <=>
                 /\ r \in S /\ InWindow(r, w)
                 /\ \E i \in DOMAIN ReportTables : i < n + 1 /\ r.table = ReportTables[i]
    <3>1. r \in Selected(S, ReportTables[n], w) <=>
            r \in S /\ InWindow(r, w) /\ r.table = ReportTables[n]
      BY DEF Selected, InWindow
    <3>2. (\E i \in DOMAIN ReportTables : i < n + 1 /\ r.table = ReportTables[i]) <=>
            \/ \E i \in DOMAIN ReportTables : i < n /\ r.table = ReportTables[i]
            \/ r.table = ReportTables[n]
      <4>1. \A i \in 1 .. 5 : i < n + 1 <=> i < n \/ i = n
        BY <2>1
      <4> QED  BY <2>1, <4>1, TablesInOrder
    <3>3. CASE n = 1
      <4>1. report.counted = {} /\ \A i \in 1 .. 5 : ~ (i < n)
        BY <1>1, <3>3 DEF ReportInv
      <4> HIDE DEF S, n, w
      <4> QED  BY <2>1, <3>1, <3>2, <4>1, TablesInOrder
    <3>4. CASE n > 1
      <4>1. r \in report.counted <=>
              /\ r \in S /\ InWindow(r, w)
              /\ \E i \in DOMAIN ReportTables : i < n /\ r.table = ReportTables[i]
        <5>1. \A q \in Rows : q \in report.counted <=>
                /\ q \in report.snapshot /\ InWindow(q, report.window)
                /\ \E i \in DOMAIN ReportTables : i < report.next /\ q.table = ReportTables[i]
          BY <1>1, <3>4 DEF ReportInv
        <5>2. S = report.snapshot
          BY <2>3, <3>4
        <5> HIDE DEF S
        <5>3. r \in report.counted <=>
                /\ r \in report.snapshot /\ InWindow(r, report.window)
                /\ \E i \in DOMAIN ReportTables : i < report.next /\ r.table = ReportTables[i]
          BY ONLY <5>1, r \in Rows, Zenon
        <5> QED  BY ONLY <5>2, <5>3, Zenon DEF n, w
      <4> HIDE DEF S, n, w
      <4> QED  BY <2>1, <3>1, <3>2, <4>1
    <3> QED  BY <2>1, <3>3, <3>4
  <2>9. Closed(report.snapshot)'
    BY <2>2, <2>5 DEF Closed, writers
  <2>10. InFlight' = InFlight
    BY <2>2 DEF InFlight, writers
  <2>11. report'.next > 1 /\ report'.next >= 1 /\ ~ (report'.next <= 1)
    BY <2>1
  <2>a. now' = now /\ db' = db
    BY <2>2 DEF writers
  <2>12. /\ report'.window \in Window
         /\ report'.closed => report'.window.end <= now'
         /\ report'.snapshot \in SUBSET db' /\ published'.counted \in SUBSET report'.snapshot
    <3>1. report'.window = w /\ w \in Window
      BY <2>1, <2>3
    <3>2. report'.closed => report'.window.end <= now'
      BY ONLY <2>6, <2>a, <3>1, Zenon
    <3> QED  BY <2>2, <2>4, <2>a, <3>1, <3>2
  <2>13. report'.closed => \A r \in db' \cup InFlight' :
            r.at < report'.window.end => r \in report'.snapshot \cup report'.inflight
    BY <2>1, <2>2, <2>7, <2>10 DEF writers
  <2>14. \A r \in Rows : r \in report'.counted <=>
            /\ r \in report'.snapshot /\ InWindow(r, report'.window)
            /\ \E i \in DOMAIN ReportTables : i < report'.next /\ r.table = ReportTables[i]
    BY <2>1, <2>8
  <2> HIDE DEF S, n, w
  <2> QED  BY <2>9, <2>11, <2>12, <2>13, <2>14 DEF ReportInv, InWindow
<1> QED
  BY <1>3, <1>4, <1>5, <1>6, StepSplit
  DEF vars, readers, Writes, Reads, Tick, Stamps, Stamp, Commit, Rollback, StartMetrics,
      SelectMetrics, AnswerMetrics, StartPurge, FailPurge, PurgeTable

\* What was published stays closed, and misses no row but those in flight.
LEMMA PublishedStep ==
    ASSUME IInv, [Next]_vars
    PROVE  PublishedInv'
<1>1. TypeInv /\ ToolInv /\ ReportInv /\ PublishedInv /\ Flow
  BY StepFlow DEF IInv
<1>2. /\ published \in Reports /\ report \in Reports /\ now \in Nat /\ db \in SUBSET Rows
      /\ InFlight \in SUBSET Rows
  BY <1>1, Days, InFlightRows DEF TypeInv
<1>3. ASSUME published' = published PROVE PublishedInv'
  <2>1. published.closed => published.window.start \in Nat /\ published.window.end \in Nat
    <3>1. published.closed => published.window \in Window
      BY <1>1 DEF PublishedInv
    <3> QED  BY <3>1, WindowDays
  <2>2. published.closed => published.window \in Window /\ published.window.end <= now'
    BY <1>1, <1>2, <2>1 DEF PublishedInv, Flow
  <2>3. published.counted \in SUBSET db'
    <3>1. CASE published = NoReport
      BY <3>1, NoReportShape
    <3>2. CASE tool # "purge"
      BY <1>1, <3>2 DEF PublishedInv, Flow
    <3> QED  BY <1>1, <3>1, <3>2 DEF ToolInv
  <2>4. ASSUME NEW r \in published.counted, NEW s \in db',
               <<r.table, s.table>> \in Behind, s.of = r.of,
               s.table \in Reported, InWindow(s, published.window)
        PROVE  s \in published.counted
    <3>1. r \in db
      BY <1>1 DEF PublishedInv
    <3>2. s \in db
      BY <1>1, <2>4, <3>1 DEF Flow
    <3> QED  BY <1>1, <2>4, <3>2 DEF PublishedInv
  <2>5. ASSUME published.closed, NEW r \in db' \cup InFlight',
               r.table \in Reported, InWindow(r, published.window)
        PROVE  r \in published.counted \cup published.inflight
    <3>1. r.at # now
      BY <1>1, <1>2, <2>1, <2>5 DEF PublishedInv, InWindow
    <3>2. r \in db \cup InFlight
      BY <1>1, <2>5, <3>1 DEF Flow
    <3> QED  BY <1>1, <2>5, <3>2 DEF PublishedInv
  <2>6. \A r \in published.counted : r.table \in Reported /\ InWindow(r, published.window)
    BY <1>1 DEF PublishedInv
  <2> QED  BY <1>3, <2>2, <2>3, <2>4, <2>5, <2>6 DEF PublishedInv, InWindow
<1>4. CASE PublishReport
  <2>1. /\ report.next = 6 /\ published' \in Reports
        /\ published'.window = report.window /\ published'.inflight = report.inflight
        /\ published'.closed = report.closed /\ published'.counted = report.counted
    BY <1>4, PublishStep
  <2>2. now' = now /\ db' = db /\ InFlight' = InFlight
    BY <1>4 DEF PublishReport, writers, InFlight
  <2>3. /\ report.window \in Window
        /\ report.snapshot \in SUBSET db /\ Closed(report.snapshot)
        /\ report.closed => report.window.end <= now
        /\ report.closed => \A r \in db \cup InFlight :
              r.at < report.window.end => r \in report.snapshot \cup report.inflight
        /\ \A r \in Rows : r \in report.counted <=>
              /\ r \in report.snapshot /\ InWindow(r, report.window)
              /\ \E i \in DOMAIN ReportTables : i < report.next /\ r.table = ReportTables[i]
    BY <1>1, <2>1 DEF ReportInv
  <2>4. report.counted \in SUBSET Rows
    BY <1>2 DEF Reports
  <2>5. \A r \in Rows : r \in report.counted <=>
           r \in report.snapshot /\ InWindow(r, report.window) /\ r.table \in Reported
    BY <2>1, <2>3, ReportedTables
  <2>6. ASSUME NEW r \in report.counted, NEW s \in db, <<r.table, s.table>> \in Behind,
               s.of = r.of, s.table \in Reported, InWindow(s, report.window)
        PROVE  s \in report.counted
    <3>1. r \in report.snapshot /\ s \in Rows
      BY <1>2, <2>4, <2>5
    <3>2. s \in report.snapshot
      BY <2>3, <2>6, <3>1 DEF Closed
    <3> QED  BY <2>5, <2>6, <3>1, <3>2
  <2>7. ASSUME report.closed, NEW r \in db \cup InFlight, r.table \in Reported,
               InWindow(r, report.window)
        PROVE  r \in report.counted \cup report.inflight
    <3>1. r \in Rows /\ r \in report.snapshot \cup report.inflight
      BY <1>2, <2>3, <2>7 DEF InWindow
    <3> QED  BY <2>5, <2>7, <3>1
  <2>8. report.counted \in SUBSET db
    BY <2>3, <2>4, <2>5
  <2>9. \A r \in report.counted : r.table \in Reported /\ InWindow(r, report.window)
    BY <2>4, <2>5
  <2>10. published'.closed <=> report.closed
    BY <2>1, Zenon
  <2>11. published'.closed =>
            published'.window \in Window /\ published'.window.end <= now'
    BY <2>1, <2>2, <2>3, <2>10
  <2> QED
    BY <2>1, <2>2, <2>6, <2>7, <2>8, <2>9, <2>10, <2>11 DEF PublishedInv, InWindow
<1> QED
  BY <1>3, <1>4, StepSplit
  DEF vars, readers, Writes, Reads, Tick, Stamps, Stamp, Commit, Rollback, StartReport, SelectReport,
      Select, StartMetrics, SelectMetrics, AnswerMetrics, StartPurge, FailPurge, PurgeTable

\* What a metrics request has seen stays true of the database.
LEMMA MetricsStep ==
    ASSUME IInv, [Next]_vars
    PROVE  MetricsInv'
<1>1. TypeInv /\ ToolInv /\ MetricsInv /\ RowInv /\ Flow
  BY StepFlow DEF IInv
<1>2. metrics.since \in Nat /\ metrics.seen \in Seq(SUBSET Rows)
  BY <1>1 DEF TypeInv
<1>3. ASSUME metrics' = metrics PROVE MetricsInv'
  <2>1. CASE metrics = NoMetrics
    <3>1. metrics'.seen = NoMetrics.seen /\ Len(NoMetrics.seen) = 0
      BY <1>3, <2>1, NoMetricsShape
    <3>2. /\ ~ (Len(metrics'.seen) >= 1) /\ ~ (Len(metrics'.seen) >= 2)
          /\ ~ (Len(metrics'.seen) >= 3) /\ ~ (Len(metrics'.seen) >= 4)
          /\ ~ (Len(metrics'.seen) >= 5)
      BY <3>1
    <3> QED  BY ONLY <3>2 DEF MetricsInv
  <2>2. CASE metrics # NoMetrics
    <3>1. db \subseteq db'
      BY <1>1, <2>2 DEF ToolInv, Flow
    <3>2. ASSUME Len(metrics.seen) >= 4, NEW v \in metrics.seen[3], NEW f \in db',
                 f.table = "findings", f.of = v.of, Recent(f)
          PROVE  f \in metrics.seen[4]
      <4>1. v \in db /\ v.table = "verdicts"
        BY <1>1, <1>2, <3>2 DEF MetricsInv
      <4>2. <<v.table, f.table>> \in Behind
        BY <3>2, <4>1 DEF Behind
      <4>3. f \in db
        BY <1>1, <3>2, <4>1, <4>2 DEF Flow
      <4> QED  BY <1>1, <3>2, <4>3 DEF MetricsInv
    <3>3. /\ Len(metrics.seen) >= 1 =>
                \A v \in metrics.seen[1] : v \in db' /\ v.table = "verdicts"
          /\ Len(metrics.seen) >= 2 =>
                \A p \in metrics.seen[2] : p \in db' /\ p.table = "population_findings"
          /\ Len(metrics.seen) >= 3 =>
                /\ \A v \in metrics.seen[3] : v \in db' /\ v.table = "verdicts"
                /\ \A v \in metrics.seen[1] : Recent(v) => v \in metrics.seen[3]
          /\ Len(metrics.seen) >= 5 =>
                \A p \in metrics.seen[2] : Recent(p) => p \in metrics.seen[5]
      BY <1>1, <3>1 DEF MetricsInv
    <3> QED  BY <1>3, <3>2, <3>3 DEF MetricsInv, Recent
  <2> QED  BY <2>1, <2>2
<1>4. ASSUME Len(metrics'.seen) = 0 PROVE MetricsInv'
  <2>1. /\ ~ (Len(metrics'.seen) >= 1) /\ ~ (Len(metrics'.seen) >= 2)
        /\ ~ (Len(metrics'.seen) >= 3) /\ ~ (Len(metrics'.seen) >= 4)
        /\ ~ (Len(metrics'.seen) >= 5)
    BY <1>4
  <2> QED  BY ONLY <2>1 DEF MetricsInv
<1>5. ASSUME NEW since \in Day, StartMetrics(since) PROVE MetricsInv'
  <2>1. metrics = NoMetrics /\ metrics' = [metrics EXCEPT !.since = since]
    BY <1>5 DEF StartMetrics
  <2>2. metrics'.seen = NoMetrics.seen
    BY <2>1, NoMetricsShape
  <2>3. Len(metrics'.seen) = 0
    BY <2>2, NoMetricsShape
  <2> QED  BY <1>4, <2>3
<1>6. CASE AnswerMetrics
  <2>1. metrics' = NoMetrics
    BY <1>6 DEF AnswerMetrics
  <2> QED  BY <1>4, <2>1, NoMetricsShape
<1>7. CASE SelectMetrics
  <2> DEFINE i == Len(metrics.seen) + 1
             S == {r \in db : /\ r.table = MetricsTables[i]
                              /\ i \in Unwindowed \/ metrics.since <= r.at}
  <2>1. /\ i \in 1 .. 6 /\ S \in SUBSET Rows
        /\ metrics'.since = metrics.since /\ metrics'.seen = Append(metrics.seen, S)
    BY <1>7, SelectMetricsStep
  <2>2. db' = db
    BY <1>7 DEF SelectMetrics, writers
  <2>3. \A r : r \in S => r \in db /\ r.table = MetricsTables[i]
    OBVIOUS
  <2>4. \A r \in db : r.table = MetricsTables[i] /\ Recent(r) => r \in S
    BY DEF Recent
  <2> HIDE DEF S
  <2>5. /\ Len(metrics'.seen) = i /\ metrics'.seen[i] = S
        /\ \A j \in 1 .. 6 : j < i => metrics'.seen[j] = metrics.seen[j]
    BY <1>2, <2>1
  <2>6. Len(metrics.seen) \in Nat /\ i = Len(metrics.seen) + 1
    BY <1>2
  <2> HIDE DEF i
  <2>7. Len(metrics'.seen) >= 1 =>
           \A v \in metrics'.seen[1] : v \in db /\ v.table = "verdicts"
    <3>1. CASE i = 1
      BY <2>3, <2>5, <3>1, TablesInOrder
    <3>2. CASE i > 1
      <4>1. Len(metrics.seen) >= 1 /\ metrics'.seen[1] = metrics.seen[1]
        BY <2>1, <2>5, <2>6, <3>2
      <4> QED  BY <1>1, <4>1 DEF MetricsInv
    <3> QED  BY <2>1, <3>1, <3>2
  <2>8. Len(metrics'.seen) >= 2 =>
           \A p \in metrics'.seen[2] : p \in db /\ p.table = "population_findings"
    <3>1. CASE i = 2
      BY <2>3, <2>5, <3>1, TablesInOrder
    <3>2. CASE i > 2
      <4>1. Len(metrics.seen) >= 2 /\ metrics'.seen[2] = metrics.seen[2]
        BY <2>1, <2>5, <2>6, <3>2
      <4> QED  BY <1>1, <4>1 DEF MetricsInv
    <3> QED  BY <2>1, <2>5, <3>1, <3>2
  <2>9. Len(metrics'.seen) >= 3 =>
           /\ \A v \in metrics'.seen[3] : v \in db /\ v.table = "verdicts"
           /\ \A v \in metrics'.seen[1] : Recent(v) => v \in metrics'.seen[3]
    <3>1. CASE i = 3
      <4>1. Len(metrics.seen) >= 1 /\ metrics'.seen[1] = metrics.seen[1]
        BY <2>1, <2>5, <2>6, <3>1
      <4>2. \A v \in metrics.seen[1] : v \in db /\ v.table = "verdicts"
        BY <1>1, <4>1 DEF MetricsInv
      <4> QED  BY <2>3, <2>4, <2>5, <3>1, <4>1, <4>2, TablesInOrder
    <3>2. CASE i > 3
      <4>1. /\ Len(metrics.seen) >= 3 /\ metrics'.seen[1] = metrics.seen[1]
            /\ metrics'.seen[3] = metrics.seen[3]
        BY <2>1, <2>5, <2>6, <3>2
      <4> QED  BY <1>1, <4>1 DEF MetricsInv
    <3> QED  BY <2>1, <2>5, <3>1, <3>2
  <2>10. Len(metrics'.seen) >= 4 =>
            \A v \in metrics'.seen[3], f \in db :
               f.table = "findings" /\ f.of = v.of /\ Recent(f) => f \in metrics'.seen[4]
    <3>1. CASE i = 4
      BY <2>4, <2>5, <3>1, TablesInOrder
    <3>2. CASE i > 4
      <4>1. /\ Len(metrics.seen) >= 4 /\ metrics'.seen[3] = metrics.seen[3]
            /\ metrics'.seen[4] = metrics.seen[4]
        BY <2>1, <2>5, <2>6, <3>2
      <4> QED  BY <1>1, <4>1 DEF MetricsInv
    <3> QED  BY <2>1, <2>5, <3>1, <3>2
  <2>11. Len(metrics'.seen) >= 5 =>
            \A p \in metrics'.seen[2] : Recent(p) => p \in metrics'.seen[5]
    <3>1. CASE i = 5
      <4>1. Len(metrics.seen) >= 2 /\ metrics'.seen[2] = metrics.seen[2]
        BY <2>1, <2>5, <2>6, <3>1
      <4>2. \A p \in metrics.seen[2] : p \in db /\ p.table = "population_findings"
        BY <1>1, <4>1 DEF MetricsInv
      <4> QED  BY <2>4, <2>5, <3>1, <4>1, <4>2, TablesInOrder
    <3>2. CASE i > 5
      <4>1. /\ Len(metrics.seen) >= 5 /\ metrics'.seen[2] = metrics.seen[2]
            /\ metrics'.seen[5] = metrics.seen[5]
        BY <2>1, <2>5, <2>6, <3>2
      <4> QED  BY <1>1, <4>1 DEF MetricsInv
    <3> QED  BY <2>1, <2>5, <3>1, <3>2
  <2> QED
    BY <2>1, <2>2, <2>7, <2>8, <2>9, <2>10, <2>11 DEF MetricsInv, Recent
<1> QED
  BY <1>3, <1>5, <1>6, <1>7, StepSplit
  DEF vars, readers, Writes, Reads, Tick, Stamps, Stamp, Commit, Rollback, StartReport, SelectReport,
      Select, PublishReport, StartPurge, FailPurge, PurgeTable

\* A run of the retention tool has deleted what it has come to.
LEMMA PurgeStep ==
    ASSUME IInv, [Next]_vars
    PROVE  PurgeInv'
<1>1. TypeInv /\ ToolInv /\ RowInv /\ PurgeInv /\ Flow
  BY StepFlow DEF IInv
<1>2. /\ purge.now \in Nat /\ now \in Nat /\ db \in SUBSET Rows /\ purge.before \in SUBSET Rows
      /\ InFlight \in SUBSET Rows
      /\ purge.at \in PurgedTable \cup {"idle", "exit 0", "exit 1"}
  BY <1>1, Days, InFlightRows DEF TypeInv
<1>3. /\ \A r \in Rows : r.at \in Nat
      /\ \A table \in PurgedTable : Retention[table] \in Nat \cup {None}
  BY Days DEF Rows
<1>4. now' \in Nat /\ purge.now <= now'
  <2>1. ASSUME NEW a \in Nat, NEW b \in Nat, NEW c \in Nat, a <= b, c >= b PROVE a <= c
    BY ONLY <2>1
  <2>2. now' \in Nat /\ now' >= now /\ purge.now <= now
    BY <1>1 DEF PurgeInv, Flow
  <2> QED  BY ONLY <1>2, <2>1, <2>2, Zenon
<1>5. ASSUME NEW r \in Rows, r.table \in PurgedTable, r.at >= purge.now PROVE Kept(r)
  <2>1. CASE Retention[r.table] = None
    BY <2>1 DEF Kept
  <2>2. CASE Retention[r.table] \in Nat
    <3>1. ASSUME NEW a \in Nat, NEW b \in Nat, NEW c \in Nat, a >= b PROVE a >= b - c
      BY ONLY <3>1
    <3>2. r.at >= purge.now - Retention[r.table]
      BY <1>2, <1>3, <1>5, <2>2, <3>1
    <3> QED  BY <3>2 DEF Kept
  <2> QED  BY <1>3, <1>5, <2>1, <2>2
<1>6. ASSUME NEW r \in purge.before, r \in InFlight' PROVE r.at >= purge.now
  <2>1. CASE r \in InFlight
    BY <1>1, <2>1 DEF PurgeInv
  <2>2. CASE r \notin InFlight
    <3>1. r.at = now
      BY <1>1, <1>6, <2>2 DEF Flow
    <3>2. purge.now <= now
      BY <1>1 DEF PurgeInv
    <3> QED  BY ONLY <1>2, <3>1, <3>2
  <2> QED  BY <2>1, <2>2
<1>7. ASSUME purge' = purge PROVE PurgeInv'
  <2>1. ASSUME NEW r \in purge.before, r \in db', r.table \in PurgedTable,
               \/ /\ r.table = "shadow_findings"
                  /\ purge.at \in {"protected_attribute_resolutions", "exit 0"}
               \/ r.table = "protected_attribute_resolutions" /\ purge.at = "exit 0"
        PROVE  Kept(r)
    <3>1. CASE r \in db
      BY <1>1, <2>1, <3>1 DEF PurgeInv
    <3>2. CASE r \in InFlight
      <4>1. r.at >= purge.now /\ r \in Rows
        BY <1>1, <1>2, <3>2 DEF PurgeInv
      <4> QED  BY <1>5, <2>1, <4>1
    <3> QED  BY <1>1, <2>1, <3>1, <3>2 DEF Flow
  <2> QED  BY <1>4, <1>6, <1>7, <2>1 DEF PurgeInv, Kept, PurgedTable
<1>8. CASE StartPurge
  <2>1. /\ purge'.at = "shadow_findings" /\ purge'.now = now /\ purge'.before = db
        /\ now' = now /\ db' = db /\ InFlight' = InFlight
    BY <1>8 DEF StartPurge, writers, InFlight
  <2>2. ASSUME NEW r \in db, r \in InFlight PROVE FALSE
    <3>1. PICK t \in Transaction : r \in pending[t]
      BY <2>2 DEF InFlight
    <3>2. ~ Has(r.table, r.of)
      BY <1>1, <3>1 DEF RowInv
    <3> QED  BY <2>2, <3>2 DEF Has
  <2>3. purge'.now <= now'
    <3>1. \A i \in Nat : i <= i
      OBVIOUS
    <3>2. now <= now
      BY ONLY <1>2, <3>1, Zenon
    <3> QED  BY ONLY <2>1, <3>2, Zenon
  <2>4. \A r \in purge'.before : ~ (r \in InFlight')
    BY <2>1, <2>2
  <2>5. /\ purge'.at # "protected_attribute_resolutions" /\ purge'.at # "exit 0"
    BY <2>1
  <2> QED  BY ONLY <2>3, <2>4, <2>5, Zenon DEF PurgeInv
<1>9. CASE FailPurge
  <2>1. /\ purge'.at = "exit 1" /\ purge'.now = purge.now /\ purge'.before = purge.before
    BY <1>1, <1>9 DEF FailPurge, TypeInv
  <2> QED  BY <1>4, <1>6, <2>1 DEF PurgeInv
<1>10. CASE PurgeTable
  <2>1. /\ purge.at \in PurgedTable /\ db' = db \ Expired(purge.at)
        /\ purge'.at = Following[purge.at]
        /\ purge'.now = purge.now /\ purge'.before = purge.before
    BY <1>1, <1>10 DEF PurgeTable, TypeInv
  <2>2. ASSUME NEW r \in db', r.table = purge.at PROVE Kept(r)
    <3>1. r \in db /\ r \in Rows /\ r \notin Expired(purge.at)
      BY <1>2, <2>1
    <3>2. CASE Retention[purge.at] = None
      BY <2>2, <3>2 DEF Kept
    <3>3. CASE Retention[purge.at] # None
      <4>1. Retention[purge.at] \in Nat /\ r.at \in Nat
        BY <1>3, <2>1, <3>1, <3>3
      <4>2. ~ (r.at < purge.now - Retention[purge.at])
        BY <2>2, <3>1, <3>3 DEF Expired, retention_days
      <4>3. ASSUME NEW a \in Nat, NEW b \in Nat, NEW c \in Nat, ~ (a < b - c)
            PROVE  a >= b - c
        BY ONLY <4>3
      <4>4. r.at >= purge.now - Retention[purge.at]
        BY <1>2, <4>1, <4>2, <4>3
      <4> QED  BY <2>2, <4>4 DEF Kept
    <3> QED  BY <3>2, <3>3
  <2>3. CASE purge.at = "shadow_findings"
    <3>1. purge'.at = "protected_attribute_resolutions"
      BY <2>1, <2>3 DEF Following, PurgedTable
    <3> QED  BY <1>4, <1>6, <2>1, <2>2, <2>3, <3>1 DEF PurgeInv, Kept
  <2>4. CASE purge.at = "protected_attribute_resolutions"
    <3>1. purge'.at = "exit 0"
      BY <2>1, <2>4 DEF Following, PurgedTable
    <3>2. \A r \in purge.before \cap db' : r.table = "shadow_findings" => Kept(r)
      BY <1>1, <2>1, <2>4 DEF PurgeInv
    <3> QED  BY <1>4, <1>6, <2>1, <2>2, <2>4, <3>1, <3>2 DEF PurgeInv, Kept
  <2> QED  BY <2>1, <2>3, <2>4 DEF PurgedTable
<1> QED
  BY <1>7, <1>8, <1>9, <1>10, StepSplit
  DEF vars, readers, Writes, Reads, Tick, Stamps, Stamp, Commit, Rollback, StartReport, SelectReport,
      Select, PublishReport, StartMetrics, SelectMetrics, AnswerMetrics

\* IInv is inductive, and so holds of every reachable state.
LEMMA StepInv == IInv /\ [Next]_vars => IInv'
BY TypeStep, ToolStep, RowStep, ReportStep, PublishedStep, MetricsStep, PurgeStep DEF IInv

\* The invariant of every behaviour.
LEMMA Invariant == Spec => []IInv
BY InitInv, StepInv, PTL DEF Spec
-----------------------------------------------------------------------------
\* The counts of one report belong together (get_compliance_report).
THEOREM ReportsClosed == Spec => []ReportClosed
<1>1. IInv => ReportClosed
  <2> SUFFICES ASSUME IInv, NEW r \in published.counted, NEW s \in db, s.of = r.of,
                      s \in Selected(db, s.table, published.window),
                      \/ r.table = "verdicts" /\ s.table = "findings"
                      \/ r.table = "verdict_reviews" /\ s.table = "verdicts"
                      \/ /\ r.table = "population_finding_reviews"
                         /\ s.table = "population_findings"
               PROVE  s \in published.counted
    BY DEF ReportClosed
  <2>1. <<r.table, s.table>> \in Behind /\ s.table \in Reported
    BY DEF Behind, Reported
  <2>2. InWindow(s, published.window)
    BY DEF Selected, InWindow
  <2> QED  BY <2>1, <2>2 DEF IInv, PublishedInv
<1> QED  BY <1>1, Invariant, PTL

\* Generating a closed window's report again adds only the rows whose
\* transactions were open (default_window, half-open windows).
THEOREM RegenerationSound == Spec => RegenerationAddsLateOnly
<1>1. IInv /\ [Next]_vars =>
        [published.closed /\ published'.window = published.window =>
           /\ published.counted \subseteq published'.counted
           /\ published'.counted \ published.counted \subseteq published.inflight]_vars
  <2> SUFFICES ASSUME IInv, [Next]_vars, published.closed,
                      published'.window = published.window
               PROVE  /\ published.counted \subseteq published'.counted
                      /\ published'.counted \ published.counted \subseteq published.inflight
    OBVIOUS
  <2>1. CASE published' = published
    BY <2>1
  <2>2. CASE PublishReport
    <3>1. /\ report.next = 6 /\ published'.counted = report.counted
          /\ report.window = published.window
      BY <2>2, PublishStep
    <3>2. /\ report.snapshot \in SUBSET db /\ published.counted \in SUBSET report.snapshot
          /\ \A r \in Rows : r \in report.counted <=>
                /\ r \in report.snapshot /\ InWindow(r, report.window)
                /\ \E i \in DOMAIN ReportTables : i < report.next /\ r.table = ReportTables[i]
      BY <3>1 DEF IInv, ReportInv
    <3>3. \A r \in Rows : r \in report.counted <=>
             r \in report.snapshot /\ InWindow(r, published.window) /\ r.table \in Reported
      BY <3>1, <3>2, ReportedTables
    <3>4. /\ \A r \in published.counted : r.table \in Reported /\ InWindow(r, published.window)
          /\ \A r \in db \cup InFlight :
                r.table \in Reported /\ InWindow(r, published.window) =>
                    r \in published.counted \cup published.inflight
      BY DEF IInv, PublishedInv
    <3>5. db \in SUBSET Rows /\ report.counted \in SUBSET Rows
      BY DEF IInv, TypeInv, Reports
    <3> QED  BY <3>1, <3>2, <3>3, <3>4, <3>5
  <2> QED
    BY <2>1, <2>2, StepSplit
    DEF vars, readers, Writes, Reads, Tick, Stamps, Stamp, Commit, Rollback, StartReport,
        SelectReport, Select, StartMetrics, SelectMetrics, AnswerMetrics, StartPurge, FailPurge,
        PurgeTable
<1> QED  BY <1>1, Invariant, PTL DEF Spec, RegenerationAddsLateOnly

\* The parts of one metrics response fit (get_metrics).
THEOREM MetricsFit == Spec => []MetricsAgree
<1>1. IInv => MetricsAgree
  <2> SUFFICES ASSUME IInv, Len(metrics.seen) = Len(MetricsTables)
               PROVE  /\ \A v \in metrics.seen[1] : Recent(v) => v \in metrics.seen[3]
                      /\ \A p \in metrics.seen[2] : Recent(p) => p \in metrics.seen[5]
                      /\ \A v \in metrics.seen[3], f \in db :
                            f.table = "findings" /\ f.of = v.of /\ Recent(f) =>
                               f \in metrics.seen[4]
    BY DEF MetricsAgree, Recent
  <2>1. Len(metrics.seen) = 6
    BY TablesInOrder
  <2>2. Len(metrics.seen) >= 3 /\ Len(metrics.seen) >= 4 /\ Len(metrics.seen) >= 5
    BY <2>1
  <2> QED  BY <2>2 DEF IInv, MetricsInv
<1> QED  BY <1>1, Invariant, PTL

\* The retention tool deletes what is expired and nothing else, and when it
\* exits 0 it has deleted all of it (run_purge, main).
THEOREM PurgesExactly == Spec => PurgeIsExact
<1>1. IInv /\ [Next]_vars => [OnlyExpiredGo]_vars
  <2> SUFFICES ASSUME IInv, [Next]_vars, NEW r \in db \ db'
               PROVE  /\ r.table \in PurgedTable /\ Retention[r.table] # None
                      /\ r.at < now - Retention[r.table]
    BY DEF OnlyExpiredGo
  <2>1. PurgeTable
    BY StepSplit, ReadsOnly DEF vars, writers, Tick, Writes, Stamps, Stamp, Commit, Rollback
  <2>2. purge.at \in PurgedTable /\ r \in Expired(purge.at)
    BY <2>1 DEF PurgeTable
  <2>3. /\ Retention[purge.at] # None /\ r.table = purge.at
        /\ r.at < purge.now - Retention[purge.at]
    BY <2>2 DEF Expired, retention_days
  <2>4. /\ r \in Rows /\ purge.now \in Nat /\ now \in Nat /\ purge.now <= now
    BY Days DEF IInv, TypeInv, PurgeInv
  <2>5. r.at \in Nat /\ Retention[purge.at] \in Nat
    <3>1. Retention[purge.at] \in Nat \cup {None}
      BY <2>2
    <3> QED  BY <2>3, <2>4, <3>1, Days DEF Rows
  <2> QED  BY <2>2, <2>3, <2>4, <2>5
<1>2. IInv => AllExpiredGone
  BY DEF IInv, PurgeInv, Kept, PurgedTable, AllExpiredGone
<1>3. IInv /\ IInv' /\ [Next]_vars => [OnlyExpiredGo /\ AllExpiredGone']_vars
  <2>1. IInv' => AllExpiredGone'
    BY <1>2, PTL
  <2> QED  BY <1>1, <2>1
<1> QED  BY <1>3, Invariant, PTL DEF Spec, PurgeIsExact
=============================================================================
