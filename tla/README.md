# A TLA+ model of the governance platform

This directory holds TLA+ modules that model the platform in
`src/src/gov_platform`, TLC configurations that check them on small instances,
and TLAPS proofs of the properties that matter most. `PROJECT.json` maps every
definition to the lines it models and lists runs, mutants, hazards, findings
and theorems.

    tlc -workers 2 -config MCEvidenceChain.cfg MCEvidenceChain
    tlapm EvidenceChainProofs.tla

## 1. The system

The platform receives decisions of automated systems over HTTP, judges each
with the policies bound to the adapter it came through, and stores decision,
verdict and findings as evidence in a hash chain. Humans review the verdicts
that call for it; batch jobs judge populations of decisions, verify the
evidence, purge what may be purged, and report. There are plain `def` handlers
in a thread pool, a few `async def` functions on the event loop, and CLI tools,
over one Postgres database at READ COMMITTED (the compliance report and the
window of a population run ask for REPEATABLE READ). What a process keeps beyond a request is its signing and
encryption keys, the catalogue of plugin classes and the pool of connections.
Concurrency is thus of two kinds: between transactions of several processes,
statement by statement, with row locks, unique indexes and one advisory lock as
the only synchronisation; and between requests of one process, which share its
threads, its event loop and its connections.

| Component | State | Operations | Interacts with | What makes it correct |
|---|---|---|---|---|
| Evidence Store (`audit/evidence_store.py`) | `systems`, `model_versions`, `decision_events`, `findings`, `verdicts`, `verdict_findings`, `protected_attribute_resolutions`, `evidence_chain` | `append`, `get`, `all` | called by ingestion; admin `POST /systems`; reads the attribute rules; queues reviews | the chain is one unbroken line, an event is recorded once, all of a decision or nothing, with the attribute rules that were there |
| Chain verification (`audit/verify_chain.py`) | none | `verify_chain`, `verify_chain_from_database` | reads the chain, decrypts it | accepts what append writes, locates what was altered, tells unreadable from corrupted |
| Human review (`db/repositories/verdict_review.py`, `population_finding_review.py`, `human_review/backfill_reviews.py`) | `verdict_reviews`, `population_finding_reviews` | create, claim, release, resolve, reconcile | write paths, tool, reviewers | one review in progress per subject, history kept, none forgotten, answers and names true |
| Plugin registry (`db/repositories/plugin_registration.py`) | `plugin_registrations` | create, promote, seed | admin API, seed tool, read by ingestion and runs | one version in PRODUCTION, stages in order |
| Policy bindings (`db/repositories/policy_binding.py`) | `policy_bindings`, `population_policy_bindings` | create, activate, deactivate, seed | same | one active binding, history kept, admins respected |
| Ingestion (`api/ingestion/routes.py`, `governance_engine/engine.py`) | locals of a request, `shadow_findings` | one handler | reads bindings and registry, calls the Evidence Store, runs shadows | whole verdicts, right status, shadows never decide |
| Population runs (`population_engine/`) | `population_findings` | one batch job | reads decisions, rules, bindings; queues reviews | one finding per window, of one snapshot; honest exit status |
| Population policies (`population_engine/policies/`) | none | `evaluate` | called by runs | arithmetic at its boundaries |
| Protected attributes (`protected_attributes/`) | `protected_attribute_rules` | create rule, seed, resolve | Evidence Store, runs, one policy | every attribute of a governed system is classified, in one way |
| Encryption, signing (`audit/encryption.py`, `audit/signing.py`, `audit/verify_population_findings.py`) | keys in settings | encrypt, decrypt, sign, verify | Evidence Store, runs, readers | rows of different key generations stay readable or fail cleanly |
| Principals (`api/dependencies.py`, `db/repositories/principal.py`) | `principals` | create, revoke, authenticate, session | every endpoint | a revoked token stops working |
| Application (`api/app.py`, `db/session.py`) | threads, event loop, pool | serve | every request | nothing leaks, every request is answered, with a code that is true |
| Reports, metrics (`reporting/`, `observability/metrics.py`) | none | SELECTs | all tables | counts that belong together; closed windows regenerate |
| Retention (`retention/purge_expired_records.py`) | two tables | purge | writers of those tables | nothing too young goes, nothing too old stays unreported |
| Migrations (`db/migrate.py`) | `schema_migrations` | migrate | tables | partial failure, concurrent invocation |

What is hard here: several transactions between a read and the write it
justifies; a transaction that blocks on another's uncommitted row and resumes
with a different world; an ORM session that keeps serving a row it read
earlier; failure after a commit and before an answer; tools that overlap with
themselves; jobs that trust a clock reported by others; timestamps that are
taken long before the commit that shows them; requests that ask for a second
connection while they hold one, or wait on the event loop.

## 2. Modules

| Module | Models | State and actions |
|---|---|---|
| `EvidenceLedger` | what the Evidence Store promises | a ledger that grows at its end; `Record`, `Acknowledge` |
| `EvidenceChain` | `EvidenceStore.append`, `SystemRepository`, admin `POST /systems` | committed tables and what each transaction has written; one action per statement that can block or fail, beside the domains that have attribute rules by then (`ruled`, `AddRule`): `AcquireLock`, `LookupSystem`, `ProvisionSystem`, `InsertDecision`, `ResolveAttributes`, `ReadLatestHash`, `InsertChainRow`, `Commit`, `QueueReview`, `Respond`, `Fail` |
| `ChainVerifier` | `verify_chain` over the chains of `EvidenceChain`, `verify_chain_from_database` over their encrypted rows | functions of the rows; alterations, removals, unsigned rows, keys and settings are quantified in its properties |
| `ReviewQueue` | one table of reviews, one part of the reconciliation tool, the repository | review rows with all their columns; `create`, `claim`, `release`, `resolve`, `StartRun`, `Reconcile`, ... |
| `HumanReview` | both tables, the tool's `main`, the endpoints | two instances of `ReviewQueue`, where `main` is, and what callers were told; `StartMain`, `StartFindings`, `FinishMain`, `claim_review`, ... |
| `PluginLifecycle` | what the registry of a plugin promises its readers | the stage of each version; `Register`, `Observe`, `TakeOver`, `Seed`, `StepBack` |
| `PluginRegistry` | registrations, promotion, seed tool | rows as Postgres holds them (committed value, and the value an open transaction has written), plus the row each ORM session has loaded; `Read`, `FindPrevious`, `Demote`, `Write`, `CheckIndex`, `Commit`, `BreakDeadlock` |
| `BindingInForce` | what the bindings of a policy promise their readers | a register; `Bind`, `Unbind` |
| `PolicyBindings` | bindings, their endpoints, the seed tool | committed rows, and the row each open transaction has inserted; `get_active_by_identity`, `get_by_identity`, `create`, `Commit`, `activate`, `deactivate` |
| `Ingestion` | the route handler and `GovernanceEngine.govern` | configuration that admins change, recorded verdicts, locals of each request; `Receive`, `ReadBindings`, `ReadRegistrations`, `Govern`, `Append`, `Shadow`, `Respond` |
| `PopulationRun` | `run_policies` and `build_population_window` | events by day, rules, bindings, findings, locals of each run; `NextBinding`, `OpenWindow`, `CountAttribute`, `Evaluate`, `Insert`, `Commit`, `QueueReview`, `Exit` |
| `FindingVerifier` | `verify_population_findings` over the findings of `PopulationRun` | functions of the stored findings; alterations and cleared signatures are quantified in its properties |
| `PopulationPolicies` | `_resolve_parameters`, `evaluate` of the two population policies | operators on group counts and parameters |
| `PolicyEvaluation` | the rules of a domain, `ProtectedAttributeResolver`, `DirectAttributeInInputsPolicy`, evaluation of a window | the table of rules and the last result; `create_protected_attribute_rule`, `seed_finance_protected_attribute_rules`, `EvaluateEvent`, `EvaluateWindow` |
| `RequestServer` | one application process: `require_role`, `create_session`, the handlers' use of threads and connections, exception handlers | where each request is, connections, lock, principals, cookie; `Accept`, `RequireRole`, `Authenticate`, `Checkout`, `PoolTimeout`, `AcquireLock`, `Commit`, ... |
| `Reporting` | `get_compliance_report`, `get_metrics`, `run_purge` | a clock, committed and pending rows with their timestamps, the run of each reader; `Select`, `SelectMetrics`, `PurgeTable`, ... |

`MC*` modules give the constants of a run; `*Proofs` modules hold theorems.

How they compose. `EvidenceChain` is shown to implement `EvidenceLedger`
(`LedgerSpec`). `ChainVerifier` extends `EvidenceChain`, so it verifies the
chains that append can write and not chains written for the test. `Ingestion`
uses of the components it calls what is shown of them: an event is recorded
once (`OneRecordPerEvent`), versions change their stage as `PluginLifecycle`
lets them, and bindings as `BindingInForce`. `PluginRegistry` implements the
first (`LifecycleSpec`) and `PolicyBindings` the second (`InForceSpec`), so
`Ingestion` has one action for each of their steps (`Seed` is several) and needs
no transactions of admins. `PopulationRun` does the same for bindings, lets the
version in production change freely, and takes events from ingestion in any
order and of any day; `FindingVerifier` extends it and verifies the findings
that runs can store. `HumanReview` composes two
`ReviewQueue`s (by EXTENDS and by INSTANCE) with the `main` that works through
one and then the other. `PolicyEvaluation` composes the rules with the policies
that read them. `RequestServer` keeps of `append` and of the handlers what they
hold and in which order they ask for more; what they do to the tables is in the
other modules, which in turn take a connection to be there when it is wanted,
or to be an error. In `Reporting` a behaviour chooses one of the report, the
metrics and the purge (`tool`) and stamps only rows of the tables it is about
(`Concerns`). They meet in one place, which is left out: the purge deletes shadow
findings, which metrics count in one statement that no property speaks of.

Conventions. Names are those of the source where TLA+ allows. A statement that
waits is an action that is not enabled; a statement that raises leads to the
rollback of its transaction. A mutant (`...Unchecked`, `...KeepLock`, ...)
stands beside the definition it replaces, and is used by no specification: it
says which mistake in the code a property would catch.

### What is abstracted

- A hash is the tuple it digests (`compute_hash`), a signature the hash and the
  key: hashing is injective and a signature cannot be made without the key.
- Payloads, rationales and metric values are model values; times are days, or
  left out, or an order.
- Whether a policy flags is a free choice in `Ingestion` and `PopulationRun`,
  and computed in `PopulationPolicies`: rates are rational numbers there, and
  where a double could fall on either side of a threshold, either outcome is
  possible.
- Encryption of a text is the pair of the text and the key; a column holds the
  pair or, without a key, the text. A token is its principal.
- A connection, a thread, the lock and the event loop are counters and holders;
  30 seconds of waiting are a step that is possible while the pool is empty.
- READ COMMITTED as Postgres implements it: a statement sees what is committed
  when it starts, an UPDATE waits for the row and re-evaluates its condition,
  an INSERT into a unique index waits for an uncommitted duplicate.

## 3. Runs

| Run | Bounds | Shows |
|---|---|---|
| `evidence_chain` | 2 workers, 1 admin, 2 events, 1 system, 1 domain or none, 2 verdicts, identity numbers up to `MaxSeq` = 2; no verdict is one to review, as `chain_verifier` has those | `ChainLinked`, `OneRecordPerEvent`, `RulesApplied`; `LedgerSpec`: append implements the ledger; `RequestsEnd`: no request waits for ever |
| `chain_verifier` | 2 workers, no admin, 3 events, 2 signing keys, 2 encryption keys or none, identity numbers up to 3; every set of unsigned rows | `VerifierAccepts`, `ChangesLocated`, `EncryptionNeverMisleads` |
| `human_review` | 1 verdict, 1 finding, 1 tool run again and again, 2 principals of one name, 2 names, `MaxReviews` = 2 per subject, with and without authentication | `OneActiveReview`, `ReviewHistory`, `MainExitZero`, `AnswersAgree`; `EverythingReviewed`: no subject stays without a review |
| `plugin_registry` | 3 versions, 2 transactions | `OneProduction`, `ProductionKept`; `LifecycleSpec`: the statements implement the lifecycle, in which versions move one at a time and are replaced in one step; `RequestsEnd`, with the deadlock detector |
| `plugin_stage` | 2 versions, 2 transactions | the lost PRODUCTION (section 5) |
| `policy_bindings` | 3 bindings, 2 requests, 2 seed runs, 2 severities | `OneActive`, `SeedRespectsAdmins`; `InForceSpec`: the table implements the register |
| `ingestion` | 1 request at a time, retried, 2 policies, 3 versions, 2 severities, all configurations | `StatusMatchesFindings`, `ShadowsObserveOnly`, `WholeVerdict` |
| `ingestion_shadow` | 1 policy, 3 versions, one not deployed | the 500 after the event is recorded (section 5) |
| `population_run` | 2 runs with a key each, one of them naive about its window's offset, 1 event, `LastDay` = 1, 1 policy in 2 versions, 2 attributes, perhaps a finding of the time before parameters; every set of cleared signatures | `OneSnapshot`, `ExitZeroMeansComputed`, `FindingsStand`, `FindingsVerify`, `ChangedFindingLocated` |
| `policies` | 3 attributes, every table of rules, every event; windows of 2 or 3 groups of 12 counts, or 2 groups of each of 2 attributes; 24 parameters, most of them rejected or at a boundary | `FourFifths`, `NamesDoNotMatter`, `ParametersReproduce`, `OneClassification` |
| `reporting` | 1 event, 1 population finding, 2 units of time, beside the purge 3; the default window and one that is still open; retention of 0 units for shadow findings and 1 for resolutions | `ReportClosed`, `RegenerationAddsLateOnly`, `MetricsAgree`, `PurgeIsExact` |
| `server` | 2 appends and 1 other request at a time, 2 connections, 3 threads, 1 principal | `NothingLeaks`, `OnlyEntitled`, `AnswerTells`; `RequestsAnswered`: every request is answered |

Why the bounds are enough. Every race here is between a transaction and one
that commits, aborts or blocks beside it, so two of them show it: two appends
beside an admin, a run of the tool beside the write path, two promotions. A
third version is there because a demotion can hit a version that was demoted
before, and three bindings are the least with which a deactivated, an active
and a new one coexist. A reviewer's name that no principal has, and a name two
principals share, are both there. In `server` two connections are fewer than
the two appends want (each at most two), so everyone can wait on everyone: with
the lock's holder waiting for the connection that the waiter for the lock has;
the third request finds the pool empty on the event loop. In `reporting` two
units of time are enough for a row to be stamped in a window and committed
after it, or between two statements; the purge has a third, without which no
resolution would be older than its setting. The counts of `policies` contain parity,
no favorable decision, ratios of exactly 4/5 and 1/2, ties for the highest
rate, and groups at and below each minimum. For more workers, runs of the tool, transactions and
versions than a run has, the theorems of section 4 cover the safety
properties. Two identity
numbers make a chain of two rows, or of one after a number that a rollback
burned; the three of `chain_verifier` make chains with a first, a middle and a
last row, and chains with a gap in the middle. `ingestion`
serves one request at a time because requests share nothing but the recorded
events, and there only the atomic insertion in `Append`; a retry at another
configuration follows the first attempt. One event and two attributes are
enough for a snapshot to differ between two SELECTs. Three quantities of the
code grow for ever and are capped in a guard: `MaxSeq` identity numbers of
chain rows, `MaxReviews` review rows of a subject, and the clock, `LastDay`, of
population runs and of `Reporting` (`ClockStops` for each reader). Nothing else is bounded but by the sets
given to the constants.
Severities are two, of which the alphabetical and the intended order differ.

Deadlock is checked in every run. Type invariants are not listed in the
configurations: each was checked by TLC first, and section 4 proves it for every
value of the constants.

### Fairness

Fairness is stated in the `LiveSpec` of four modules; safety does not use it.

- `EvidenceChain`: a statement of a worker or admin that stays enabled is
  executed (`WF Advance`, `WF AdminAdvance`: threads are scheduled), and a
  waiter for the advisory lock or for a system row that is free again and again
  gets it (`SF AcquireLock`, `SF ProvisionSystem`: Postgres queues lock
  requests). Nothing assumes that a commit succeeds.
- `PluginRegistry`: `SF Statement` for each transaction, for the same reason,
  and `WF BreakDeadlock` (Postgres's `deadlock_timeout`).
- `HumanReview` (`HRFairness`): the tool is run again and again and ends its
  runs (`WF StartMain`, `WF FinishMain`), as docs/milestones/M9.md recommends
  ("a nightly ops job"); it is not killed for ever at the same point of its
  work (`SF FinishVerdicts`, `SF StartFindings`); and of its attempts at a
  subject that is without a review infinitely many do not fail
  (`SF ReconcileVerdict`, `SF ReconcileFinding`).
- `RequestServer`: `SF Step` for each request, one formula for all of its steps
  but failures. A running request runs on; a checkout succeeds or times out,
  but the pool's choice is not assumed; the loop serves what is ready in turn;
  threads and the lock are given in the order of arrival. Strong fairness is
  needed where a request competes again and again (loop, threads, lock).

## 4. Proofs

TLAPS proves, for every value of the constants that satisfies the named
assumptions of a module:

| Module | Theorems | Inductive invariant |
|---|---|---|
| `EvidenceChainProofs`, append | `TypeCorrect`, `ChainUnbroken`, `RecordedOnce`, `AttributesResolved`, `ImplementsLedger` | `IInv`: types; the lock's holder is the one between its acquisition and its end (`LockInv`); who has read the latest hash still sees it as the latest (`HeadInv`); sequence numbers of open rows are fresh (`SeqInv`, `FreshInv`); who is past the commit has its row in the chain (`AckInv`). `SystemInv` adds what is known of systems, of who has flushed resolutions and of rules that never go (`FlushedInv`, `Carried`) |
| `EvidenceChainProofs`, verification | `AcceptsAppended`, `LocatesChanges`, `EncryptionHonest` | `TypeOK`, `SeqInv`, `ChainLinked`, and that every row's signature is of its own hash (`SignedInv`) |
| `ReviewQueueProofs`, one queue | `TypeCorrect`, `SingleReview`, `ConsistentColumns`, `AuditableHistory`, `TrustedExit` | types, columns, uniqueness, and for a run of the tool: what it has passed is covered or counted as an error (`Progress`) |
| `ReviewQueueProofs`, both queues | `VerdictQueue`, `FindingQueue`, `WorkflowTypeCorrect`, `TrustedMain`, `HonestAnswers` | `HRInv`: types; `AnswersAgree` itself with `OpenUnclaimed`, an open review has no reviewer; `Progress` of each part, and what `main` remembers of the first while it is in the second (`MainProgress`) |
| `PluginRegistryProofs` | `TypeCorrect`, `UniqueProduction`, `StagesInOrder`, `ProductionStays`, `SeedDone`, `ImplementsLifecycle` | which slots of a row an open transaction owns (`SlotInv`), what its session has loaded (`CallerInv`, `ReadyInv`, `TargetInv`), and what it has written (`WrittenInv`). `DemotedInv` adds that who is demoted was committed in PRODUCTION |
| `PolicyProofs`, bindings | `TypeCorrect`, `SingleBinding`, `HistoryKept`, `SeedRespects`, `ImplementsRegister` | types, and the index: while a row is pending no binding is active and no other row is pending (`IndexInv`) |
| `PolicyProofs`, evaluation | `FourFifthsRule`, `NamesIrrelevant`, `Reproducible`, `Classifications` | `ResultInv`: a finding is what its policy makes of typed counts and resolved parameters (`FindingInv`); a recorded event was judged by the static rules and resolved by the rows as they are (`RecordInv`) |
| `IngestionProofs` | `TypeCorrect`, `StatusSound`, `ShadowsObserve`, `NoPartialVerdict` | `IInv`: types; the verdict of a request that has one is that of the versions governing it (`VerdictOf`), what it is to shadow has left DRAFT and has another version governing (`RequestOf`); what is recorded is sound (`StoreInv`); `ShadowsObserveOnly` itself |
| `PopulationRunProofs` | `TypeCorrect`, `Snapshot`, `ComputedOnce`, `ExitStatus`, `Verifies`, `ChangeLocated` | `IInv`: types, among them that every row carries a signature over columns like its own; what a run holds between two statements is of its snapshot and signed with its key (`WorkInv`); who has inserted a row has its key to itself until the commit (`KeyInv`); what is stored is uniform (`TableInv`); a run without errors has dealt with all it has come to (`DoneInv`, `ExitInv`) |
| `RequestServerProofs` | `TypeCorrect`, `PoolIntact`, `EntitledOnly`, `AnswersTell` | `IInv`: types; the count of connections by the stages of the requests (`CountInv`) and the lock (`LockInv`); nobody is found by a credential that was never issued, and who was stale on arrival stays revoked (`AccessInv`); a decision is recorded between its commit and its answer (`RecordInv`) |
| `ReportingProofs` | `ReportsClosed`, `RegenerationSound`, `MetricsFit`, `PurgesExactly` | `IInv`: types; each row is written by the one transaction that is its own, once, and not before what it is about (`RowInv`); a report's snapshot lacks nothing of a subject it has, its counts are the snapshot's rows of the tables done so far, and of a closed window it lacks only what was in flight (`ReportInv`, `PublishedInv`); each SELECT of a metrics request relative to those before it (`MetricsInv`); what a purge has come to is gone (`PurgeInv`) |

The argument for the chain. `ChainLinked` is not inductive: it holds because
the latest hash a worker has read cannot become stale before that worker
commits, which holds because only the lock's holder inserts, which holds
because the lock is released by the end of the transaction and not before.
`HeadInv` and `LockInv` say this. The refinement maps the ledger to the chain's
payloads by sequence number and `acked` to the answered ones; `Commit` maps to
`Record`, `Respond` to `Acknowledge`, every other step to a stutter.

The argument for the rules. `RulesApplied` compares two moments of one append:
the insertion of the decision row, when the history variable `governed` is
noted, and the resolver's reading of the rules. It holds because between them the
system's row cannot change (the append has looked it up or written it, and
admins only insert) and rules are only added. That a decision which was recorded
before the first rule stays unresolved is the code's behaviour, and the property
says nothing of it.

The argument for the verifier. `ChainLinked` speaks of sequence numbers, which
have gaps; the verifier reads a list. That a finite set of rows can be listed by
ascending number at all is an induction on its size (`RowsInOrder`); then each
listed row links to the one before it (`Chained`), which is all that
`verify_chain` asks of a row without a signature (`Accepts`, `UnsignedFaults`); of one
with a signature it asks for the key as well. A list with a faulty record has a first one,
and that is what is reported (`Locates`). That a removal is noticed uses that a
hash digests the one before it, so no two rows have the same (`HashLonger`,
`HashInjective`).

The argument for the policies. A finite nonempty part of a window has a group
with the highest rate (`HighestRate`, an induction over positions), and the
first of those exists as well (`Reference`). For the ratio it is then enough to
compare with the highest: who is under the limit times some rate is under the
limit times the highest (`UnderHighest`), and who is not clear of that is
another group than the reference (`NotClear`, where the limit is at most 1).
Other names permute the positions (`Renamed`); the set of rates, and without
ties the reference, stay the same.

Induction. The library's induction theorems take an operator as a parameter,
which no installed prover can instantiate. `LeastNumber`, that a nonempty set of
numbers has a least element, follows from the library's theorem on well-founded
relations (`WFMin`), and from it `SetInduction`, which is induction over a set
that is given as one. The proofs about lists and windows use these two.

The argument for the registry. The unique index is checked against committed
rows and waits for uncommitted ones, so two versions in PRODUCTION need two
transactions that both passed `CheckIndex`; `SlotInv` excludes it. Proofs do
not assume that what an ORM session has loaded is current. For the refinement
only `Commit` is more than a stutter. Which step it is depends on what the
transaction has written and on the stage the target has by then, which is why
the lifecycle has a `StepBack`; that a takeover changes nobody but its
predecessor needs that this one has been observed or in PRODUCTION ever since it
was found (`DemotedInv`).

The argument for the bindings. `IndexInv` makes `OneActive` inductive, and with
it the binding whose severity is in force is the only active one
(`ActiveInForce`). Commits of created rows and activations are `Bind`, which
needs that none was active; deactivations are `Unbind`.

The argument for a queue in its workflow. `VerdictQueue` and `FindingQueue` show
that each half of `HumanReview` takes only steps of a `ReviewQueue`, so the
theorems on one queue hold of the composition (`OneActiveReview`,
`ReviewHistory`). `MainExitZero` needs more: that main remembers the errors of
the verdicts' part while it works through the findings.

The argument for the server. `NothingLeaks` counts connections by the stages of
requests; every step moves one request from one stage to another (`Move`), and
the cardinality of two sets changes by what that request holds before and after.
No fact about scheduling is used.

The argument for population runs. `FindingsStand` rests on `KeyInv`: the unique
constraint lets one of two overlapping runs insert, and the other waits or
fails. `OneSnapshot` rests on events that never change their day and on a
snapshot that is taken once per window. That an altered finding does not verify
(`ChangedFindingLocated`) uses that hashing is injective, which is how the model
states it, and that the value that replaces another is a different one. What
may be altered is the version, the counts, the rules, the parameters and the
outcome; the policy and the window are what the model finds a row by. The
signature has to stay: the verifier skips rows without one, so a row that is
altered and loses its signature goes unnoticed, and the property says so.

The argument for the readers. A report is one snapshot, so `ReportClosed` comes
down to: nothing is committed behind a row that is about it (`Flow`, from
`RowInv`). Regeneration adds what was in flight, since a row stamped after the
first report is not in a window that had ended. `MetricsAgree` needs no
snapshot: verdicts are counted before and after, findings after verdicts, and
rows are only added. The purge takes its moment once, so whatever commits
meanwhile is too young for it (`PurgeInv`).

Where a strengthening was needed it was first checked by TLC as an invariant of
the module's run.

Assumptions: facts on constants only (disjoint sets, `None` outside of them,
bounds that are natural numbers), each a named ASSUME that TLC evaluates on its
runs: `EvidenceAssumption`, `ReviewAssumption`, `NameAssumption`,
`RegistryAssumption`, `BindingAssumption`, `IngestionAssumption`,
`PopulationAssumption`, `ServerAssumption`, `ReportingAssumption`,
`NoKeyAssumption`, `NoEncryptionAssumption`, `ParameterAssumption`,
`FinanceAssumption`, `WindowAssumption` and `BindingParameterAssumption`. The
last four say what population policies are given: groups of at least one
decision, since `GROUP BY` yields no empty ones; parameters that are absent, not
finite, or fractions, as every finite double is; and static rules of finance,
of which `classification.py` has some (without any, `resolve` would find nothing
to resolve, and `OneClassification` would fail). `NameAssumption` says that verdicts and findings are
different things and that `None`, no principal, is none; `PopulationAssumption`
that `None` is nothing a column can hold and no signing key, and `EvidenceAssumption`
that `NoDomain` is no domain. None of them excludes a state of the code:
in Python `None` equals no value, and the ids come from two tables.

The type invariants (`TypeCorrect`, `WorkflowTypeCorrect`), `StagesInOrder`,
`ConsistentColumns`, `TrustedExit`, `SeedDone` and `HistoryKept` are proved and
therefore not checked again by a run: no instance could say more.

Only model-checked: the liveness properties (`RequestsEnd` of two modules,
`EverythingReviewed`, `RequestsAnswered`), as the prover has neither fairness
nor ENABLED. Every safety invariant and every safety action property that a
passing run checks is a theorem.

## 5. Where code and documentation disagree

The first two are runs with `expect` "violation" and entries under `findings`.

- Two promotions of one registration can write SHADOW over PRODUCTION;
  `promote` is said to advance exactly one stage. (`plugin_stage`)
- A failure to store a shadow finding surfaces as a 500 for a recorded event;
  the comment says it must never surface. (`ingestion_shadow`)

The others are visible in the models, or met while writing them, and have no
run of their own:

- The seed tool fails once a pair has two bindings (`get_by_identity` expects
  one row, `db/repositories/policy_binding.py:85`); it is said to be safe to
  re-run (`plugins/seed_registry.py:12-14`).
- A re-run of the seed tool promotes a version that an admin has rolled back.
- A window that is closed can still receive events, which its finding never
  counts (`population_engine/window.py:63`); docs/milestones/M6.md:1084-1086
  says that racing ingestion is excluded.
- Identity numbers of chain rows have gaps after a rollback (`Rollback` keeps
  the number drawn); migration 0007 calls the ordering strictly gapless.
- The reconciliation tool opens a new review of a verdict whose review is
  resolved (`create` only asks whether one is in progress); its design
  in docs/milestones/M9.md selects only verdicts without any review.
- api/readiness.py:20-26 says that `async def` with a blocking call would block
  the event loop and that the code base never repeated it; `require_role`
  (`api/dependencies.py:222`, `:259`) is `async def` and opens a `Session`, so
  one request that waits for a connection stops all others (`LoopFree`).
- A pool without a free connection makes `/readyz` answer 503, ends an append
  with a 500 after it is recorded, or loses its review without an error
  (`PoolTimeout`).
- A window given to a run without a UTC offset is signed as it was given and
  read back with one, so the finding's signature never verifies (`Naive`).
- Doubles: a ratio of exactly 4/5 is flagged for some counts (10 of 30 against
  15 of 36), although the policy flags what is "below" the threshold.
- Of groups that tie for the highest rate the disparity test takes the first
  by name as its reference, and their sizes may differ (`NamesDoNotMatter`).
- The first rule that an admin adds to a domain before the seed makes events
  with any other attribute fail; an attribute that only the database knows makes
  `DirectAttributeInInputsPolicy` raise (`EvaluateEvent`).
- `run_purge` says that an exception in one table's purge never blocks the
  other's; one in the first table's ends the run (`FailPurge`). The exit status
  tells (`PurgeIsExact`).
- The metrics docstring describes the window as half-open with an end; the
  statements have no upper bound.
- CHANGELOG.md:91 promises a byte-identical report for a window: a report
  contains `generated_at`, and rows that were stamped in the window and
  committed late are added (`RegenerationAddsLateOnly`).
- Names of principals are not unique, so two callers may share a reviewer name.

## 6. Not modelled, and the plan

Done: the write path and its verification under any configuration of keys, both
review workflows, the two admin-managed tables that decide what governs, the
route that reads them, population runs and the signatures of their findings,
the policies' arithmetic and the classification of attributes, one server
process with authentication, and the readers and the purger.

Every safety property of the passing runs is also a theorem; liveness stays with
TLC (section 4).

Not modelled yet: `db/migrate.py`, where what a second invocation meets depends
on the DDL of 29 files; readers of encrypted review notes and of `proxy_basis`,
which show a placeholder for what they cannot decrypt; `high_debt_ratio_gate`
and `always_allow`, which compare one value of one event; in `RequestServer`, that
several shadow policies take a connection one after another (one stands for
them); the plugin counts of
the metrics endpoint; the admin API's GET routes, each one SELECT.

Left out for good: adapters and normalization (one payload at a time, without
state), the schemas, logging, the dashboard page, Docker files, and
`legacy_v1`, which nothing imports. Attempts on the database by someone with
its credentials are outside of the model, apart from the alterations that the
two verifiers are there to locate.
