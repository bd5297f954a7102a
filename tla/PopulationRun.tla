---------------------------- MODULE PopulationRun ----------------------------
(***************************************************************************)
(* Runs of `python -m gov_platform.population_engine.run_policies` for one *)
(* system: each evaluates every active population policy over one window   *)
(* of the system's decisions and stores one signed finding per policy and  *)
(* window.  Runs overlap one another, ingestion, which may record an event *)
(* of any day, and admins, who rebind policies, change attribute rules and *)
(* promote versions.                                                       *)
(*                                                                         *)
(* A window is a day, which a command line may give without a UTC offset.  *)
(* Every event carries a value of every attribute; what a policy makes of  *)
(* the counts is left open here and computed in PopulationPolicies.        *)
(***************************************************************************)
EXTENDS Naturals

CONSTANTS Runner,
          Event,        \* decision event ids
          Attribute,    \* protected attributes
          Policy,       \* population policies
          Parameter,    \* what an admin can bind a policy with
          Version,
          Deployed,     \* the versions this code base has
          LastDay,
          SigningKey,
          KeyOf,        \* runner |-> the key it signs with, if only an ephemeral one
          SpellingOf,   \* runner |-> how its windows may be written
          None

ASSUME PopulationAssumption ==
    /\ LastDay \in Nat
    /\ None \notin Parameter \cup Version \cup Deployed \cup Policy
    /\ None \notin Nat /\ None \notin BOOLEAN /\ None \notin {"UTC", "naive"}
    /\ None # {} /\ None # << >> /\ None \notin SigningKey
    /\ KeyOf \in [Runner -> SigningKey]
    /\ SpellingOf \in [Runner -> SUBSET {"UTC", "naive"}]

Day == 0 .. LastDay
Spelling == {"UTC", "naive"}    \* of the timestamps of a window

VARIABLES
    today,
    events,        \* event |-> day of occurred_at, or None while not recorded
    direct,        \* attributes with a DIRECT rule in the system's domain
    binding,       \* policy |-> parameters of its active binding, or None
    production,    \* policy |-> version in PRODUCTION, or None
    findings,      \* <<policy, day>> |-> population finding, or NoFinding
    reviews,       \* the <<policy, day>> whose finding has been queued for review
    pc, run        \* per run: where it is, its locals

system == <<today, events, direct, binding, production>>
vars == <<system, findings, reviews, pc, run>>

NoFinding == [version |-> None]
NoSignature == [key |-> None, hash |-> << >>]    \* the column IS NULL
NoSnapshot == [events |-> {}, direct |-> {}]
NotRunning ==
    [window |-> 0, given |-> "UTC", bindings |-> [p \in Policy |-> None], todo |-> {}, policy |-> None,
     version |-> None, snapshot |-> NoSnapshot, counts |-> << >>, finding |-> NoFinding,
     skipped |-> {}, had_error |-> FALSE]

\* Mutants: a column that is None is hashed as null; the rules that explain a
\* finding are not hashed.
population_finding_hash_nulls(f) == [n \in DOMAIN f \ {"signature"} |-> f[n]]
population_finding_hash_unexplained(f) ==
    [n \in {m \in DOMAIN f \ {"signature", "classification"} : f[m] # None} |-> f[n]]

\* as_population_finding and model_dump(exclude_none=True): what is hashed is
\* every column but the signature, and no column that is None.
population_finding_hash(f) ==
    [n \in {m \in DOMAIN f \ {"signature"} : f[m] # None} |-> f[n]]

sign(key, hash) == [key |-> key, hash |-> hash]

\* The timestamps come back from TIMESTAMPTZ columns in UTC, however they were
\* written.
Stored(f) == [f EXCEPT !.window = "UTC"]

\* A finding of the time before bindings had parameters, signed without them.
Legacy(v, key) ==
    LET f == [version |-> v, window |-> "UTC", counts |-> << >>, classification |-> {},
              parameters |-> None, flagged |-> FALSE, signature |-> NoSignature]
        signed == [n \in DOMAIN f \ {"parameters", "signature"} |-> f[n]]
    IN  [f EXCEPT !.signature = sign(key, signed)]

Init ==
    /\ today = 0
    /\ events = [e \in Event |-> None]
    /\ direct = {}
    /\ binding = [p \in Policy |-> None]
    /\ production = [p \in Policy |-> None]
    /\ \E old \in {NoFinding} \cup {Legacy(v, KeyOf[r]) : v \in Deployed, r \in Runner} :
          findings = [k \in Policy \X Day |-> IF k[2] = 0 THEN old ELSE NoFinding]
    /\ reviews = {}
    /\ pc = [r \in Runner |-> "idle"]
    /\ run = [r \in Runner |-> NotRunning]

\* run_population_policy_binding ends, with the exception that main counts or
\* without: the next binding's turn.
Return(r, error) ==
    /\ pc' = [pc EXCEPT ![r] = "next"]
    /\ run' = [run EXCEPT ![r] = [NotRunning EXCEPT
                  !.window = run[r].window, !.given = run[r].given, !.bindings = run[r].bindings,
                  !.todo = run[r].todo, !.skipped = run[r].skipped,
                  !.had_error = run[r].had_error \/ error]]

Goto(r, from, to) == pc[r] = from /\ pc' = [pc EXCEPT ![r] = to]
Key(r) == <<run[r].policy, run[r].window>>

\* The rows of the window, as a statement that starts now sees them.
InWindow(d) == {e \in Event : events[e] = d}
-----------------------------------------------------------------------------
\* Around the runs: time passes, ingestion records an event whose occurred_at
\* is whatever the source system reported, admins change what is evaluated
\* (attribute rules are only ever added).
Tick ==
    /\ today < LastDay /\ today' = today + 1
    /\ UNCHANGED <<events, direct, binding, production, findings, reviews, pc, run>>

Record(e, d) ==
    /\ events[e] = None /\ events' = [events EXCEPT ![e] = d]
    /\ UNCHANGED <<today, direct, binding, production, findings, reviews, pc, run>>

AddRule(a) ==
    /\ direct' = direct \cup {a}
    /\ UNCHANGED <<today, events, binding, production, findings, reviews, pc, run>>

SetBinding(p, x) ==
    /\ (binding[p] = None) # (x = None)
    /\ binding' = [binding EXCEPT ![p] = x]
    /\ UNCHANGED <<today, events, direct, production, findings, reviews, pc, run>>

Promote(p, v) ==
    /\ production' = [production EXCEPT ![p] = v]
    /\ UNCHANGED <<today, events, direct, binding, findings, reviews, pc, run>>
-----------------------------------------------------------------------------
\* main: the window is yesterday, in UTC, or a closed one in the spelling of
\* the command line; the active bindings are read once.
StartRun(r, d, spelling) ==
    /\ pc[r] \in {"idle", "exit"} /\ d < today
    /\ pc' = [pc EXCEPT ![r] = "next"]
    /\ run' = [run EXCEPT ![r] = [NotRunning EXCEPT
                  !.window = d, !.given = spelling, !.bindings = binding,
                  !.todo = {p \in Policy : binding[p] # None}]]
    /\ UNCHANGED <<system, findings, reviews>>

\* A binding's turn: its policy's registrations, in one SELECT.  Without a
\* deployed PRODUCTION version it is skipped.
NextBinding(r, p) ==
    /\ pc[r] = "next" /\ p \in run[r].todo
    /\ \/ /\ production[p] \in Deployed
          /\ Goto(r, "next", "window")
          /\ run' = [run EXCEPT ![r].todo = @ \ {p}, ![r].policy = p,
                                ![r].version = production[p]]
       \/ /\ production[p] \notin Deployed
          /\ run' = [run EXCEPT ![r].todo = @ \ {p}, ![r].skipped = @ \cup {p}]
          /\ UNCHANGED pc
    /\ UNCHANGED <<system, findings, reviews>>

\* build_population_window, in a REPEATABLE READ transaction: the first SELECT
\* fixes the snapshot and yields the DIRECT attributes ...
OpenWindow(r) ==
    /\ Goto(r, "window", "count")
    /\ run' = [run EXCEPT ![r].snapshot = [events |-> InWindow(run[r].window),
                                           direct |-> direct],
                          ![r].counts = << >>]
    /\ UNCHANGED <<system, findings, reviews>>

\* Mutant: READ COMMITTED, every statement sees the rows of its own time.
CountAttributeReadCommitted(r, a) ==
    /\ pc[r] = "count" /\ a \in run[r].snapshot.direct \ DOMAIN run[r].counts
    /\ run' = [run EXCEPT ![r].counts =
                  [b \in DOMAIN @ \cup {a} |-> IF b = a THEN InWindow(run[r].window)
                                               ELSE @[b]]]
    /\ UNCHANGED <<system, findings, reviews, pc>>

\* ... then one SELECT per attribute groups and counts the events.
CountAttribute(r, a) ==
    /\ pc[r] = "count" /\ a \in run[r].snapshot.direct \ DOMAIN run[r].counts
    /\ run' = [run EXCEPT ![r].counts =
                  [b \in DOMAIN @ \cup {a} |-> IF b = a THEN run[r].snapshot.events
                                               ELSE @[b]]]
    /\ UNCHANGED <<system, findings, reviews, pc>>

\* evaluate, in the sandbox, with the parameters of the binding as it was read;
\* the finding is signed as the policy returned it.
Evaluate(r, flagged) ==
    /\ Goto(r, "count", "insert")
    /\ DOMAIN run[r].counts = run[r].snapshot.direct
    /\ run' = [run EXCEPT
          ![r].finding =
              LET f == [version |-> run[r].version, window |-> run[r].given,
                        counts |-> run[r].counts, classification |-> run[r].snapshot.direct,
                        parameters |-> run[r].bindings[run[r].policy],
                        flagged |-> flagged, signature |-> NoSignature]
              IN  [f EXCEPT !.signature = sign(KeyOf[r], population_finding_hash(f))],
          ![r].version = None, ![r].snapshot = NoSnapshot, ![r].counts = << >>]
    /\ UNCHANGED <<system, findings, reviews>>

\* Mutant: the window is not part of the key that is checked.
InsertUnchecked(r) ==
    /\ Goto(r, "insert", "commit")
    /\ UNCHANGED <<system, findings, reviews, run>>

\* create: the INSERT waits for an uncommitted finding of the same policy and
\* window; a committed one makes it a SKIP, "already computed".
Insert(r) ==
    /\ pc[r] = "insert"
    /\ \A q \in Runner : ~ (pc[q] = "commit" /\ Key(q) = Key(r))
    /\ \/ findings[Key(r)] = NoFinding /\ Goto(r, "insert", "commit") /\ UNCHANGED run
       \/ findings[Key(r)] # NoFinding /\ Return(r, FALSE)
    /\ UNCHANGED <<system, findings, reviews>>

Commit(r) ==
    /\ Goto(r, "commit", "review")
    /\ findings' = [findings EXCEPT ![Key(r)] = Stored(run[r].finding)]
    /\ UNCHANGED <<system, reviews, run>>

\* A FLAGGED finding is queued in a transaction of its own, whose failure is
\* swallowed.
QueueReview(r) ==
    /\ pc[r] = "review" /\ Return(r, FALSE)
    /\ \/ UNCHANGED reviews
       \/ run[r].finding.flagged /\ reviews' = reviews \cup {Key(r)}
    /\ UNCHANGED <<system, findings>>

\* Mutant: the error is printed and forgotten.
FailUncounted(r) ==
    /\ pc[r] \in {"window", "count", "insert", "commit"}
    /\ Return(r, FALSE)
    /\ UNCHANGED <<system, findings, reviews>>

\* A statement fails, or the policy raises or takes too long: an ERROR line,
\* and the next binding's turn.
Fail(r) ==
    /\ pc[r] \in {"window", "count", "insert", "commit"}
    /\ Return(r, TRUE)
    /\ UNCHANGED <<system, findings, reviews>>

Exit(r) ==
    /\ run[r].todo = {} /\ Goto(r, "next", "exit")
    /\ UNCHANGED <<system, findings, reviews, run>>

\* The process is killed.
Kill(r) ==
    /\ pc[r] \notin {"idle", "exit"}
    /\ pc' = [pc EXCEPT ![r] = "idle"] /\ run' = [run EXCEPT ![r] = NotRunning]
    /\ UNCHANGED <<system, findings, reviews>>
-----------------------------------------------------------------------------
Next ==
    \/ Tick
    \/ \E e \in Event, d \in Day : Record(e, d)
    \/ \E a \in Attribute : AddRule(a)
    \/ \E p \in Policy :
          \/ \E x \in Parameter \cup {None} : SetBinding(p, x)
          \/ \E v \in Version \cup {None} : Promote(p, v)
    \/ \E r \in Runner :
          \/ \E d \in Day, spelling \in SpellingOf[r] : StartRun(r, d, spelling)
          \/ \E p \in Policy : NextBinding(r, p)
          \/ OpenWindow(r)
          \/ \E a \in Attribute : CountAttribute(r, a)
          \/ \E flagged \in BOOLEAN : Evaluate(r, flagged)
          \/ Insert(r) \/ Commit(r) \/ QueueReview(r)
          \/ Fail(r) \/ Exit(r) \/ Kill(r)

Spec == Init /\ [][Next]_vars
-----------------------------------------------------------------------------
\* Rows of population_findings, but for their signatures.
Findings == [version : Deployed, window : Spelling,
             counts : UNION {[D -> SUBSET Event] : D \in SUBSET Attribute},
             classification : SUBSET Attribute, parameters : Parameter \cup {None},
             flagged : BOOLEAN, signature : {NoSignature}]
Unsigned(f) == IF f = NoFinding THEN f ELSE [f EXCEPT !.signature = NoSignature]

\* Every variable keeps its type, and nothing of one binding's evaluation is
\* left when the next one's begins.
TypeOK ==
    /\ today \in Day
    /\ events \in [Event -> Day \cup {None}]
    /\ direct \subseteq Attribute
    /\ binding \in [Policy -> Parameter \cup {None}]
    /\ production \in [Policy -> Version \cup {None}]
    /\ \A k \in Policy \X Day : Unsigned(findings[k]) \in Findings \cup {NoFinding}
    /\ reviews \subseteq Policy \X Day
    /\ pc \in [Runner -> {"idle", "next", "window", "count", "insert", "commit", "review",
                          "exit"}]
    /\ \A r \in Runner :
          /\ run[r].window \in Day /\ run[r].bindings \in [Policy -> Parameter \cup {None}]
          /\ run[r].todo \subseteq Policy /\ run[r].skipped \subseteq Policy
          /\ run[r].version \in Deployed \cup {None} /\ run[r].policy \in Policy \cup {None}
          /\ run[r].given \in Spelling
          /\ Unsigned(run[r].finding) \in Findings \cup {NoFinding}
          /\ run[r].had_error \in BOOLEAN
          /\ pc[r] \in {"idle", "next", "exit"} =>
                run[r].policy = None /\ run[r].counts = << >> /\ run[r].finding = NoFinding
          /\ pc[r] \in {"insert", "commit", "review"} =>
                run[r].policy # None /\ run[r].finding # NoFinding

\* A finding compares groups of one population: all its counts are of the same
\* events, each recorded by then and of its window, one for each attribute its
\* classification names, although they come from separate SELECTs.
OneSnapshot ==
    \A k \in Policy \X Day : findings[k] # NoFinding =>
        /\ DOMAIN findings[k].counts = findings[k].classification
        /\ \A a, b \in DOMAIN findings[k].counts :
              /\ findings[k].counts[a] = findings[k].counts[b]
              /\ \A e \in findings[k].counts[a] : events[e] = k[2]

\* "A window is computed exactly once": what has been found of a window is never
\* overwritten, withdrawn or reinterpreted, whatever runs overlap and whatever
\* rules, parameters and versions change.
FindingsStand ==
    [][\A k \in Policy \X Day : findings[k] # NoFinding => findings'[k] = findings[k]]_vars

\* An ops wrapper may trust the exit status: a run that exits 0 leaves every
\* binding it read with a finding for its window, whoever computed it, or has
\* said that it skipped the policy.
ExitZeroMeansComputed ==
    \A r \in Runner : pc[r] = "exit" /\ ~ run[r].had_error =>
        \A p \in Policy \ run[r].skipped :
            run[r].bindings[p] # None => findings[<<p, run[r].window>>] # NoFinding
=============================================================================
