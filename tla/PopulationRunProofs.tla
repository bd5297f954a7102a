------------------------- MODULE PopulationRunProofs -------------------------
(***************************************************************************)
(* The safety properties of PopulationRun and FindingVerifier for any runs, *)
(* policies, attributes, events and days.                                  *)
(***************************************************************************)
EXTENDS FindingVerifier, TLAPS

USE PopulationAssumption

\* Rows with their signatures: by a key, over the columns with the window in one
\* of the spellings.
Signed(f, k, w) ==
    [f EXCEPT !.signature = sign(k, population_finding_hash([f EXCEPT !.window = w]))]
SignedFindings == {Signed(f, k, w) : f \in Findings, k \in SigningKey, w \in Spelling}

Locals == [window : Day, given : Spelling, bindings : [Policy -> Parameter \cup {None}],
           todo : SUBSET Policy, policy : Policy \cup {None}, version : Deployed \cup {None},
           snapshot : [events : SUBSET Event, direct : SUBSET Attribute], counts : Counts,
           finding : SignedFindings \cup {NoFinding}, skipped : SUBSET Policy,
           had_error : BOOLEAN]

TypeInv ==
    /\ today \in Day
    /\ events \in [Event -> Day \cup {None}]
    /\ direct \subseteq Attribute
    /\ binding \in [Policy -> Parameter \cup {None}]
    /\ production \in [Policy -> Version \cup {None}]
    /\ findings \in [Policy \X Day -> SignedFindings \cup {NoFinding}]
    /\ reviews \subseteq Policy \X Day
    /\ pc \in [Runner -> {"idle", "next", "window", "count", "insert", "commit", "review",
                          "exit"}]
    /\ run \in [Runner -> Locals]

\* All counts of a finding are of the same events, all of one day.
Uniform(f, d) ==
    /\ DOMAIN f.counts = f.classification
    /\ \A a, b \in DOMAIN f.counts : f.counts[a] = f.counts[b]
    /\ \A a \in DOMAIN f.counts : \A e \in f.counts[a] : events[e] = d

\* What a run holds between two statements is of its snapshot, whose events
\* cannot change their day; what it is about to store is signed with its key.
WorkInv(r) ==
    /\ pc[r] \in {"idle", "next", "exit"} =>
          run[r].policy = None /\ run[r].counts = << >> /\ run[r].finding = NoFinding
    /\ pc[r] \in {"window", "count", "insert", "commit", "review"} => run[r].policy \in Policy
    /\ pc[r] \in {"window", "count"} => run[r].version \in Deployed
    /\ pc[r] = "count" =>
          /\ DOMAIN run[r].counts \subseteq run[r].snapshot.direct
          /\ \A a \in DOMAIN run[r].counts : run[r].counts[a] = run[r].snapshot.events
          /\ \A e \in run[r].snapshot.events : events[e] = run[r].window
    /\ pc[r] \in {"insert", "commit", "review"} =>
          /\ run[r].finding # NoFinding /\ run[r].finding.window = run[r].given
          /\ run[r].finding.signature
                = sign(KeyOf[r], population_finding_hash(run[r].finding))
          /\ Uniform(run[r].finding, run[r].window)

\* Whoever has inserted a row has its key to itself until the commit.
KeyInv ==
    \A r \in Runner :
        /\ pc[r] = "commit" =>
              /\ findings[Key(r)] = NoFinding
              /\ \A q \in Runner : pc[q] = "commit" /\ Key(q) = Key(r) => q = r
        /\ pc[r] = "review" => findings[Key(r)] # NoFinding

\* A run without an error has dealt with every binding but those that it has not
\* come to and the one that it is at.
DoneInv ==
    \A r \in Runner : ~ run[r].had_error =>
        \A p \in Policy \ (run[r].todo \cup run[r].skipped \cup {run[r].policy}) :
            run[r].bindings[p] # None => findings[<<p, run[r].window>>] # NoFinding

TableInv ==
    \A k \in Policy \X Day : findings[k] # NoFinding =>
        findings[k].window = "UTC" /\ Uniform(findings[k], k[2])

ExitInv == \A r \in Runner : pc[r] = "exit" => run[r].todo = {}

IInv ==
    /\ TypeInv /\ KeyInv /\ DoneInv /\ TableInv /\ ExitInv
    /\ \A r \in Runner : WorkInv(r)
-----------------------------------------------------------------------------
\* Columns of a row of population_findings.
Columns == {"version", "window", "counts", "classification", "parameters", "flagged",
            "signature"}

\* The hash of a finding does not look at its signature.
LEMMA HashSame ==
    ASSUME NEW f, NEW g, DOMAIN f = Columns, DOMAIN g = Columns,
           \A n \in Columns \ {"signature"} : f[n] = g[n]
    PROVE  population_finding_hash(f) = population_finding_hash(g)
BY DEF population_finding_hash

\* Findings that differ in a column have different hashes.
LEMMA HashDiff ==
    ASSUME NEW f, NEW g, DOMAIN f = Columns, DOMAIN g = Columns,
           NEW n \in Columns \ {"signature"}, f[n] # g[n]
    PROVE  population_finding_hash(f) # population_finding_hash(g)
BY DEF population_finding_hash

\* What the columns of a finding hold.
LEMMA FindingColumns ==
    ASSUME NEW f \in Findings
    PROVE  /\ DOMAIN f = Columns
           /\ f.version \in Deployed /\ f.window \in Spelling /\ f.counts \in Counts
           /\ f.classification \in SUBSET Attribute /\ f.parameters \in Parameter \cup {None}
           /\ f.flagged \in BOOLEAN /\ f.signature = NoSignature
           /\ f = [version |-> f.version, window |-> f.window, counts |-> f.counts,
                   classification |-> f.classification, parameters |-> f.parameters,
                   flagged |-> f.flagged, signature |-> f.signature]
BY DEF Findings, Columns, Counts

\* A signed finding, column by column.
IsSigned(f) ==
    /\ DOMAIN f = Columns
    /\ f.version \in Deployed /\ f.window \in Spelling /\ f.counts \in Counts
    /\ f.classification \in SUBSET Attribute /\ f.parameters \in Parameter \cup {None}
    /\ f.flagged \in BOOLEAN
    /\ f = [version |-> f.version, window |-> f.window, counts |-> f.counts,
            classification |-> f.classification, parameters |-> f.parameters,
            flagged |-> f.flagged, signature |-> f.signature]
    /\ [f EXCEPT !.signature = NoSignature] \in Findings
    /\ f # NoFinding
    /\ \E k \in SigningKey, w \in Spelling :
          f.signature = sign(k, population_finding_hash([f EXCEPT !.window = w]))

\* Every row has its columns and a signature over them.
LEMMA SignedColumns ==
    ASSUME NEW f \in SignedFindings
    PROVE  IsSigned(f)
<1>1. PICK u \in Findings, k \in SigningKey, w \in Spelling : f = Signed(u, k, w)
  BY DEF SignedFindings
<1>2. DOMAIN u = Columns
  BY FindingColumns
<1> DEFINE s == sign(k, population_finding_hash([u EXCEPT !.window = w]))
<1>3. f = [u EXCEPT !.signature = s]
  BY <1>1 DEF Signed
<1> HIDE DEF s
<1>a. f = [version |-> u.version, window |-> u.window, counts |-> u.counts,
           classification |-> u.classification, parameters |-> u.parameters,
           flagged |-> u.flagged, signature |-> s]
  BY <1>3, FindingColumns
<1>4. /\ DOMAIN f = Columns
      /\ f.version \in Deployed /\ f.window \in Spelling /\ f.counts \in Counts
      /\ f.classification \in SUBSET Attribute /\ f.parameters \in Parameter \cup {None}
      /\ f.flagged \in BOOLEAN /\ f.signature = s
      /\ f = [version |-> f.version, window |-> f.window, counts |-> f.counts,
              classification |-> f.classification, parameters |-> f.parameters,
              flagged |-> f.flagged, signature |-> f.signature]
  <2>1. /\ u.version \in Deployed /\ u.window \in Spelling /\ u.counts \in Counts
        /\ u.classification \in SUBSET Attribute /\ u.parameters \in Parameter \cup {None}
        /\ u.flagged \in BOOLEAN
    BY FindingColumns
  <2>2. DOMAIN f = Columns
    BY ONLY <1>a DEF Columns
  <2>3. /\ f.version = u.version /\ f.window = u.window /\ f.counts = u.counts
        /\ f.classification = u.classification /\ f.parameters = u.parameters
        /\ f.flagged = u.flagged /\ f.signature = s
    BY ONLY <1>a
  <2> QED  BY ONLY <1>a, <2>1, <2>2, <2>3
<1>5. [f EXCEPT !.signature = NoSignature] = u
  <2>1. u = [version |-> u.version, window |-> u.window, counts |-> u.counts,
             classification |-> u.classification, parameters |-> u.parameters,
             flagged |-> u.flagged, signature |-> NoSignature]
    BY FindingColumns
  <2> QED  BY ONLY <1>a, <2>1
<1>6. population_finding_hash([u EXCEPT !.window = w])
        = population_finding_hash([f EXCEPT !.window = w])
  <2>1. DOMAIN [u EXCEPT !.window = w] = Columns /\ DOMAIN [f EXCEPT !.window = w] = Columns
    BY <1>2, <1>4
  <2>2. \A n \in Columns \ {"signature"} :
           [u EXCEPT !.window = w][n] = [f EXCEPT !.window = w][n]
    BY <1>2, <1>3, <1>4 DEF Columns
  <2> QED  BY <2>1, <2>2, HashSame
<1>7. f # NoFinding
  BY <1>4 DEF NoFinding
<1>8. f.signature = sign(k, population_finding_hash([f EXCEPT !.window = w]))
  BY <1>4, <1>6 DEF s
<1> QED  BY <1>4, <1>5, <1>7, <1>8 DEF IsSigned

\* ... and whatever has is a row.
LEMMA SignedIntro ==
    ASSUME NEW f, [f EXCEPT !.signature = NoSignature] \in Findings, DOMAIN f = Columns,
           f = [version |-> f.version, window |-> f.window, counts |-> f.counts,
                classification |-> f.classification, parameters |-> f.parameters,
                flagged |-> f.flagged, signature |-> f.signature],
           NEW k \in SigningKey, NEW w \in Spelling,
           f.signature = sign(k, population_finding_hash([f EXCEPT !.window = w]))
    PROVE  f \in SignedFindings
<1> DEFINE u == [f EXCEPT !.signature = NoSignature]
<1>1. f = [u EXCEPT !.signature = f.signature]
  BY DEF Columns
<1>2. population_finding_hash([u EXCEPT !.window = w])
        = population_finding_hash([f EXCEPT !.window = w])
  <2>1. DOMAIN [u EXCEPT !.window = w] = Columns /\ DOMAIN [f EXCEPT !.window = w] = Columns
    OBVIOUS
  <2>2. \A n \in Columns \ {"signature"} :
           [u EXCEPT !.window = w][n] = [f EXCEPT !.window = w][n]
    BY DEF Columns
  <2> QED  BY <2>1, <2>2, HashSame
<1>3. f = Signed(u, k, w)
  BY <1>1, <1>2 DEF Signed
<1> HIDE DEF u
<1>4. u \in Findings
  BY DEF u
<1> QED  BY <1>3, <1>4 DEF SignedFindings

\* A row stored is a row, that differs in its window at most.
LEMMA StoredSigned ==
    ASSUME NEW f \in SignedFindings
    PROVE  /\ Stored(f) \in SignedFindings /\ Stored(f) # NoFinding
           /\ Stored(f).window = "UTC" /\ Stored(f).counts = f.counts
           /\ Stored(f).classification = f.classification
<1>1. IsSigned(f)
  BY SignedColumns
<1> DEFINE g == Stored(f)
<1>2. g = [version |-> f.version, window |-> "UTC", counts |-> f.counts,
           classification |-> f.classification, parameters |-> f.parameters,
           flagged |-> f.flagged, signature |-> f.signature]
  BY <1>1 DEF IsSigned, Stored
<1>3. PICK k \in SigningKey, w \in Spelling :
         f.signature = sign(k, population_finding_hash([f EXCEPT !.window = w]))
  BY <1>1 DEF IsSigned
<1>4. [g EXCEPT !.window = w] = [f EXCEPT !.window = w]
  BY <1>1, <1>2 DEF IsSigned
<1>5. [g EXCEPT !.signature = NoSignature] \in Findings
  BY <1>1, <1>2 DEF IsSigned, Findings, Counts, Spelling
<1> HIDE DEF g
<1>6. g.signature = sign(k, population_finding_hash([g EXCEPT !.window = w]))
  BY <1>2, <1>3, <1>4
<1>7. DOMAIN g = Columns
  BY <1>2 DEF Columns
<1>8. g \in SignedFindings
  BY <1>2, <1>5, <1>6, <1>7, SignedIntro
<1>9. g # NoFinding /\ g.window = "UTC" /\ g.counts = f.counts
      /\ g.classification = f.classification
  BY <1>2, <1>7 DEF NoFinding, Columns
<1> QED  BY <1>8, <1>9 DEF g

\* A count of nothing yet.
LEMMA NoCounts == << >> \in Counts
<1>1. << >> \in [{} -> SUBSET Event]
  OBVIOUS
<1> QED  BY <1>1 DEF Counts

\* The rows of the time before parameters are rows.
LEMMA LegacySigned ==
    ASSUME NEW v \in Deployed, NEW k \in SigningKey
    PROVE  /\ Legacy(v, k) \in SignedFindings /\ Legacy(v, k).window = "UTC"
           /\ Legacy(v, k).counts = << >> /\ Legacy(v, k).classification = {}
<1> DEFINE none == << >>
           no == FALSE
           f == [version |-> v, window |-> "UTC", counts |-> none, classification |-> {},
                 parameters |-> None, flagged |-> no, signature |-> NoSignature]
           signed == [n \in DOMAIN f \ {"parameters", "signature"} |-> f[n]]
           g == Legacy(v, k)
<1>0. g = [f EXCEPT !.signature = sign(k, signed)]
  BY DEF Legacy
<1>a. none # None /\ none \in Counts /\ no \in BOOLEAN
  BY NoCounts
<1>b. none = << >>
  OBVIOUS
<1> HIDE DEF signed, none, no
<1>1. g = [version |-> v, window |-> "UTC", counts |-> none, classification |-> {},
           parameters |-> None, flagged |-> no, signature |-> sign(k, signed)]
  BY <1>0
<1> HIDE DEF g
<1>2. signed = population_finding_hash([g EXCEPT !.window = "UTC"])
  <2>1. v # None /\ "UTC" # None /\ none # None /\ {} # None /\ no # None
    BY <1>a
  <2>2. [g EXCEPT !.window = "UTC"] = g
    BY ONLY <1>1
  <2>3. {m \in DOMAIN g \ {"signature"} : g[m] # None} = DOMAIN f \ {"parameters", "signature"}
    BY ONLY <1>1, <2>1 DEF f
  <2>4. \A n \in DOMAIN f \ {"parameters", "signature"} : f[n] = g[n]
    BY ONLY <1>1 DEF f
  <2> HIDE DEF f
  <2> QED  BY <2>2, <2>3, <2>4 DEF population_finding_hash, signed
<1>3. [g EXCEPT !.signature = NoSignature] \in Findings
  <2>1. [g EXCEPT !.signature = NoSignature] = f
    BY ONLY <1>1
  <2> QED  BY <2>1, <1>a DEF Findings, Counts, Spelling
<1>4. g.signature = sign(k, population_finding_hash([g EXCEPT !.window = "UTC"]))
  BY <1>1, <1>2
<1>5. DOMAIN g = Columns
  BY <1>1 DEF Columns
<1>6. g = [version |-> g.version, window |-> g.window, counts |-> g.counts,
                classification |-> g.classification, parameters |-> g.parameters,
                flagged |-> g.flagged, signature |-> g.signature]
  BY ONLY <1>1
<1>7. g.window = "UTC" /\ g.counts = none /\ g.classification = {}
  BY ONLY <1>1
<1>8. "UTC" \in Spelling
  BY DEF Spelling
<1>9. g \in SignedFindings
  BY <1>3, <1>4, <1>5, <1>6, <1>8, SignedIntro
<1> QED  BY <1>7, <1>9, <1>b DEF g
-----------------------------------------------------------------------------
\* The locals of a run that evaluates no policy.
Between(x) ==
    /\ x \in Locals
    /\ x.policy = None /\ x.counts = << >> /\ x.finding = NoFinding

\* The locals before a run, column by column, with the empty sequence and FALSE
\* named, which the provers do not take inside a record.
LEMMA NotRunningShape ==
    \E c \in Counts, h \in BOOLEAN :
        /\ c = << >> /\ h = FALSE
        /\ NotRunning =
              [window |-> 0, given |-> "UTC", bindings |-> [p \in Policy |-> None], todo |-> {},
               policy |-> None, version |-> None, snapshot |-> NoSnapshot, counts |-> c,
               finding |-> NoFinding, skipped |-> {}, had_error |-> h]
<1> DEFINE c == << >>
           h == FALSE
<1>1. NotRunning =
              [window |-> 0, given |-> "UTC", bindings |-> [p \in Policy |-> None], todo |-> {},
               policy |-> None, version |-> None, snapshot |-> NoSnapshot, counts |-> c,
               finding |-> NoFinding, skipped |-> {}, had_error |-> h]
  BY DEF NotRunning
<1>2. c \in Counts /\ h \in BOOLEAN /\ c = << >> /\ h = FALSE
  BY NoCounts
<1> HIDE DEF c, h
<1> QED  BY <1>1, <1>2

\* A run that has not begun, or was killed.
LEMMA Idle ==
    /\ Between(NotRunning)
    /\ NotRunning.window = 0 /\ NotRunning.todo = {} /\ NotRunning.skipped = {}
    /\ NotRunning.bindings = [p \in Policy |-> None]
<1>1. PICK c \in Counts, h \in BOOLEAN :
        /\ c = << >> /\ h = FALSE
        /\ NotRunning =
              [window |-> 0, given |-> "UTC", bindings |-> [p \in Policy |-> None], todo |-> {},
               policy |-> None, version |-> None, snapshot |-> NoSnapshot, counts |-> c,
               finding |-> NoFinding, skipped |-> {}, had_error |-> h]
  BY NotRunningShape
<1>2. 0 \in Day /\ "UTC" \in Spelling /\ NoSnapshot \in [events : SUBSET Event, direct : SUBSET Attribute]
  BY DEF Day, Spelling, NoSnapshot
<1>3. NoFinding \in SignedFindings \cup {NoFinding}
  OBVIOUS
<1> DEFINE F == SignedFindings \cup {NoFinding}
<1>4. NoFinding \in F
  OBVIOUS
<1>5. Locals = [window : Day, given : Spelling, bindings : [Policy -> Parameter \cup {None}],
           todo : SUBSET Policy, policy : Policy \cup {None}, version : Deployed \cup {None},
           snapshot : [events : SUBSET Event, direct : SUBSET Attribute], counts : Counts,
           finding : F, skipped : SUBSET Policy, had_error : BOOLEAN]
  BY DEF Locals
<1> HIDE DEF F
<1>6. NotRunning \in Locals
  BY <1>1, <1>2, <1>4, <1>5
<1> QED  BY <1>1, <1>6 DEF Between

\* main's locals when it has read the bindings.
Starting(d, g, b, t) ==
    [NotRunning EXCEPT !.window = d, !.given = g, !.bindings = b, !.todo = t]

\* What a run that starts keeps of its locals.
LEMMA Started ==
    ASSUME NEW d \in Day, NEW g \in Spelling, NEW b \in [Policy -> Parameter \cup {None}],
           NEW t \in SUBSET Policy
    PROVE  /\ Between(Starting(d, g, b, t)) /\ Starting(d, g, b, t).window = d
           /\ Starting(d, g, b, t).bindings = b /\ Starting(d, g, b, t).todo = t
           /\ Starting(d, g, b, t).skipped = {}
<1> DEFINE x == Starting(d, g, b, t)
<1>0. x = [NotRunning EXCEPT !.window = d, !.given = g, !.bindings = b, !.todo = t]
  BY DEF Starting
<1> HIDE DEF x
<1>1. /\ Between(NotRunning) /\ NotRunning.skipped = {}
  BY Idle
<1>2. Between(x) /\ x.window = d /\ x.bindings = b /\ x.todo = t /\ x.skipped = {}
  BY <1>0, <1>1 DEF Between, Locals
<1> QED  BY <1>2 DEF x

\* ... and between two bindings.
Returning(y, error) ==
    [NotRunning EXCEPT !.window = y.window, !.given = y.given, !.bindings = y.bindings,
                       !.todo = y.todo, !.skipped = y.skipped,
                       !.had_error = y.had_error \/ error]

Follows(x, y, error) ==
    /\ Between(x) /\ x.window = y.window /\ x.bindings = y.bindings /\ x.todo = y.todo
    /\ x.skipped = y.skipped /\ (x.had_error <=> y.had_error \/ error)

\* What Return keeps of a run's locals.
LEMMA Returned ==
    ASSUME NEW y \in Locals, NEW error \in BOOLEAN
    PROVE  Follows(Returning(y, error), y, error)
<1> DEFINE x == Returning(y, error)
           h == y.had_error \/ error
<1>1. x = [NotRunning EXCEPT !.window = y.window, !.given = y.given,
                    !.bindings = y.bindings, !.todo = y.todo, !.skipped = y.skipped,
                    !.had_error = h]
  BY DEF Returning
<1>2. h \in BOOLEAN
  OBVIOUS
<1>3. Between(NotRunning)
  BY Idle
<1> HIDE DEF h, x
<1>4. /\ Between(x) /\ x.window = y.window /\ x.bindings = y.bindings /\ x.todo = y.todo
      /\ x.skipped = y.skipped /\ x.had_error = h
  BY ONLY <1>1, <1>2, <1>3, y \in Locals DEF Between, Locals
<1> QED  BY <1>4 DEF h, x, Follows
-----------------------------------------------------------------------------
\* The absent finding is no row.
LEMMA NoFindingNotSigned == NoFinding \notin SignedFindings
BY SignedColumns DEF IsSigned

\* The invariant holds when no run has begun.
LEMMA InitInv == Init => IInv
<1> SUFFICES ASSUME Init PROVE IInv
  OBVIOUS
<1>1. pc = [r \in Runner |-> "idle"] /\ run = [r \in Runner |-> NotRunning]
  BY DEF Init
<1>2. Between(NotRunning) /\ NotRunning.bindings = [p \in Policy |-> None]
  BY Idle
<1>3. \A r \in Runner : pc[r] = "idle" /\ run[r] = NotRunning
  BY ONLY <1>1
<1>4. \A r \in Runner : WorkInv(r)
  <2> SUFFICES ASSUME NEW r \in Runner PROVE WorkInv(r)
    OBVIOUS
  <2>1. pc[r] = "idle" /\ Between(run[r])
    BY <1>2, <1>3
  <2> QED  BY ONLY <2>1 DEF WorkInv, Between
<1>5. KeyInv /\ ExitInv /\ DoneInv
  BY <1>2, <1>3 DEF KeyInv, ExitInv, DoneInv
<1>6. /\ findings \in [Policy \X Day -> SignedFindings \cup {NoFinding}]
      /\ \A k \in Policy \X Day : findings[k] # NoFinding =>
            /\ findings[k].window = "UTC" /\ findings[k].counts = << >>
            /\ findings[k].classification = {}
  <2>1. PICK old \in {NoFinding} \cup {Legacy(v, KeyOf[r]) : v \in Deployed, r \in Runner} :
          findings = [k \in Policy \X Day |-> IF k[2] = 0 THEN old ELSE NoFinding]
    <3>1. \E old \in {NoFinding} \cup {Legacy(v, KeyOf[r]) : v \in Deployed, r \in Runner} :
             findings = [k \in Policy \X Day |-> IF k[2] = 0 THEN old ELSE NoFinding]
      BY SMTT(40) DEF Init
    <3> QED  BY ONLY <3>1
  <2>2. /\ old \in SignedFindings \cup {NoFinding}
        /\ old # NoFinding =>
              old.window = "UTC" /\ old.counts = << >> /\ old.classification = {}
    BY LegacySigned
  <2> QED  BY <2>1, <2>2
<1>7. TypeInv
  BY <1>1, <1>2, <1>6 DEF Init, TypeInv, Day, Between
<1>8. TableInv
  <2> SUFFICES ASSUME NEW k \in Policy \X Day, findings[k] # NoFinding
               PROVE  findings[k].window = "UTC" /\ Uniform(findings[k], k[2])
    BY DEF TableInv
  <2>1. DOMAIN << >> = {}
    OBVIOUS
  <2> QED  BY <1>6, <2>1 DEF Uniform
<1> QED  BY <1>4, <1>5, <1>7, <1>8 DEF IInv

\* A step is taken by a run or around the runs.
StepOf(r) ==
    \/ \E d \in Day, spelling \in SpellingOf[r] : StartRun(r, d, spelling)
    \/ \E p \in Policy : NextBinding(r, p)
    \/ OpenWindow(r)
    \/ \E a \in Attribute : CountAttribute(r, a)
    \/ \E flagged \in BOOLEAN : Evaluate(r, flagged)
    \/ Insert(r) \/ Commit(r) \/ QueueReview(r)
    \/ Fail(r) \/ Exit(r) \/ Kill(r)

Around ==
    /\ UNCHANGED <<findings, reviews, pc, run>>
    /\ \/ \E e \in Event, d \in Day : Record(e, d)
       \/ UNCHANGED events

\* Next, sorted into the two.
LEMMA StepSplit ==
    ASSUME [Next]_vars
    PROVE  Around \/ \E r \in Runner : StepOf(r)
<1>1. CASE Next
  <2>1. CASE Tick
    BY <2>1 DEF Tick, Around
  <2>2. CASE \E e \in Event, d \in Day : Record(e, d)
    BY <2>2 DEF Record, Around
  <2>3. CASE \E a \in Attribute : AddRule(a)
    BY <2>3 DEF AddRule, Around
  <2>4. CASE \E p \in Policy, x \in Parameter \cup {None} : SetBinding(p, x)
    BY <2>4 DEF SetBinding, Around
  <2>5. CASE \E p \in Policy, v \in Version \cup {None} : Promote(p, v)
    BY <2>5 DEF Promote, Around
  <2>6. CASE \E r \in Runner : StepOf(r)
    BY <2>6
  <2> QED  BY <1>1, <2>1, <2>2, <2>3, <2>4, <2>5, <2>6 DEF Next, StepOf
<1>2. CASE UNCHANGED vars
  BY <1>2 DEF vars, system, Around
<1> QED  BY <1>1, <1>2

\* The day of an event never changes.
LEMMA EventsStay ==
    ASSUME TypeInv, [Next]_vars
    PROVE  /\ events' \in [Event -> Day \cup {None}]
           /\ \A e \in Event : events[e] # None => events'[e] = events[e]
<1>1. CASE \E e \in Event, d \in Day : Record(e, d)
  <2>1. PICK e \in Event, d \in Day : events[e] = None /\ events' = [events EXCEPT ![e] = d]
    BY <1>1 DEF Record
  <2> QED  BY <2>1 DEF TypeInv
<1>2. CASE UNCHANGED events
  BY <1>2 DEF TypeInv
<1>3. ASSUME NEW r \in Runner, StepOf(r) PROVE UNCHANGED events
  BY <1>3 DEF StepOf, system, StartRun, NextBinding, OpenWindow, CountAttribute, Evaluate, Insert,
     Commit, QueueReview, Fail, Exit, Kill
<1> QED  BY <1>1, <1>2, <1>3, StepSplit DEF Around

\* What is uniform stays so.
LEMMA UniformStays ==
    ASSUME TypeInv, [Next]_vars, NEW f, NEW d \in Day, Uniform(f, d),
           f.counts \in Counts
    PROVE  Uniform(f, d)'
<1>1. \A a \in DOMAIN f.counts : f.counts[a] \in SUBSET Event
  BY DEF Counts
<1>2. \A e \in Event : events[e] = d => events'[e] = d
  BY EventsStay DEF Day
<1> QED  BY <1>1, <1>2 DEF Uniform
-----------------------------------------------------------------------------
\* The steps of a run, by what they do to it.  The other runs stay as they are.
PCs == {"idle", "next", "window", "count", "insert", "commit", "review", "exit"}

Alone(r) ==
    /\ pc' \in [Runner -> PCs] /\ run' \in [Runner -> Locals]
    /\ \A q \in Runner : q # r => pc'[q] = pc[q] /\ run'[q] = run[q]

\* The locals that last longer than a binding's turn.
Kept(r) ==
    /\ run'[r].window = run[r].window /\ run'[r].bindings = run[r].bindings
    /\ run'[r].given = run[r].given
    /\ run'[r].had_error = run[r].had_error

\* StartRun leaves a run before its first binding, all of them to do.
LEMMA StartRunStep ==
    ASSUME TypeInv, NEW r \in Runner, NEW d \in Day, NEW spelling \in SpellingOf[r],
           StartRun(r, d, spelling)
    PROVE  /\ Alone(r) /\ pc'[r] = "next" /\ Between(run'[r])
           /\ run'[r].todo = {p \in Policy : run'[r].bindings[p] # None}
<1> DEFINE x == [NotRunning EXCEPT !.window = d, !.given = spelling, !.bindings = binding,
                     !.todo = {p \in Policy : binding[p] # None}]
<1>1. /\ pc' = [pc EXCEPT ![r] = "next"] /\ run' = [run EXCEPT ![r] = x]
  BY DEF StartRun
<1>2. Between(x) /\ x.bindings = binding /\ x.todo = {p \in Policy : binding[p] # None}
  <2>1. spelling \in Spelling /\ binding \in [Policy -> Parameter \cup {None}]
    BY DEF Spelling, TypeInv
  <2> DEFINE t == {p \in Policy : binding[p] # None}
  <2>2. t \in SUBSET Policy
    OBVIOUS
  <2>3. x = Starting(d, spelling, binding, t)
    BY DEF Starting
  <2> HIDE DEF x, t
  <2>4. Between(x) /\ x.bindings = binding /\ x.todo = t
    BY <2>1, <2>2, <2>3, Started
  <2> QED  BY <2>4 DEF t
<1> HIDE DEF x
<1> QED  BY <1>1, <1>2 DEF TypeInv, Alone, Between, PCs

\* NextBinding takes a binding off the list, to evaluate or to skip it.
LEMMA NextBindingStep ==
    ASSUME TypeInv, NEW r \in Runner, NEW p \in Policy, NextBinding(r, p)
    PROVE  /\ Alone(r) /\ Kept(r) /\ pc[r] = "next"
           /\ run'[r].todo = run[r].todo \ {p}
           /\ run'[r].counts = run[r].counts /\ run'[r].finding = run[r].finding
           /\ \/ /\ pc'[r] = "window" /\ run'[r].policy = p /\ run'[r].version \in Deployed
                 /\ run'[r].skipped = run[r].skipped
              \/ /\ pc'[r] = "next" /\ run'[r].policy = run[r].policy
                 /\ run'[r].skipped = run[r].skipped \cup {p}
<1>1. CASE /\ production[p] \in Deployed
           /\ pc[r] = "next" /\ pc' = [pc EXCEPT ![r] = "window"]
           /\ run' = [run EXCEPT ![r].todo = @ \ {p}, ![r].policy = p,
                                 ![r].version = production[p]]
  <2>1. PICK x : /\ run' = [run EXCEPT ![r] = x]
                 /\ x = [run[r] EXCEPT !.todo = @ \ {p}, !.policy = p, !.version = production[p]]
    BY <1>1 DEF TypeInv
  <2>2. run[r] \in Locals
    BY DEF TypeInv
  <2>3. /\ x \in Locals /\ x.todo = run[r].todo \ {p} /\ x.policy = p /\ x.version \in Deployed
        /\ x.counts = run[r].counts /\ x.finding = run[r].finding
        /\ x.skipped = run[r].skipped /\ x.window = run[r].window
        /\ x.bindings = run[r].bindings /\ x.had_error = run[r].had_error
        /\ x.given = run[r].given
    BY <1>1, <2>1, <2>2 DEF Locals
  <2> QED  BY <1>1, <2>1, <2>3 DEF TypeInv, Alone, Kept, PCs
<1>2. CASE /\ pc[r] = "next" /\ pc' = pc
           /\ run' = [run EXCEPT ![r].todo = @ \ {p}, ![r].skipped = @ \cup {p}]
  <2>1. PICK x : /\ run' = [run EXCEPT ![r] = x]
                 /\ x = [run[r] EXCEPT !.todo = @ \ {p}, !.skipped = @ \cup {p}]
    BY <1>2 DEF TypeInv
  <2>2. run[r] \in Locals
    BY DEF TypeInv
  <2>3. /\ x \in Locals /\ x.todo = run[r].todo \ {p} /\ x.policy = run[r].policy
        /\ x.counts = run[r].counts /\ x.finding = run[r].finding
        /\ x.skipped = run[r].skipped \cup {p} /\ x.window = run[r].window
        /\ x.bindings = run[r].bindings /\ x.had_error = run[r].had_error
        /\ x.given = run[r].given
    BY <1>2, <2>1, <2>2 DEF Locals
  <2> QED  BY <1>2, <2>1, <2>3 DEF TypeInv, Alone, Kept, PCs
<1> QED  BY <1>1, <1>2 DEF NextBinding, Goto
\* OpenWindow takes the snapshot.
LEMMA OpenWindowStep ==
    ASSUME TypeInv, NEW r \in Runner, OpenWindow(r)
    PROVE  /\ Alone(r) /\ Kept(r) /\ pc[r] = "window" /\ pc'[r] = "count"
           /\ run'[r].todo = run[r].todo /\ run'[r].skipped = run[r].skipped
           /\ run'[r].policy = run[r].policy /\ run'[r].version = run[r].version
           /\ run'[r].counts = << >> /\ run'[r].snapshot.direct = direct
           /\ run'[r].snapshot.events = InWindow(run[r].window)
<1> DEFINE s == [events |-> InWindow(run[r].window), direct |-> direct]
           c == << >>
<1>1. PICK x : /\ run' = [run EXCEPT ![r] = x]
               /\ x = [run[r] EXCEPT !.snapshot = s, !.counts = c]
  BY DEF TypeInv, OpenWindow
<1>2. run[r] \in Locals
  BY DEF TypeInv
<1>3. /\ s \in [events : SUBSET Event, direct : SUBSET Attribute]
      /\ s.direct = direct /\ s.events = InWindow(run[r].window)
  BY DEF TypeInv, InWindow
<1>4. c \in Counts /\ c = << >>
  BY NoCounts
<1>5. pc[r] = "window" /\ pc' = [pc EXCEPT ![r] = "count"]
  BY DEF OpenWindow, Goto
<1> HIDE DEF s, c
<1>6. /\ x \in Locals /\ x.todo = run[r].todo /\ x.policy = run[r].policy
      /\ x.version = run[r].version /\ x.snapshot = s /\ x.counts = c
      /\ x.skipped = run[r].skipped /\ x.window = run[r].window
      /\ x.bindings = run[r].bindings /\ x.had_error = run[r].had_error
      /\ x.given = run[r].given
  BY <1>1, <1>2, <1>3, <1>4 DEF Locals
<1> QED  BY <1>1, <1>3, <1>4, <1>5, <1>6 DEF TypeInv, Alone, Kept, PCs

\* CountAttribute adds a count from the snapshot.
LEMMA CountAttributeStep ==
    ASSUME TypeInv, NEW r \in Runner, NEW a \in Attribute, CountAttribute(r, a)
    PROVE  /\ Alone(r) /\ Kept(r) /\ pc[r] = "count" /\ pc'[r] = "count"
           /\ a \in run[r].snapshot.direct
           /\ run'[r].todo = run[r].todo /\ run'[r].skipped = run[r].skipped
           /\ run'[r].policy = run[r].policy /\ run'[r].version = run[r].version
           /\ run'[r].snapshot = run[r].snapshot
           /\ run'[r].counts = [b \in DOMAIN run[r].counts \cup {a} |->
                                  IF b = a THEN run[r].snapshot.events ELSE run[r].counts[b]]
<1> DEFINE c == [b \in DOMAIN run[r].counts \cup {a} |->
                   IF b = a THEN run[r].snapshot.events ELSE run[r].counts[b]]
<1>1. PICK x : /\ run' = [run EXCEPT ![r] = x]
               /\ x = [run[r] EXCEPT !.counts = c]
  BY DEF TypeInv, CountAttribute
<1>2. run[r] \in Locals
  BY DEF TypeInv
<1>3. c \in Counts
  <2>1. run[r].counts \in Counts /\ run[r].snapshot.events \in SUBSET Event
    BY <1>2 DEF Locals
  <2>2. c \in [DOMAIN run[r].counts \cup {a} -> SUBSET Event]
    BY <2>1 DEF Counts
  <2>3. DOMAIN run[r].counts \cup {a} \in SUBSET Attribute
    BY <2>1 DEF Counts
  <2> HIDE DEF c
  <2> QED  BY <2>2, <2>3 DEF Counts
<1>5. pc[r] = "count" /\ pc' = pc /\ a \in run[r].snapshot.direct
  BY DEF CountAttribute
<1>a. c = [b \in DOMAIN run[r].counts \cup {a} |->
                   IF b = a THEN run[r].snapshot.events ELSE run[r].counts[b]]
  OBVIOUS
<1> HIDE DEF c
<1>6. /\ x \in Locals /\ x.todo = run[r].todo /\ x.policy = run[r].policy
      /\ x.version = run[r].version /\ x.snapshot = run[r].snapshot /\ x.counts = c
      /\ x.skipped = run[r].skipped /\ x.window = run[r].window
      /\ x.bindings = run[r].bindings /\ x.had_error = run[r].had_error
      /\ x.given = run[r].given
  BY <1>1, <1>2, <1>3 DEF Locals
<1>7. run'[r] = x
  BY <1>1 DEF TypeInv
<1>8. Alone(r)
  BY <1>1, <1>5, <1>6 DEF TypeInv, Alone, PCs
<1> QED  BY <1>5, <1>6, <1>7, <1>8, <1>a DEF TypeInv, Kept

\* What a policy's result becomes when it is signed.
Result(v, w, c, A, x, flagged) ==
    [version |-> v, window |-> w, counts |-> c, classification |-> A, parameters |-> x,
     flagged |-> flagged, signature |-> NoSignature]
SignedBy(f, k) == [f EXCEPT !.signature = sign(k, population_finding_hash(f))]

\* It is a row, signed with that key.
LEMMA Signing ==
    ASSUME NEW v \in Deployed, NEW w \in Spelling, NEW c \in Counts, NEW A \in SUBSET Attribute,
           NEW x \in Parameter \cup {None}, NEW flagged \in BOOLEAN, NEW k \in SigningKey
    PROVE  LET g == SignedBy(Result(v, w, c, A, x, flagged), k)
           IN  /\ g \in SignedFindings /\ g.window = w /\ g.counts = c /\ g.classification = A
               /\ g.signature = sign(k, population_finding_hash(g))
<1> DEFINE f == Result(v, w, c, A, x, flagged)
           g == SignedBy(f, k)
<1>a. f = [version |-> v, window |-> w, counts |-> c, classification |-> A,
           parameters |-> x, flagged |-> flagged, signature |-> NoSignature]
  BY DEF Result
<1>b. g = [f EXCEPT !.signature = sign(k, population_finding_hash(f))]
  BY DEF SignedBy
<1> SUFFICES /\ g \in SignedFindings /\ g.window = w /\ g.counts = c /\ g.classification = A
             /\ g.signature = sign(k, population_finding_hash(g))
  OBVIOUS
<1> HIDE DEF f, g
<1> DEFINE s == sign(k, population_finding_hash(f))
<1>1. g = [f EXCEPT !.signature = s]
  BY <1>b
<1> HIDE DEF s
<1>2. g = [version |-> v, window |-> w, counts |-> c, classification |-> A,
           parameters |-> x, flagged |-> flagged, signature |-> s]
  BY <1>1, <1>a
<1>3. f \in Findings
  BY <1>a DEF Findings, Counts
<1>4. [f EXCEPT !.window = w] = f
  BY <1>a
<1>5. g = Signed(f, k, w)
  BY <1>1, <1>4 DEF Signed, s
<1>6. g \in SignedFindings
  BY <1>3, <1>5 DEF SignedFindings
<1>7. population_finding_hash(g) = population_finding_hash(f)
  <2>1. DOMAIN f = Columns /\ DOMAIN g = Columns
    BY <1>2, <1>a DEF Columns
  <2>2. \A n \in Columns \ {"signature"} : g[n] = f[n]
    BY <1>2, <1>a DEF Columns
  <2> QED  BY <2>1, <2>2, HashSame
<1> QED  BY <1>2, <1>6, <1>7 DEF s
\* Evaluate leaves a signed row over what was counted.
LEMMA EvaluateStep ==
    ASSUME TypeInv, NEW r \in Runner, NEW flagged \in BOOLEAN, Evaluate(r, flagged),
           run[r].version \in Deployed, run[r].policy \in Policy
    PROVE  /\ Alone(r) /\ Kept(r) /\ pc[r] = "count" /\ pc'[r] = "insert"
           /\ DOMAIN run[r].counts = run[r].snapshot.direct
           /\ run'[r].todo = run[r].todo /\ run'[r].skipped = run[r].skipped
           /\ run'[r].policy = run[r].policy
           /\ run'[r].finding \in SignedFindings
           /\ run'[r].finding.window = run[r].given
           /\ run'[r].finding.counts = run[r].counts
           /\ run'[r].finding.classification = run[r].snapshot.direct
           /\ run'[r].finding.signature
                 = sign(KeyOf[r], population_finding_hash(run'[r].finding))
<1> DEFINE f == [version |-> run[r].version, window |-> run[r].given,
                 counts |-> run[r].counts, classification |-> run[r].snapshot.direct,
                 parameters |-> run[r].bindings[run[r].policy],
                 flagged |-> flagged, signature |-> NoSignature]
           g == [f EXCEPT !.signature = sign(KeyOf[r], population_finding_hash(f))]
           c == << >>
<1>1. PICK x : /\ run' = [run EXCEPT ![r] = x]
               /\ x = [run[r] EXCEPT !.finding = g, !.version = None, !.snapshot = NoSnapshot,
                                     !.counts = c]
  BY DEF TypeInv, Evaluate
<1>2. run[r] \in Locals
  BY DEF TypeInv
<1>3. /\ run[r].given \in Spelling /\ run[r].counts \in Counts
      /\ run[r].snapshot.direct \in SUBSET Attribute
      /\ run[r].bindings[run[r].policy] \in Parameter \cup {None}
      /\ KeyOf[r] \in SigningKey
  BY <1>2 DEF Locals
<1>4. /\ g \in SignedFindings /\ g.window = run[r].given /\ g.counts = run[r].counts
      /\ g.classification = run[r].snapshot.direct
      /\ g.signature = sign(KeyOf[r], population_finding_hash(g))
  <2>1. g = SignedBy(Result(run[r].version, run[r].given, run[r].counts,
                             run[r].snapshot.direct, run[r].bindings[run[r].policy],
                             flagged), KeyOf[r])
    BY DEF SignedBy, Result
  <2> HIDE DEF g, f
  <2>2. /\ run[r].version \in Deployed /\ run[r].given \in Spelling
        /\ run[r].counts \in Counts /\ run[r].snapshot.direct \in SUBSET Attribute
        /\ run[r].bindings[run[r].policy] \in Parameter \cup {None}
        /\ flagged \in BOOLEAN /\ KeyOf[r] \in SigningKey
    BY <1>3
  <2> QED  BY ONLY <2>1, <2>2, Signing
<1>5. c \in Counts /\ NoSnapshot \in [events : SUBSET Event, direct : SUBSET Attribute]
  BY NoCounts DEF NoSnapshot
<1>6. /\ pc[r] = "count" /\ pc' = [pc EXCEPT ![r] = "insert"]
      /\ DOMAIN run[r].counts = run[r].snapshot.direct
  BY DEF Evaluate, Goto
<1> HIDE DEF f, g, c
<1>7. g \in SignedFindings \cup {NoFinding}
  BY <1>4
<1>8. /\ x \in Locals /\ x.todo = run[r].todo /\ x.policy = run[r].policy
      /\ x.finding = g /\ x.skipped = run[r].skipped /\ x.window = run[r].window
      /\ x.bindings = run[r].bindings /\ x.had_error = run[r].had_error
      /\ x.given = run[r].given
  BY ONLY <1>1, <1>2, <1>7, <1>5 DEF Locals
<1>9. run'[r] = x
  BY <1>1 DEF TypeInv
<1>10. Alone(r)
  BY <1>1, <1>6, <1>8 DEF TypeInv, Alone, PCs
<1>11. Kept(r)
  BY ONLY <1>8, <1>9 DEF Kept
<1>12. pc'[r] = "insert"
  BY <1>6 DEF TypeInv
<1> QED  BY ONLY <1>4, <1>6, <1>8, <1>9, <1>10, <1>11, <1>12

\* Return ends a binding's turn.
LEMMA ReturnStep ==
    ASSUME TypeInv, NEW r \in Runner, NEW error \in BOOLEAN, Return(r, error)
    PROVE  /\ Alone(r) /\ pc'[r] = "next" /\ Follows(run'[r], run[r], error)
<1> DEFINE x == Returning(run[r], error)
<1>1. run' = [run EXCEPT ![r] = x] /\ pc' = [pc EXCEPT ![r] = "next"]
  BY DEF Return, Returning
<1>2. run[r] \in Locals
  BY DEF TypeInv
<1>3. Follows(x, run[r], error)
  BY <1>2, Returned
<1> HIDE DEF x
<1>4. x \in Locals
  BY <1>3 DEF Follows, Between
<1> QED  BY <1>1, <1>3, <1>4 DEF TypeInv, Alone, PCs

\* Kill forgets the run.
LEMMA KillStep ==
    ASSUME TypeInv, NEW r \in Runner, Kill(r)
    PROVE  /\ Alone(r) /\ pc'[r] = "idle" /\ run'[r] = NotRunning /\ Between(run'[r])
<1>1. pc' = [pc EXCEPT ![r] = "idle"] /\ run' = [run EXCEPT ![r] = NotRunning]
  BY DEF Kill
<1> QED  BY <1>1, Idle DEF TypeInv, Alone, Between, PCs

\* A step that only goes on.
LEMMA GotoStep ==
    ASSUME TypeInv, NEW r \in Runner, NEW from, NEW to \in PCs, Goto(r, from, to), UNCHANGED run
    PROVE  Alone(r) /\ pc[r] = from /\ pc'[r] = to
BY DEF TypeInv, Alone, Goto, PCs

\* Insert goes on only if nobody has a row of the key, committed or not.
LEMMA InsertStep ==
    ASSUME TypeInv, NEW r \in Runner, Insert(r)
    PROVE  /\ Alone(r) /\ pc[r] = "insert"
           /\ \A q \in Runner : ~ (pc[q] = "commit" /\ Key(q) = Key(r))
           /\ \/ findings[Key(r)] = NoFinding /\ pc'[r] = "commit" /\ run'[r] = run[r]
              \/ /\ findings[Key(r)] # NoFinding /\ pc'[r] = "next"
                 /\ Follows(run'[r], run[r], FALSE)
<1>1. /\ pc[r] = "insert"
      /\ \A q \in Runner : ~ (pc[q] = "commit" /\ Key(q) = Key(r))
      /\ \/ findings[Key(r)] = NoFinding /\ Goto(r, "insert", "commit") /\ UNCHANGED run
         \/ findings[Key(r)] # NoFinding /\ Return(r, FALSE)
  BY DEF Insert
<1>2. CASE findings[Key(r)] = NoFinding /\ Goto(r, "insert", "commit") /\ UNCHANGED run
  BY <1>1, <1>2, GotoStep DEF PCs
<1>3. CASE findings[Key(r)] # NoFinding /\ Return(r, FALSE)
  BY <1>1, <1>3, ReturnStep
<1> QED  BY <1>1, <1>2, <1>3

\* Every step of a run leaves the others alone.
LEMMA AloneStep ==
    ASSUME TypeInv, NEW r \in Runner, StepOf(r), WorkInv(r)
    PROVE  Alone(r)
<1>1. ASSUME NEW flagged \in BOOLEAN, Evaluate(r, flagged) PROVE Alone(r)
  BY <1>1, EvaluateStep DEF WorkInv, Evaluate, Goto
<1>2. CASE Commit(r) \/ Exit(r)
  BY <1>2, GotoStep DEF Commit, Exit, PCs
<1>3. CASE QueueReview(r)
  BY <1>3, ReturnStep DEF QueueReview
<1>4. CASE Fail(r)
  BY <1>4, ReturnStep DEF Fail
<1> QED
  BY <1>1, <1>2, <1>3, <1>4, StartRunStep, NextBindingStep, OpenWindowStep, CountAttributeStep,
     InsertStep, KillStep DEF StepOf
\* Commit stores a row, all of one snapshot, under the run's key.
LEMMA CommitStep ==
    ASSUME TypeInv, NEW r \in Runner, Commit(r), WorkInv(r)
    PROVE  /\ Alone(r) /\ pc[r] = "commit" /\ pc'[r] = "review" /\ run' = run
           /\ Key(r) \in Policy \X Day /\ Stored(run[r].finding) \in SignedFindings
           /\ findings' = [findings EXCEPT ![Key(r)] = Stored(run[r].finding)]
           /\ Stored(run[r].finding).window = "UTC"
           /\ Stored(run[r].finding) # NoFinding
           /\ Uniform(Stored(run[r].finding), run[r].window)
<1>1. /\ Goto(r, "commit", "review") /\ UNCHANGED run
      /\ findings' = [findings EXCEPT ![Key(r)] = Stored(run[r].finding)]
  BY DEF Commit
<1>2. Alone(r) /\ pc[r] = "commit" /\ pc'[r] = "review"
  BY <1>1, GotoStep DEF PCs
<1>3. /\ run[r].policy \in Policy /\ run[r].window \in Day
      /\ run[r].finding \in SignedFindings
  <2>1. run[r] \in Locals
    BY DEF TypeInv
  <2>2. run[r].policy \in Policy /\ run[r].finding # NoFinding
    BY <1>2 DEF WorkInv
  <2> QED  BY <2>1, <2>2 DEF Locals
<1>4. Uniform(run[r].finding, run[r].window)
  BY <1>2 DEF WorkInv
<1>5. Uniform(Stored(run[r].finding), run[r].window)
  BY <1>3, <1>4, StoredSigned DEF Uniform
<1> QED  BY <1>1, <1>2, <1>3, <1>5, StoredSigned DEF Key

\* Only a commit stores a finding.
LEMMA Unstored ==
    ASSUME NEW r \in Runner, StepOf(r), ~ Commit(r)
    PROVE  UNCHANGED findings
BY DEF StepOf, StartRun, NextBinding, OpenWindow, CountAttribute, Evaluate, Insert, QueueReview,
   Fail, Exit, Kill

\* A finding once stored stays as it is.
LEMMA FindingsStay ==
    ASSUME IInv, [Next]_vars
    PROVE  /\ findings' \in [Policy \X Day -> SignedFindings \cup {NoFinding}]
           /\ \A k \in Policy \X Day : findings[k] # NoFinding => findings'[k] = findings[k]
<1>1. TypeInv /\ KeyInv
  BY DEF IInv
<1>2. ASSUME NEW r \in Runner, Commit(r)
      PROVE  /\ findings' \in [Policy \X Day -> SignedFindings \cup {NoFinding}]
             /\ \A k \in Policy \X Day : findings[k] # NoFinding => findings'[k] = findings[k]
  <2>1. /\ pc[r] = "commit" /\ Key(r) \in Policy \X Day
        /\ Stored(run[r].finding) \in SignedFindings
        /\ findings' = [findings EXCEPT ![Key(r)] = Stored(run[r].finding)]
    BY <1>1, <1>2, CommitStep DEF IInv
  <2>2. findings[Key(r)] = NoFinding
    BY <1>1, <2>1 DEF KeyInv
  <2> QED  BY <1>1, <2>1, <2>2 DEF TypeInv
<1>3. CASE UNCHANGED findings
  BY <1>1, <1>3 DEF TypeInv
<1> QED  BY <1>2, <1>3, StepSplit, Unstored DEF Around

\* Every variable keeps its type.
LEMMA TypeStep ==
    ASSUME IInv, [Next]_vars
    PROVE  TypeInv'
<1>1. TypeInv /\ \A r \in Runner : WorkInv(r)
  BY DEF IInv
<1>2. events' \in [Event -> Day \cup {None}]
  BY <1>1, EventsStay
<1>3. findings' \in [Policy \X Day -> SignedFindings \cup {NoFinding}]
  BY FindingsStay
<1>4. pc' \in [Runner -> PCs] /\ run' \in [Runner -> Locals]
  BY <1>1, StepSplit, AloneStep DEF Around, Alone, TypeInv, PCs
<1>5. reviews' \in SUBSET (Policy \X Day)
  <2>1. ASSUME NEW r \in Runner, QueueReview(r) PROVE reviews' \in SUBSET (Policy \X Day)
    <3>1. pc[r] = "review" /\ (reviews' = reviews \/ reviews' = reviews \cup {Key(r)})
      BY <2>1 DEF QueueReview
    <3>2. run[r] \in Locals /\ run[r].policy \in Policy
      BY <1>1, <3>1 DEF TypeInv, WorkInv
    <3>3. Key(r) \in Policy \X Day
      BY <3>2 DEF Key, Locals
    <3> QED  BY <1>1, <3>1, <3>3 DEF TypeInv
  <2>2. CASE UNCHANGED reviews
    BY <1>1, <2>2 DEF TypeInv
  <2>3. ASSUME NEW r \in Runner, StepOf(r), ~ QueueReview(r) PROVE UNCHANGED reviews
    BY <2>3 DEF StepOf, StartRun, NextBinding, OpenWindow, CountAttribute, Evaluate, Insert,
       Commit, Fail, Exit, Kill
  <2> QED  BY <2>1, <2>2, <2>3, StepSplit DEF Around
<1>6. /\ today' \in Day /\ direct' \in SUBSET Attribute
      /\ binding' \in [Policy -> Parameter \cup {None}]
      /\ production' \in [Policy -> Version \cup {None}]
  <2>1. /\ today \in Day /\ direct \in SUBSET Attribute
        /\ binding \in [Policy -> Parameter \cup {None}]
        /\ production \in [Policy -> Version \cup {None}]
    BY <1>1 DEF TypeInv
  <2>2. CASE Tick
    BY <2>1, <2>2 DEF Tick, Day
  <2>3. CASE UNCHANGED <<today, direct, binding, production>>
    BY <2>1, <2>3
  <2>4. ASSUME NEW a \in Attribute, AddRule(a)
        PROVE  /\ today' \in Day /\ direct' \in SUBSET Attribute
               /\ binding' \in [Policy -> Parameter \cup {None}]
               /\ production' \in [Policy -> Version \cup {None}]
    BY <2>1, <2>4 DEF AddRule
  <2>5. ASSUME NEW p \in Policy, NEW x \in Parameter \cup {None}, SetBinding(p, x)
        PROVE  /\ today' \in Day /\ direct' \in SUBSET Attribute
               /\ binding' \in [Policy -> Parameter \cup {None}]
               /\ production' \in [Policy -> Version \cup {None}]
    BY <2>1, <2>5 DEF SetBinding
  <2>6. ASSUME NEW p \in Policy, NEW v \in Version \cup {None}, Promote(p, v)
        PROVE  /\ today' \in Day /\ direct' \in SUBSET Attribute
               /\ binding' \in [Policy -> Parameter \cup {None}]
               /\ production' \in [Policy -> Version \cup {None}]
    BY <2>1, <2>6 DEF Promote
  <2>7. CASE \E e \in Event, d \in Day : Record(e, d)
    BY <2>3, <2>7 DEF Record
  <2>8. ASSUME NEW r \in Runner, StepOf(r) PROVE UNCHANGED <<today, direct, binding, production>>
    BY <2>8 DEF StepOf, system, StartRun, NextBinding, OpenWindow, CountAttribute, Evaluate,
       Insert, Commit, QueueReview, Fail, Exit, Kill
  <2>9. CASE Next
    <3>1. CASE \E r \in Runner : StepOf(r)
      BY <2>3, <2>8, <3>1
    <3> QED  BY <2>2, <2>4, <2>5, <2>6, <2>7, <2>9, <3>1 DEF Next, StepOf
  <2>10. CASE UNCHANGED vars
    BY <2>3, <2>10 DEF vars, system
  <2> QED  BY <2>9, <2>10
<1> QED  BY <1>2, <1>3, <1>4, <1>5, <1>6 DEF TypeInv, PCs
-----------------------------------------------------------------------------
\* What a run holds stays true while others step.
LEMMA WorkFrame ==
    ASSUME TypeInv, [Next]_vars, NEW q \in Runner, WorkInv(q),
           pc'[q] = pc[q], run'[q] = run[q]
    PROVE  WorkInv(q)'
<1>1. run[q] \in Locals
  BY DEF TypeInv
<1>2. pc[q] \in {"insert", "commit", "review"} => Uniform(run[q].finding, run[q].window)'
  <2> SUFFICES ASSUME pc[q] \in {"insert", "commit", "review"}
               PROVE  Uniform(run[q].finding, run[q].window)'
    OBVIOUS
  <2>1. run[q].finding \in SignedFindings /\ run[q].window \in Day
    BY <1>1 DEF WorkInv, Locals
  <2>2. run[q].finding.counts \in Counts /\ Uniform(run[q].finding, run[q].window)
    BY <2>1, SignedColumns DEF IsSigned, WorkInv
  <2> DEFINE f == run[q].finding
             d == run[q].window
  <2>3. PICK g, w : g = f /\ w = d
    OBVIOUS
  <2>4. Uniform(g, w)'
    BY <2>1, <2>2, <2>3, UniformStays
  <2> QED  BY <2>3, <2>4 DEF Uniform
<1>3. pc[q] = "count" => \A e \in run[q].snapshot.events : events'[e] = run[q].window
  <2> SUFFICES ASSUME pc[q] = "count", NEW e \in run[q].snapshot.events
               PROVE  events'[e] = run[q].window
    OBVIOUS
  <2>1. e \in Event /\ run[q].window \in Day
    BY <1>1 DEF Locals
  <2>2. events[e] = run[q].window
    BY DEF WorkInv
  <2> QED  BY <2>1, <2>2, EventsStay DEF Day
<1> QED  BY <1>2, <1>3 DEF WorkInv, Uniform

\* A run between two bindings holds nothing.
LEMMA BetweenWork ==
    ASSUME NEW r \in Runner, pc'[r] \in {"idle", "next", "exit"}, Between(run'[r])
    PROVE  WorkInv(r)'
BY DEF WorkInv, Between

\* ... and what its own steps make of it.
LEMMA WorkStep ==
    ASSUME IInv, NEW r \in Runner, StepOf(r), [Next]_vars
    PROVE  WorkInv(r)'
<1>1. TypeInv /\ WorkInv(r) /\ run[r] \in Locals
  BY DEF IInv, TypeInv
<1>2. ASSUME NEW d \in Day, NEW spelling \in SpellingOf[r], StartRun(r, d, spelling)
      PROVE  WorkInv(r)'
  BY <1>1, <1>2, StartRunStep, BetweenWork
<1>3. ASSUME NEW p \in Policy, NextBinding(r, p) PROVE WorkInv(r)'
  BY <1>1, <1>3, NextBindingStep DEF WorkInv
<1>4. CASE OpenWindow(r)
  <2>1. /\ pc[r] = "window" /\ pc'[r] = "count" /\ run'[r].counts = << >>
        /\ run'[r].policy = run[r].policy /\ run'[r].version = run[r].version
        /\ run'[r].snapshot.events = InWindow(run[r].window)
        /\ run'[r].window = run[r].window
    BY <1>1, <1>4, OpenWindowStep DEF Kept
  <2>2. DOMAIN << >> = {}
    OBVIOUS
  <2>3. run[r].policy \in Policy /\ run[r].version \in Deployed
    BY <1>1, <2>1 DEF WorkInv
  <2>4. UNCHANGED events
    BY <1>4 DEF OpenWindow, system
  <2> QED  BY <2>1, <2>2, <2>3, <2>4 DEF WorkInv, InWindow
<1>5. ASSUME NEW a \in Attribute, CountAttribute(r, a) PROVE WorkInv(r)'
  <2>1. /\ pc[r] = "count" /\ pc'[r] = "count"
        /\ a \in run[r].snapshot.direct
        /\ run'[r].policy = run[r].policy /\ run'[r].version = run[r].version
        /\ run'[r].snapshot = run[r].snapshot
        /\ run'[r].counts = [b \in DOMAIN run[r].counts \cup {a} |->
                               IF b = a THEN run[r].snapshot.events ELSE run[r].counts[b]]
        /\ run'[r].window = run[r].window
    <3>1. TypeInv /\ CountAttribute(r, a)
      BY <1>1, <1>5
    <3>2. /\ Kept(r) /\ pc[r] = "count" /\ pc'[r] = "count"
          /\ a \in run[r].snapshot.direct
          /\ run'[r].policy = run[r].policy /\ run'[r].version = run[r].version
          /\ run'[r].snapshot = run[r].snapshot
          /\ run'[r].counts = [b \in DOMAIN run[r].counts \cup {a} |->
                                 IF b = a THEN run[r].snapshot.events ELSE run[r].counts[b]]
      BY ONLY <3>1, r \in Runner, a \in Attribute, CountAttributeStep
    <3>3. run'[r].window = run[r].window
      BY <3>2 DEF Kept
    <3> QED  BY <3>2, <3>3
  <2>2. UNCHANGED events
    BY <1>5 DEF CountAttribute, system
  <2>3. /\ run[r].policy \in Policy /\ run[r].version \in Deployed
        /\ DOMAIN run[r].counts \subseteq run[r].snapshot.direct
        /\ \A b \in DOMAIN run[r].counts : run[r].counts[b] = run[r].snapshot.events
        /\ \A e \in run[r].snapshot.events : events[e] = run[r].window
    BY <1>1, <2>1 DEF WorkInv
  <2>4. /\ DOMAIN run'[r].counts \subseteq run[r].snapshot.direct
        /\ \A b \in DOMAIN run'[r].counts : run'[r].counts[b] = run[r].snapshot.events
    BY <2>1, <2>3
  <2> QED  BY <2>1, <2>2, <2>3, <2>4 DEF WorkInv
<1>6. ASSUME NEW flagged \in BOOLEAN, Evaluate(r, flagged) PROVE WorkInv(r)'
  <2>1. pc[r] = "count"
    BY <1>6 DEF Evaluate, Goto
  <2>2. /\ run[r].policy \in Policy /\ run[r].version \in Deployed
        /\ DOMAIN run[r].counts \subseteq run[r].snapshot.direct
        /\ \A b \in DOMAIN run[r].counts : run[r].counts[b] = run[r].snapshot.events
        /\ \A e \in run[r].snapshot.events : events[e] = run[r].window
    BY <1>1, <2>1 DEF WorkInv
  <2>3. /\ pc'[r] = "insert" /\ DOMAIN run[r].counts = run[r].snapshot.direct
        /\ run'[r].policy = run[r].policy /\ run'[r].window = run[r].window
        /\ run'[r].given = run[r].given
        /\ run'[r].finding \in SignedFindings
        /\ run'[r].finding.window = run[r].given
        /\ run'[r].finding.counts = run[r].counts
        /\ run'[r].finding.classification = run[r].snapshot.direct
        /\ run'[r].finding.signature
              = sign(KeyOf[r], population_finding_hash(run'[r].finding))
    BY <1>1, <1>6, <2>2, EvaluateStep DEF Kept
  <2>4. UNCHANGED events
    BY <1>6 DEF Evaluate, system
  <2>5. Uniform(run[r].finding, run[r].window)'
    BY <2>2, <2>3, <2>4 DEF Uniform
  <2>6. run'[r].finding # NoFinding
    BY <2>3, NoFindingNotSigned
  <2> QED  BY <2>2, <2>3, <2>5, <2>6 DEF WorkInv
<1>7. ASSUME pc[r] \in {"insert", "commit"}, pc'[r] \in {"commit", "review"}, run'[r] = run[r],
             UNCHANGED events
      PROVE  WorkInv(r)'
  BY <1>1, <1>7 DEF WorkInv, Uniform
<1>8. ASSUME NEW error \in BOOLEAN, Return(r, error) PROVE WorkInv(r)'
  BY <1>1, <1>8, ReturnStep, BetweenWork DEF Follows
<1>9. CASE Insert(r)
  <2>1. UNCHANGED events
    BY <1>9 DEF Insert, system
  <2>2. CASE pc'[r] = "commit" /\ run'[r] = run[r]
    BY <1>1, <1>7, <1>9, <2>1, <2>2, InsertStep
  <2>3. CASE Return(r, FALSE)
    BY <1>8, <2>3
  <2> QED  BY <1>1, <1>9, <2>2, <2>3, GotoStep DEF Insert, PCs
<1>10. CASE Commit(r)
  <2>1. UNCHANGED events
    BY <1>10 DEF Commit, system
  <2> QED  BY <1>1, <1>7, <1>10, <2>1, CommitStep
<1>11. CASE QueueReview(r) \/ Fail(r)
  BY <1>8, <1>11 DEF QueueReview, Fail
<1>12. CASE Exit(r)
  <2>1. pc[r] = "next" /\ pc'[r] = "exit" /\ run'[r] = run[r]
    BY <1>1, <1>12, GotoStep DEF Exit, PCs
  <2> QED  BY <1>1, <2>1 DEF WorkInv
<1>13. CASE Kill(r)
  BY <1>1, <1>13, KillStep, BetweenWork
<1> QED
  BY <1>2, <1>3, <1>4, <1>5, <1>6, <1>9, <1>10, <1>11, <1>12, <1>13 DEF StepOf
-----------------------------------------------------------------------------
\* Whoever has inserted a row still has its key to itself, until it commits it.
LEMMA KeyStep ==
    ASSUME IInv, NEW r \in Runner, StepOf(r), [Next]_vars
    PROVE  KeyInv'
<1>1. TypeInv /\ KeyInv /\ WorkInv(r)
  BY DEF IInv
<1>2. \A q \in Runner : q # r => pc'[q] = pc[q] /\ run'[q] = run[q] /\ Key(q)' = Key(q)
  BY <1>1, AloneStep DEF Alone, Key
<1>3. \A q \in Runner : pc[q] \in {"commit", "review"} => Key(q) \in Policy \X Day
  <2> SUFFICES ASSUME NEW q \in Runner, pc[q] \in {"commit", "review"}
               PROVE  Key(q) \in Policy \X Day
    OBVIOUS
  <2>1. run[q].policy \in Policy /\ run[q] \in Locals
    BY DEF IInv, WorkInv, TypeInv
  <2> QED  BY <2>1 DEF Key, Locals
<1>4. \A q \in Runner : q # r /\ pc[q] = "review" => findings'[Key(q)] # NoFinding
  <2> SUFFICES ASSUME NEW q \in Runner, pc[q] = "review" PROVE findings'[Key(q)] # NoFinding
    OBVIOUS
  <2>1. findings[Key(q)] # NoFinding /\ Key(q) \in Policy \X Day
    BY <1>1, <1>3 DEF KeyInv
  <2> QED  BY <2>1, FindingsStay
<1>5. CASE Commit(r)
  <2>1. /\ pc[r] = "commit" /\ pc'[r] = "review" /\ run' = run
        /\ Key(r) \in Policy \X Day
        /\ findings' = [findings EXCEPT ![Key(r)] = Stored(run[r].finding)]
        /\ Stored(run[r].finding) # NoFinding
    BY <1>1, <1>5, CommitStep
  <2>2. Key(r)' = Key(r)
    BY <2>1 DEF Key
  <2>3. findings'[Key(r)] # NoFinding
    BY <1>1, <2>1 DEF TypeInv
  <2>4. \A q \in Runner : q # r /\ pc[q] = "commit" => findings'[Key(q)] = NoFinding
    BY <1>1, <1>3, <2>1 DEF KeyInv, TypeInv
  <2>5. ASSUME NEW q \in Runner, pc'[q] = "commit"
        PROVE  /\ findings'[Key(q)'] = NoFinding
               /\ \A s \in Runner : pc'[s] = "commit" /\ Key(s)' = Key(q)' => s = q
    <3>1. q # r /\ pc[q] = "commit" /\ Key(q)' = Key(q)
      BY <1>2, <2>1, <2>5
    <3>2. \A s \in Runner : pc'[s] = "commit" => pc[s] = "commit" /\ Key(s)' = Key(s)
      BY <1>2, <2>1
    <3> QED  BY <1>1, <2>4, <3>1, <3>2 DEF KeyInv
  <2>6. ASSUME NEW q \in Runner, pc'[q] = "review" PROVE findings'[Key(q)'] # NoFinding
    BY <1>2, <1>4, <2>2, <2>3, <2>6
  <2> QED  BY <2>5, <2>6 DEF KeyInv
<1>6. CASE pc'[r] = "commit" /\ Insert(r)
  <2>1. /\ findings[Key(r)] = NoFinding /\ run'[r] = run[r]
        /\ \A q \in Runner : ~ (pc[q] = "commit" /\ Key(q) = Key(r))
    BY <1>1, <1>6, InsertStep
  <2>2. Key(r)' = Key(r)
    BY <2>1 DEF Key
  <2>3. UNCHANGED findings
    BY <1>6 DEF Insert
  <2>4. ASSUME NEW q \in Runner, pc'[q] = "commit"
        PROVE  /\ findings'[Key(q)'] = NoFinding
               /\ \A s \in Runner : pc'[s] = "commit" /\ Key(s)' = Key(q)' => s = q
    BY <1>1, <1>2, <2>1, <2>2, <2>3, <2>4 DEF KeyInv
  <2>5. ASSUME NEW q \in Runner, pc'[q] = "review" PROVE findings'[Key(q)'] # NoFinding
    BY <1>2, <1>4, <1>6, <2>5
  <2> QED  BY <2>4, <2>5 DEF KeyInv
<1>7. CASE UNCHANGED findings /\ pc'[r] \notin {"commit", "review"}
  <2>1. ASSUME NEW q \in Runner, pc'[q] = "commit"
        PROVE  /\ findings'[Key(q)'] = NoFinding
               /\ \A s \in Runner : pc'[s] = "commit" /\ Key(s)' = Key(q)' => s = q
    BY <1>1, <1>2, <1>7, <2>1 DEF KeyInv
  <2>2. ASSUME NEW q \in Runner, pc'[q] = "review" PROVE findings'[Key(q)'] # NoFinding
    BY <1>2, <1>4, <1>7, <2>2
  <2> QED  BY <2>1, <2>2 DEF KeyInv
<1>8. CASE ~ Commit(r) /\ ~ (pc'[r] = "commit" /\ Insert(r))
  <2>1. UNCHANGED findings
    BY <1>8, Unstored
  <2>2. pc'[r] \notin {"commit", "review"}
    <3>1. ASSUME NEW d \in Day, NEW spelling \in SpellingOf[r], StartRun(r, d, spelling)
          PROVE  pc'[r] = "next"
      BY <1>1, <3>1, StartRunStep
    <3>2. ASSUME NEW p \in Policy, NextBinding(r, p) PROVE pc'[r] \in {"next", "window"}
      BY <1>1, <3>2, NextBindingStep
    <3>3. CASE OpenWindow(r)
      BY <1>1, <3>3, OpenWindowStep
    <3>4. ASSUME NEW a \in Attribute, CountAttribute(r, a) PROVE pc'[r] = "count"
      BY <1>1, <3>4, CountAttributeStep
    <3>5. ASSUME NEW flagged \in BOOLEAN, Evaluate(r, flagged) PROVE pc'[r] = "insert"
      BY <1>1, <3>5 DEF Evaluate, Goto, TypeInv
    <3>6. CASE Insert(r)
      BY <1>1, <1>8, <3>6, InsertStep
    <3>7. CASE QueueReview(r) \/ Fail(r)
      BY <1>1, <3>7, ReturnStep DEF QueueReview, Fail
    <3>8. CASE Exit(r)
      BY <1>1, <3>8, GotoStep DEF Exit, PCs
    <3>9. CASE Kill(r)
      BY <1>1, <3>9, KillStep
    <3> QED  BY <1>8, <3>1, <3>2, <3>3, <3>4, <3>5, <3>6, <3>7, <3>8, <3>9 DEF StepOf
  <2> QED  BY <1>7, <2>1, <2>2
<1> QED  BY <1>5, <1>6, <1>8

\* One run's part of DoneInv.
Dealt(r) ==
    ~ run[r].had_error =>
        \A p \in Policy \ (run[r].todo \cup run[r].skipped \cup {run[r].policy}) :
            run[r].bindings[p] # None => findings[<<p, run[r].window>>] # NoFinding

\* What was dealt with stays so, for a run whose locals stay or that keeps as
\* much before it.
LEMMA DealtFrame ==
    ASSUME IInv, [Next]_vars, NEW q \in Runner,
           run'[q].window = run[q].window, run'[q].bindings = run[q].bindings,
           ~ run'[q].had_error => ~ run[q].had_error,
           run[q].todo \cup run[q].skipped \cup {run[q].policy} \subseteq
              run'[q].todo \cup run'[q].skipped \cup {run'[q].policy, None}
    PROVE  Dealt(q)'
<1> SUFFICES ASSUME ~ run'[q].had_error,
                    NEW p \in Policy \ (run'[q].todo \cup run'[q].skipped \cup {run'[q].policy}),
                    run'[q].bindings[p] # None
             PROVE  findings'[<<p, run'[q].window>>] # NoFinding
  BY DEF Dealt
<1>1. p \notin run[q].todo \cup run[q].skipped \cup {run[q].policy}
  OBVIOUS
<1>2. findings[<<p, run[q].window>>] # NoFinding
  BY <1>1 DEF IInv, DoneInv
<1>3. <<p, run[q].window>> \in Policy \X Day
  BY DEF IInv, TypeInv, Locals
<1> QED  BY <1>2, <1>3, FindingsStay

\* ... and for one that ends a binding's turn with its finding stored.
LEMMA DealtReturn ==
    ASSUME IInv, [Next]_vars, NEW r \in Runner, NEW error \in BOOLEAN,
           Follows(run'[r], run[r], error),
           error \/ (findings[Key(r)] # NoFinding /\ run[r].policy \in Policy)
    PROVE  Dealt(r)'
<1>1. /\ run'[r].window = run[r].window /\ run'[r].bindings = run[r].bindings
      /\ run'[r].todo = run[r].todo /\ run'[r].skipped = run[r].skipped
      /\ ~ run'[r].had_error => ~ run[r].had_error /\ ~ error
  BY DEF Follows
<1> SUFFICES ASSUME ~ run'[r].had_error,
                    NEW p \in Policy \ (run'[r].todo \cup run'[r].skipped \cup {run'[r].policy}),
                    run'[r].bindings[p] # None
             PROVE  findings'[<<p, run'[r].window>>] # NoFinding
  BY DEF Dealt
<1>2. findings[<<p, run[r].window>>] # NoFinding
  <2>1. CASE p = run[r].policy
    BY <1>1, <2>1 DEF Key
  <2>2. CASE p # run[r].policy
    BY <1>1, <2>2 DEF IInv, DoneInv
  <2> QED  BY <2>1, <2>2
<1>3. <<p, run[r].window>> \in Policy \X Day
  BY DEF IInv, TypeInv, Locals
<1> QED  BY <1>1, <1>2, <1>3, FindingsStay

\* A run that exits 0 has dealt with every binding.
LEMMA DoneStep ==
    ASSUME IInv, NEW r \in Runner, StepOf(r), [Next]_vars
    PROVE  Dealt(r)'
<1>1. TypeInv /\ WorkInv(r) /\ run[r] \in Locals /\ KeyInv
  BY DEF IInv, TypeInv
<1>2. ASSUME NEW d \in Day, NEW spelling \in SpellingOf[r], StartRun(r, d, spelling)
      PROVE  Dealt(r)'
  <2>1. run'[r].todo = {p \in Policy : run'[r].bindings[p] # None}
    BY <1>1, <1>2, StartRunStep
  <2> QED  BY <2>1 DEF Dealt
<1>3. ASSUME NEW p \in Policy, NextBinding(r, p) PROVE Dealt(r)'
  <2>1. /\ run'[r].window = run[r].window /\ run'[r].bindings = run[r].bindings
        /\ run'[r].had_error = run[r].had_error /\ pc[r] = "next"
        /\ run'[r].todo = run[r].todo \ {p}
        /\ \/ run'[r].policy = p /\ run'[r].skipped = run[r].skipped
           \/ run'[r].policy = run[r].policy /\ run'[r].skipped = run[r].skipped \cup {p}
    BY <1>1, <1>3, NextBindingStep DEF Kept
  <2>2. run[r].policy = None
    BY <1>1, <2>1 DEF WorkInv
  <2>3. run[r].todo \cup run[r].skipped \cup {run[r].policy} \subseteq
              run'[r].todo \cup run'[r].skipped \cup {run'[r].policy, None}
    BY <2>1, <2>2
  <2> QED  BY <2>1, <2>3, DealtFrame
<1>4. ASSUME run'[r].window = run[r].window, run'[r].bindings = run[r].bindings,
             run'[r].had_error = run[r].had_error, run'[r].todo = run[r].todo,
             run'[r].skipped = run[r].skipped, run'[r].policy = run[r].policy
      PROVE  Dealt(r)'
  BY <1>4, DealtFrame
<1>5. CASE OpenWindow(r)
  BY <1>1, <1>4, <1>5, OpenWindowStep DEF Kept
<1>6. ASSUME NEW a \in Attribute, CountAttribute(r, a) PROVE Dealt(r)'
  BY <1>1, <1>4, <1>6, CountAttributeStep DEF Kept
<1>7. ASSUME NEW flagged \in BOOLEAN, Evaluate(r, flagged) PROVE Dealt(r)'
  <2>1. run[r].version \in Deployed /\ run[r].policy \in Policy
    BY <1>1, <1>7 DEF Evaluate, Goto, WorkInv
  <2> QED  BY <1>1, <1>4, <1>7, <2>1, EvaluateStep DEF Kept
<1>8. CASE Insert(r)
  <2>1. pc[r] = "insert"
    BY <1>1, <1>8, InsertStep
  <2>2. run[r].policy \in Policy
    BY <1>1, <2>1 DEF WorkInv
  <2>3. CASE run'[r] = run[r]
    BY <1>4, <2>3
  <2>4. CASE findings[Key(r)] # NoFinding /\ Follows(run'[r], run[r], FALSE)
    BY <2>2, <2>4, DealtReturn
  <2> QED  BY <1>1, <1>8, <2>3, <2>4, InsertStep
<1>9. CASE Commit(r) \/ Exit(r)
  <2>1. run'[r] = run[r]
    BY <1>9 DEF Commit, Exit
  <2> QED  BY <1>4, <2>1
<1>10. CASE QueueReview(r)
  <2>1. pc[r] = "review" /\ Follows(run'[r], run[r], FALSE)
    BY <1>1, <1>10, ReturnStep DEF QueueReview
  <2>2. run[r].policy \in Policy /\ findings[Key(r)] # NoFinding
    BY <1>1, <2>1 DEF WorkInv, KeyInv
  <2> QED  BY <2>1, <2>2, DealtReturn
<1>11. CASE Fail(r)
  <2>1. Follows(run'[r], run[r], TRUE)
    BY <1>1, <1>11, ReturnStep DEF Fail
  <2> QED  BY <2>1, DealtReturn
<1>12. CASE Kill(r)
  <2>1. run'[r].bindings = [p \in Policy |-> None]
    BY <1>1, <1>12, KillStep, Idle
  <2> QED  BY <2>1 DEF Dealt
<1> QED
  BY <1>2, <1>3, <1>5, <1>6, <1>7, <1>8, <1>9, <1>10, <1>11, <1>12 DEF StepOf

\* Every stored finding is of one snapshot of its window.
LEMMA TableStep ==
    ASSUME IInv, [Next]_vars
    PROVE  TableInv'
<1>1. TypeInv /\ TableInv
  BY DEF IInv
<1>2. ASSUME NEW k \in Policy \X Day, findings[k] # NoFinding
      PROVE  findings'[k].window = "UTC" /\ Uniform(findings[k], k[2])'
  <2>1. findings'[k] = findings[k]
    BY <1>2, FindingsStay
  <2>2. findings[k] \in SignedFindings /\ k[2] \in Day
    BY <1>1, <1>2 DEF TypeInv
  <2>3. findings[k].window = "UTC" /\ Uniform(findings[k], k[2]) /\ findings[k].counts \in Counts
    BY <1>1, <1>2, <2>2, SignedColumns DEF TableInv, IsSigned
  <2>4. PICK f : f = findings[k]
    OBVIOUS
  <2>5. Uniform(f, k[2])'
    BY <1>1, <2>2, <2>3, <2>4, UniformStays
  <2> QED  BY <2>1, <2>3, <2>4, <2>5 DEF Uniform
<1>3. ASSUME NEW r \in Runner, Commit(r) PROVE TableInv'
  <2>1. /\ Key(r) \in Policy \X Day /\ Key(r)[2] = run[r].window
        /\ findings' = [findings EXCEPT ![Key(r)] = Stored(run[r].finding)]
        /\ Stored(run[r].finding).window = "UTC"
        /\ Uniform(Stored(run[r].finding), run[r].window)
        /\ UNCHANGED events
    BY <1>1, <1>3, CommitStep DEF IInv, Key, Commit, system
  <2> SUFFICES ASSUME NEW k \in Policy \X Day, findings'[k] # NoFinding
               PROVE  findings'[k].window = "UTC" /\ Uniform(findings[k], k[2])'
    BY DEF TableInv
  <2>2. CASE k = Key(r)
    <3>1. findings'[k] = Stored(run[r].finding)
      BY <1>1, <2>1, <2>2 DEF TypeInv
    <3> QED  BY <2>1, <2>2, <3>1 DEF Uniform
  <2>3. CASE k # Key(r)
    <3>1. findings'[k] = findings[k] /\ findings[k] # NoFinding
      BY <1>1, <2>1, <2>3 DEF TypeInv
    <3> QED  BY <1>2, <3>1 DEF Uniform
  <2> QED  BY <2>2, <2>3
<1>4. CASE UNCHANGED findings
  <2> SUFFICES ASSUME NEW k \in Policy \X Day, findings'[k] # NoFinding
               PROVE  findings'[k].window = "UTC" /\ Uniform(findings[k], k[2])'
    BY DEF TableInv
  <2>1. findings'[k] = findings[k] /\ findings[k] # NoFinding
    BY <1>4
  <2> QED  BY <1>2, <2>1 DEF Uniform
<1> QED  BY <1>3, <1>4, StepSplit, Unstored DEF Around

\* IInv is inductive.
LEMMA StepInv == IInv /\ [Next]_vars => IInv'
<1> SUFFICES ASSUME IInv, [Next]_vars PROVE IInv'
  OBVIOUS
<1>1. TypeInv' /\ TableInv'
  BY TypeStep, TableStep
<1>2. TypeInv /\ KeyInv /\ DoneInv /\ ExitInv /\ \A r \in Runner : WorkInv(r)
  BY DEF IInv
<1>3. CASE Around
  <2>1. \A q \in Runner : pc'[q] = pc[q] /\ run'[q] = run[q] /\ Key(q)' = Key(q)
    BY <1>3 DEF Around, Key
  <2>2. \A q \in Runner : WorkInv(q)'
    BY <1>2, <2>1, WorkFrame
  <2>3. UNCHANGED findings
    BY <1>3 DEF Around
  <2>4. KeyInv'
    BY <1>2, <2>1, <2>3 DEF KeyInv
  <2>5. DoneInv'
    BY <1>2, <2>1, <2>3 DEF DoneInv
  <2>6. ExitInv'
    BY <1>2, <2>1 DEF ExitInv
  <2> QED  BY <1>1, <2>2, <2>4, <2>5, <2>6 DEF IInv
<1>4. ASSUME NEW r \in Runner, StepOf(r) PROVE IInv'
  <2>1. \A q \in Runner : q # r => pc'[q] = pc[q] /\ run'[q] = run[q]
    BY <1>2, <1>4, AloneStep DEF Alone
  <2>2. \A q \in Runner : WorkInv(q)'
    BY <1>2, <1>4, <2>1, WorkFrame, WorkStep
  <2>3. KeyInv'
    BY <1>4, KeyStep
  <2>4. DoneInv'
    <3>1. \A q \in Runner : Dealt(q)'
      BY <1>4, <2>1, DoneStep, DealtFrame
    <3> QED  BY <3>1 DEF DoneInv, Dealt
  <2>5. ExitInv'
    <3>1. ASSUME pc'[r] = "exit" PROVE run'[r].todo = {}
      <4>1. ASSUME ~ Exit(r) PROVE FALSE
        <5>1. ASSUME NEW d \in Day, NEW spelling \in SpellingOf[r], StartRun(r, d, spelling)
              PROVE  FALSE
          BY <1>2, <3>1, <5>1, StartRunStep
        <5>2. ASSUME NEW p \in Policy, NextBinding(r, p) PROVE FALSE
          BY <1>2, <3>1, <5>2, NextBindingStep
        <5>3. CASE OpenWindow(r)
          BY <1>2, <3>1, <5>3, OpenWindowStep
        <5>4. ASSUME NEW a \in Attribute, CountAttribute(r, a) PROVE FALSE
          BY <1>2, <3>1, <5>4, CountAttributeStep
        <5>5. ASSUME NEW flagged \in BOOLEAN, Evaluate(r, flagged) PROVE FALSE
          BY <1>2, <3>1, <5>5 DEF Evaluate, Goto, TypeInv
        <5>6. CASE Insert(r)
          BY <1>2, <3>1, <5>6, InsertStep
        <5>7. CASE Commit(r)
          BY <1>2, <3>1, <5>7, CommitStep
        <5>8. CASE QueueReview(r) \/ Fail(r)
          BY <1>2, <3>1, <5>8, ReturnStep DEF QueueReview, Fail
        <5>9. CASE Kill(r)
          BY <1>2, <3>1, <5>9, KillStep
        <5> QED  BY <1>4, <4>1, <5>1, <5>2, <5>3, <5>4, <5>5, <5>6, <5>7, <5>8, <5>9 DEF StepOf
      <4>2. run[r].todo = {} /\ run' = run
        BY <4>1 DEF Exit
      <4> QED  BY <4>2
    <3> QED  BY <1>2, <2>1, <3>1 DEF ExitInv
  <2> QED  BY <1>1, <2>2, <2>3, <2>4, <2>5 DEF IInv
<1> QED  BY <1>3, <1>4, StepSplit

\* IInv holds of every reachable state.
THEOREM Invariant == Spec => []IInv
BY InitInv, StepInv, PTL DEF Spec
-----------------------------------------------------------------------------
\* Every variable keeps its type, and nothing of one binding's evaluation is
\* left when the next one's begins: run_population_policy_binding's locals.
THEOREM TypeCorrect == Spec => []TypeOK
<1>1. ASSUME NEW f \in SignedFindings \cup {NoFinding}
      PROVE  Unsigned(f) \in Findings \cup {NoFinding}
  BY <1>1, SignedColumns DEF Unsigned, IsSigned
<1>2. IInv => TypeOK
  <2> SUFFICES ASSUME IInv PROVE TypeOK
    OBVIOUS
  <2>1. TypeInv /\ \A r \in Runner : WorkInv(r) /\ run[r] \in Locals
    BY DEF IInv, TypeInv
  <2>2. ASSUME NEW r \in Runner
        PROVE  /\ run[r].window \in Day /\ run[r].bindings \in [Policy -> Parameter \cup {None}]
               /\ run[r].todo \subseteq Policy /\ run[r].skipped \subseteq Policy
               /\ run[r].version \in Deployed \cup {None} /\ run[r].policy \in Policy \cup {None}
               /\ run[r].given \in Spelling
               /\ Unsigned(run[r].finding) \in Findings \cup {NoFinding}
               /\ run[r].had_error \in BOOLEAN
               /\ pc[r] \in {"idle", "next", "exit"} =>
                     run[r].policy = None /\ run[r].counts = << >> /\ run[r].finding = NoFinding
               /\ pc[r] \in {"insert", "commit", "review"} =>
                     run[r].policy # None /\ run[r].finding # NoFinding
    <3>1. run[r] \in Locals /\ WorkInv(r)
      BY <2>1
    <3>2. run[r].finding \in SignedFindings \cup {NoFinding}
      BY <3>1 DEF Locals
    <3>3. Unsigned(run[r].finding) \in Findings \cup {NoFinding}
      BY <1>1, <3>2
    <3> QED  BY <3>1, <3>3 DEF WorkInv, Locals
  <2>3. \A k \in Policy \X Day : Unsigned(findings[k]) \in Findings \cup {NoFinding}
    BY <1>1, <2>1 DEF TypeInv
  <2> QED  BY <2>1, <2>2, <2>3 DEF TypeInv, TypeOK
<1> QED  BY <1>2, Invariant, PTL

\* What build_population_window counts for one finding is of one population.
THEOREM Snapshot == Spec => []OneSnapshot
<1>1. IInv => OneSnapshot
  BY DEF IInv, TableInv, Uniform, OneSnapshot
<1> QED  BY <1>1, Invariant, PTL

\* "A window is computed exactly once": no step overwrites or withdraws a
\* stored population finding.
THEOREM ComputedOnce == Spec => FindingsStand
<1>1. IInv /\ [Next]_vars =>
        [\A k \in Policy \X Day : findings[k] # NoFinding => findings'[k] = findings[k]]_vars
  BY FindingsStay
<1> QED  BY <1>1, Invariant, PTL DEF Spec, FindingsStand

\* Exit status 0 of run_policies is to be trusted.
THEOREM ExitStatus == Spec => []ExitZeroMeansComputed
<1>1. IInv => ExitZeroMeansComputed
  <2> SUFFICES ASSUME IInv, NEW r \in Runner, pc[r] = "exit", ~ run[r].had_error,
                      NEW p \in Policy \ run[r].skipped, run[r].bindings[p] # None
               PROVE  findings[<<p, run[r].window>>] # NoFinding
    BY DEF ExitZeroMeansComputed
  <2>1. run[r].todo = {} /\ run[r].policy = None
    BY DEF IInv, ExitInv, WorkInv
  <2>2. p \notin run[r].todo \cup run[r].skipped \cup {run[r].policy}
    BY <2>1
  <2> QED  BY <2>2 DEF IInv, DoneInv
<1> QED  BY <1>1, Invariant, PTL
-----------------------------------------------------------------------------
\* What sign returns names its key and its hash.
LEMMA SignFields ==
    ASSUME NEW k, NEW h, NEW l, NEW i
    PROVE  /\ sign(k, h).key = k /\ sign(k, h).hash = h
           /\ sign(k, h) = sign(l, i) <=> k = l /\ h = i
BY DEF sign

\* A row of the table is valid for a key exactly if that key signed it, with the
\* window as the table gives it back.
LEMMA RowVerifies ==
    ASSUME NEW f \in SignedFindings, f.window = "UTC", NEW key
    PROVE  verify_signature(population_finding_hash(f), f.signature, key)
                 <=> f.signature.key = key /\ f.signature.hash.window # "naive"
<1>1. IsSigned(f)
  BY SignedColumns
<1>2. PICK k \in SigningKey, w \in Spelling :
        f.signature = sign(k, population_finding_hash([f EXCEPT !.window = w]))
  BY <1>1 DEF IsSigned
<1> DEFINE g == [f EXCEPT !.window = w]
           h == population_finding_hash(g)
<1>3. DOMAIN f = Columns /\ DOMAIN g = Columns /\ g.window = w
  BY <1>1 DEF IsSigned, Columns
<1>4. h.window = w
  <2>1. w # None
    BY DEF Spelling
  <2>2. "window" \in {m \in DOMAIN g \ {"signature"} : g[m] # None}
    BY <1>3, <2>1 DEF Columns
  <2> HIDE DEF g
  <2> QED  BY <1>3, <2>2 DEF population_finding_hash
<1>5. f.signature.key = k /\ f.signature.hash = h
  BY <1>2, SignFields
<1>6. CASE w = "UTC"
  <2>1. g = f
    BY <1>1, <1>6 DEF IsSigned
  <2>2. f.signature = sign(k, population_finding_hash(f))
    BY <1>2, <2>1
  <2> HIDE DEF g, h
  <2> QED  BY <1>4, <1>5, <1>6, <2>2, SignFields DEF verify_signature
<1>7. CASE w = "naive"
  <2>1. g["window"] # f["window"]
    BY <1>3, <1>7
  <2> HIDE DEF g
  <2>2. h # population_finding_hash(f)
    BY <1>3, <2>1, HashDiff DEF Columns
  <2> HIDE DEF h
  <2>3. f.signature = sign(k, h)
    BY <1>2 DEF g, h
  <2> QED  BY <1>4, <1>5, <1>7, <2>2, <2>3, SignFields DEF verify_signature
<1> QED  BY <1>6, <1>7 DEF Spelling

\* A row that was signed has a signature.
LEMMA RowSigned ==
    ASSUME NEW f \in SignedFindings
    PROVE  f.signature # NoSignature
<1>1. PICK k \in SigningKey : \E h : f.signature = sign(k, h)
  BY SignedColumns DEF IsSigned
<1>2. f.signature.key = k /\ NoSignature.key = None
  BY <1>1, SignFields DEF NoSignature
<1> QED  BY <1>2, PopulationAssumption

\* What a table without some of its signatures contains.
LEMMA ClearedRows ==
    ASSUME IInv, NEW cleared \in SUBSET Computed, NEW k \in Policy \X Day,
           NEW table, table = WithoutSignature(findings, cleared)
    PROVE  /\ k \notin cleared => table[k] = findings[k]
           /\ k \in cleared => table[k].signature = NoSignature
<1>1. table[k] = IF k \in cleared THEN [findings[k] EXCEPT !.signature = NoSignature]
                 ELSE findings[k]
  BY DEF WithoutSignature, IInv, TypeInv
<1>2. ASSUME k \in cleared PROVE DOMAIN findings[k] = Columns
  <2>1. findings[k] \in SignedFindings
    BY <1>2 DEF Computed, IInv, TypeInv
  <2> QED  BY <2>1, SignedColumns DEF IsSigned
<1> QED  BY <1>1, <1>2 DEF Columns

\* verify_population_findings rejects what another key signed or a window without
\* an offset, and skips what has no signature.
THEOREM Verifies == Spec => []FindingsVerify
<1>1. IInv => FindingsVerify
  <2> SUFFICES ASSUME IInv, NEW key \in SigningKey, NEW cleared \in SUBSET Computed
               PROVE  Invalid(WithoutSignature(findings, cleared), key) =
                        {k \in Computed \ cleared :
                            findings[k].signature.key # key \/ Naive(k)}
    BY DEF FindingsVerify, verify_population_findings
  <2>1. PICK table : table = WithoutSignature(findings, cleared)
    OBVIOUS
  <2>2. DOMAIN table = Policy \X Day
    BY <2>1 DEF WithoutSignature, IInv, TypeInv
  <2>3. ASSUME NEW k \in Policy \X Day, findings[k] # NoFinding
        PROVE  /\ findings[k].signature # NoSignature
               /\ verify_signature(population_finding_hash(findings[k]),
                                   findings[k].signature, key)
                     <=> findings[k].signature.key = key /\ ~ Naive(k)
    <3>1. findings[k] \in SignedFindings /\ findings[k].window = "UTC"
      BY <2>3 DEF IInv, TypeInv, TableInv
    <3> QED  BY <3>1, RowSigned, RowVerifies DEF Naive
  <2>4. ASSUME NEW k \in Policy \X Day
        PROVE  k \in Invalid(table, key) <=>
                  k \in Computed \ cleared /\ (findings[k].signature.key # key \/ Naive(k))
    <3>1. CASE k \in cleared
      BY <2>1, <2>2, <3>1, ClearedRows DEF Invalid
    <3>2. CASE k \notin cleared
      <4>1. table[k] = findings[k]
        BY <2>1, <3>2, ClearedRows
      <4> QED  BY <2>2, <2>3, <3>2, <4>1 DEF Invalid, Computed
    <3> QED  BY <3>1, <3>2
  <2>5. Invalid(table, key) \subseteq Policy \X Day /\ Computed \subseteq Policy \X Day
    BY <2>2 DEF Invalid, Computed
  <2> QED  BY <2>1, <2>4, <2>5
<1> QED  BY <1>1, Invariant, PTL

\* A row that differs from a valid one in a column, but not in its signature.
LEMMA ChangedInvalid ==
    ASSUME NEW f \in SignedFindings, f.window = "UTC", f.signature.hash.window # "naive",
           NEW g, DOMAIN g = Columns, g.signature = f.signature,
           NEW n \in Columns \ {"signature"}, g[n] # f[n]
    PROVE  ~ verify_signature(population_finding_hash(g), g.signature, f.signature.key)
<1>1. verify_signature(population_finding_hash(f), f.signature, f.signature.key)
  BY RowVerifies
<1>2. DOMAIN f = Columns
  BY SignedColumns DEF IsSigned
<1>3. population_finding_hash(g) # population_finding_hash(f)
  BY <1>2, HashDiff
<1> QED  BY <1>1, <1>3, SignFields DEF verify_signature

\* The columns of a finding with one of them altered.
LEMMA AlteredColumn ==
    ASSUME NEW f, DOMAIN f = Columns, NEW g \in Altered(f)
    PROVE  /\ DOMAIN g = Columns /\ g.signature = f.signature
           /\ \E n \in Columns \ {"signature"} : g[n] # f[n]
<1>1. CASE \E x : x # f.version /\ g = [f EXCEPT !.version = x]
  BY <1>1 DEF Columns
<1>2. CASE \E x : x # f.counts /\ g = [f EXCEPT !.counts = x]
  BY <1>2 DEF Columns
<1>3. CASE \E x : x # f.classification /\ g = [f EXCEPT !.classification = x]
  BY <1>3 DEF Columns
<1>4. CASE \E x : x # f.parameters /\ g = [f EXCEPT !.parameters = x]
  BY <1>4 DEF Columns
<1>5. CASE \E x : x # f.flagged /\ g = [f EXCEPT !.flagged = x]
  BY <1>5 DEF Columns
<1>6. \/ \E x : x # f.version /\ g = [f EXCEPT !.version = x]
      \/ \E x : x # f.counts /\ g = [f EXCEPT !.counts = x]
      \/ \E x : x # f.classification /\ g = [f EXCEPT !.classification = x]
      \/ \E x : x # f.parameters /\ g = [f EXCEPT !.parameters = x]
      \/ \E x : x # f.flagged /\ g = [f EXCEPT !.flagged = x]
  <2>1. CASE g \in {[f EXCEPT !.version = x] : x \in (Version \cup Deployed) \ {f.version}}
    BY <2>1
  <2>2. CASE g \in {[f EXCEPT !.counts = x] :
                 x \in Counts \ {f.counts}}
    BY <2>2
  <2>3. CASE g \in {[f EXCEPT !.classification = x] :
                 x \in (SUBSET Attribute) \ {f.classification}}
    BY <2>3
  <2>4. CASE g \in {[f EXCEPT !.parameters = x] :
                 x \in (Parameter \cup {None}) \ {f.parameters}}
    BY <2>4
  <2>5. CASE g \in {[f EXCEPT !.flagged = x] : x \in BOOLEAN \ {f.flagged}}
    BY <2>5
  <2> QED  BY <2>1, <2>2, <2>3, <2>4, <2>5 DEF Altered
<1> QED  BY <1>1, <1>2, <1>3, <1>4, <1>5, <1>6

\* If a column that the signature covers is altered, verify_population_findings
\* names that finding and no other that it did not name before; if its signature
\* is cleared too, it does not.
THEOREM ChangeLocated == Spec => []ChangedFindingLocated
<1>1. ASSUME IInv, NEW k \in Computed, ~ Naive(k), NEW g \in Altered(findings[k])
      PROVE  LET key == findings[k].signature.key
                 before == Invalid(findings, key)
             IN  /\ k \notin before
                 /\ Invalid([findings EXCEPT ![k] = g], key) = before \cup {k}
                 /\ Invalid([findings EXCEPT ![k] = [g EXCEPT !.signature = NoSignature]], key)
                       = before
  <2> DEFINE key == findings[k].signature.key
             cleared == [g EXCEPT !.signature = NoSignature]
  <2>1. /\ k \in Policy \X Day /\ findings[k] # NoFinding
        /\ findings[k] \in SignedFindings /\ findings[k].window = "UTC"
    BY <1>1 DEF Computed, IInv, TypeInv, TableInv
  <2>2. DOMAIN findings[k] = Columns
    BY <2>1, SignedColumns DEF IsSigned
  <2>3. /\ DOMAIN g = Columns /\ g.signature = findings[k].signature
        /\ \E n \in Columns \ {"signature"} : g[n] # findings[k][n]
    BY <1>1, <2>2, AlteredColumn
  <2>4. ~ verify_signature(population_finding_hash(g), g.signature, key)
    BY <1>1, <2>1, <2>3, ChangedInvalid DEF Naive
  <2>5. g # NoFinding /\ g.signature # NoSignature
    BY <2>1, <2>3, RowSigned DEF Columns, NoFinding
  <2>6. cleared.signature = NoSignature
    BY <2>3 DEF Columns
  <2>7. DOMAIN findings = Policy \X Day
    BY <1>1 DEF IInv, TypeInv
  <2>8. k \notin Invalid(findings, key)
    <3>1. verify_signature(population_finding_hash(findings[k]), findings[k].signature, key)
      <4>1. findings[k].signature.hash.window # "naive"
        BY <1>1 DEF Naive
      <4>2. PICK f \in SignedFindings : f = findings[k] /\ f.window = "UTC"
        BY <2>1
      <4>3. f.signature.key = key /\ f.signature.hash.window # "naive"
        BY <4>1, <4>2
      <4>4. verify_signature(population_finding_hash(f), f.signature, key)
        BY ONLY <4>2, <4>3, RowVerifies
      <4> QED  BY <4>2, <4>4
    <3> QED  BY <3>1 DEF Invalid
  <2>9. ASSUME NEW row, NEW table, table = [findings EXCEPT ![k] = row]
        PROVE  /\ DOMAIN table = Policy \X Day /\ table[k] = row
               /\ Invalid(table, key) \subseteq Policy \X Day
               /\ Invalid(findings, key) \subseteq Policy \X Day
               /\ \A j \in Policy \X Day : j # k =>
                     (j \in Invalid(table, key) <=> j \in Invalid(findings, key))
    BY <2>1, <2>7, <2>9 DEF Invalid
  <2> HIDE DEF key, cleared
  <2>10. Invalid([findings EXCEPT ![k] = g], key) = Invalid(findings, key) \cup {k}
    <3>1. PICK table : table = [findings EXCEPT ![k] = g]
      OBVIOUS
    <3>2. k \in Invalid(table, key)
      BY <2>1, <2>4, <2>5, <2>9, <3>1 DEF Invalid
    <3>3. /\ Invalid(table, key) \subseteq Policy \X Day
          /\ Invalid(findings, key) \subseteq Policy \X Day
          /\ \A j \in Policy \X Day : j # k =>
                (j \in Invalid(table, key) <=> j \in Invalid(findings, key))
      BY <2>9, <3>1
    <3>4. Invalid(table, key) = Invalid(findings, key) \cup {k}
      BY ONLY <2>1, <3>2, <3>3
    <3> QED  BY <3>1, <3>4
  <2>11. Invalid([findings EXCEPT ![k] = cleared], key) = Invalid(findings, key)
    <3>1. PICK table : table = [findings EXCEPT ![k] = cleared]
      OBVIOUS
    <3>2. k \notin Invalid(table, key)
      BY <2>1, <2>6, <2>9, <3>1 DEF Invalid
    <3>3. /\ Invalid(table, key) \subseteq Policy \X Day
          /\ Invalid(findings, key) \subseteq Policy \X Day
          /\ \A j \in Policy \X Day : j # k =>
                (j \in Invalid(table, key) <=> j \in Invalid(findings, key))
      BY <2>9, <3>1
    <3>4. Invalid(table, key) = Invalid(findings, key)
      BY ONLY <2>8, <3>2, <3>3
    <3> QED  BY <3>1, <3>4
  <2> QED  BY <2>8, <2>10, <2>11 DEF key, cleared
<1>2. IInv => ChangedFindingLocated
  BY <1>1 DEF ChangedFindingLocated, verify_population_findings
<1> QED  BY <1>2, Invariant, PTL
=============================================================================
