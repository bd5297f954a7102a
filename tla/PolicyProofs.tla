---------------------------- MODULE PolicyProofs ----------------------------
(***************************************************************************)
(* PolicyBindings for any number of bindings, requests and runs of the     *)
(* seed tool, and PolicyEvaluation for any rules, windows and parameters.  *)
(***************************************************************************)
EXTENDS PolicyBindings, PolicyEvaluation, WellFoundedInduction, TLAPS

\* Whoever has inserted a row has the index to itself until it commits: no
\* binding is active, and no other insert is pending.
IndexInv ==
    \A t \in Tx : pc[t] = "commit" =>
        /\ \A b \in Binding : ~ IsActive(b)
        /\ ~ Exists(inserted[t])
        /\ \A u \in Tx : pc[u] = "commit" => u = t

IInv == TypeOK /\ IndexInv /\ OneActive

\* The empty table satisfies the invariant.
LEMMA InitInv == Init => IInv
  BY BindingAssumption DEF Init, IInv, TypeOK, IndexInv, OneActive, IsActive, NoRow,
     Place, Ended

\* A statement that only reads keeps the invariant.
LEMMA ReadInv ==
  ASSUME IInv, NEW t \in Tx, NEW place \in Place \ {"idle", "commit"},
         pc[t] \notin {"idle", "commit"}, Goto(t, place),
         UNCHANGED <<policy_bindings, wanted, inserted>>
  PROVE  IInv'
  BY DEF IInv, TypeOK, IndexInv, OneActive, IsActive, Exists, Goto

\* Starting a request keeps the invariant.
LEMMA StartInv ==
  ASSUME IInv, NEW t \in Tx, NEW s \in Severity, Start(t, s)
  PROVE  IInv'
  BY BindingAssumption DEF IInv, TypeOK, IndexInv, OneActive, IsActive, Exists, Goto,
     Start, Place, Ended

\* An insert enters the index only when nothing is there.
LEMMA CreateInv ==
  ASSUME IInv, NEW t \in Tx, NEW b \in Binding, create(t, b)
  PROVE  IInv'
  <1>1. \A u \in Tx : inserted[u] = None
    BY DEF create, Pending
  <1>2. \A u \in Tx : pc[u] # "commit"
    BY <1>1 DEF IInv, TypeOK
  <1>3. CASE /\ \A c \in Binding : ~ IsActive(c)
             /\ ~ Exists(b)
             /\ inserted' = [inserted EXCEPT ![t] = b]
             /\ Goto(t, "commit")
    BY <1>1, <1>2, <1>3, BindingAssumption
       DEF create, IInv, TypeOK, IndexInv, OneActive, IsActive, Exists, Goto, Place
  <1>4. CASE Goto(t, "error") /\ UNCHANGED inserted
    BY <1>4, ReadInv DEF create, Place, Ended
  <1> QED BY <1>3, <1>4 DEF create

\* COMMIT activates the one row of the index.
LEMMA CommitInv ==
  ASSUME IInv, NEW t \in Tx, Commit(t)
  PROVE  IInv'
  <1>1. inserted[t] \in Binding
    BY DEF IInv, TypeOK, Commit
  <1>2. \A u \in Tx \ {t} : pc[u] # "commit"
    BY DEF IInv, IndexInv, Commit
  <1>3. wanted[t] \in Severity
    BY DEF IInv, TypeOK, Commit
  <1>4. TypeOK'
    BY <1>1, <1>2, <1>3
       DEF IInv, TypeOK, Commit, Goto, Place, Ended, PolicyBinding,
           PolicyBindingLifecycleState
  <1>5. IndexInv'
    BY <1>2 DEF IInv, TypeOK, IndexInv, Commit, Goto
  <1>6. OneActive'
    BY <1>1 DEF IInv, TypeOK, IndexInv, OneActive, IsActive, Commit
  <1> QED BY <1>4, <1>5, <1>6 DEF IInv

\* A failed request leaves no row.
LEMMA FailInv ==
  ASSUME IInv, NEW t \in Tx, Fail(t)
  PROVE  IInv'
  BY BindingAssumption DEF IInv, TypeOK, IndexInv, OneActive, IsActive, Exists, Goto,
     Fail, Place, Ended

\* A binding becomes active only when no other is, and no insert is pending.
LEMMA ActivateInv ==
  ASSUME IInv, NEW b \in Binding, activate(b)
  PROVE  IInv'
  <1>1. \A u \in Tx : pc[u] # "commit"
    BY DEF activate, Pending, IInv, TypeOK
  <1>2. policy_bindings[b] \in PolicyBinding
    BY DEF activate, Exists, IInv, TypeOK
  <1>3. TypeOK'
    BY <1>2 DEF IInv, TypeOK, activate, PolicyBinding, PolicyBindingLifecycleState
  <1>4. IndexInv' /\ OneActive'
    BY <1>1 DEF IInv, TypeOK, IndexInv, OneActive, IsActive, activate
  <1> QED BY <1>3, <1>4 DEF IInv

\* Deactivating only removes a binding from the index.
LEMMA DeactivateInv ==
  ASSUME IInv, NEW b \in Binding, deactivate(b)
  PROVE  IInv'
  <1>1. policy_bindings[b] \in PolicyBinding
    BY DEF deactivate, IsActive, NoRow, IInv, TypeOK
  <1>2. TypeOK'
    BY <1>1 DEF IInv, TypeOK, deactivate, PolicyBinding, PolicyBindingLifecycleState
  <1>3. IndexInv' /\ OneActive'
    BY <1>1 DEF IInv, TypeOK, IndexInv, OneActive, IsActive, Exists, deactivate
  <1> QED BY <1>2, <1>3 DEF IInv

\* Every step keeps the invariant.
LEMMA NextInv == IInv /\ [Next]_vars => IInv'
  <1> SUFFICES ASSUME IInv, [Next]_vars PROVE IInv'
    OBVIOUS
  <1>1. CASE UNCHANGED vars
    BY <1>1 DEF vars, IInv, TypeOK, IndexInv, OneActive, IsActive, Exists
  <1>2. ASSUME NEW t \in Tx, NEW s \in Severity, Start(t, s) PROVE IInv'
    BY <1>2, StartInv
  <1>3. ASSUME NEW t \in Tx, get_active_by_identity(t) PROVE IInv'
    BY <1>3, ReadInv DEF get_active_by_identity, Place, Ended
  <1>4. ASSUME NEW t \in Tx, get_by_identity(t) PROVE IInv'
    BY <1>4, ReadInv DEF get_by_identity, Place, Ended
  <1>5. ASSUME NEW t \in Tx, NEW b \in Binding, create(t, b) PROVE IInv'
    BY <1>5, CreateInv
  <1>6. ASSUME NEW t \in Tx, Commit(t) \/ Fail(t) PROVE IInv'
    BY <1>6, CommitInv, FailInv
  <1>7. ASSUME NEW b \in Binding, activate(b) \/ deactivate(b) PROVE IInv'
    BY <1>7, ActivateInv, DeactivateInv
  <1> QED BY <1>1, <1>2, <1>3, <1>4, <1>5, <1>6, <1>7 DEF Next

\* The invariant holds in every reachable state.
LEMMA AlwaysInv == Spec => []IInv
  BY InitInv, NextInv, PTL DEF Spec

\* Every variable of the bindings table and its requests keeps its type.
THEOREM TypeCorrect == Spec => []TypeOK
  <1>1. IInv => TypeOK
    BY DEF IInv
  <1> QED BY <1>1, AlwaysInv, PTL

\* At most one binding of a policy to an adapter is active, for any number of
\* concurrent requests and seed runs.
THEOREM SingleBinding == Spec => []OneActive
  <1>1. IInv => OneActive
    BY DEF IInv
  <1> QED BY <1>1, AlwaysInv, PTL

\* While one binding is active, its severity is in force.
LEMMA ActiveInForce ==
  ASSUME OneActive, NEW b \in Binding, IsActive(b)
  PROVE  InForce = policy_bindings[b].severity
  <1>1. (CHOOSE c \in Binding : IsActive(c)) = b
    BY DEF OneActive
  <1> QED BY <1>1 DEF InForce

\* While none is active, nothing is in force.
LEMMA NoneInForce ==
  ASSUME \A b \in Binding : ~ IsActive(b)
  PROVE  InForce = None
  BY DEF InForce

\* The table of bindings implements the register that the route and the runs
\* take it for.
THEOREM ImplementsRegister == Spec => InForceSpec
  <1>1. Init => Register!Init
    <2> SUFFICES ASSUME Init PROVE InForce = None
      BY DEF Register!Init
    <2> QED BY NoneInForce DEF Init, IsActive, NoRow
  <1>2. IInv /\ IInv' /\ [Next]_vars => [Register!Next]_InForce
    <2> SUFFICES ASSUME IInv, IInv', [Next]_vars
                 PROVE  \/ InForce' = InForce
                        \/ \E s \in Severity : Register!Bind(s)
                        \/ Register!Unbind
      BY DEF Register!Next
    <2>1. CASE UNCHANGED policy_bindings
      BY <2>1 DEF InForce, IsActive
    <2>2. ASSUME NEW b \in Binding, \A c \in Binding : ~ IsActive(c),
                 IsActive(b)', policy_bindings'[b].severity \in Severity
          PROVE  \E s \in Severity : Register!Bind(s)
      <3>1. InForce = None
        BY <2>2, NoneInForce
      <3>2. InForce' = policy_bindings'[b].severity
        <4>1. (CHOOSE c \in Binding : IsActive(c)') = b
          BY <2>2 DEF IInv, OneActive
        <4> QED BY <2>2, <4>1 DEF InForce
      <3> QED BY <2>2, <3>1, <3>2 DEF Register!Bind
    <2>3. ASSUME NEW t \in Tx, Commit(t)
          PROVE  \E s \in Severity : Register!Bind(s)
      <3>1. inserted[t] \in Binding /\ wanted[t] \in Severity
        BY <2>3 DEF Commit, IInv, TypeOK
      <3>2. \A c \in Binding : ~ IsActive(c)
        BY <2>3 DEF Commit, IInv, IndexInv
      <3>3. policy_bindings'[inserted[t]] = [lifecycle_state |-> "ACTIVE", severity |-> wanted[t]]
        BY <2>3, <3>1 DEF Commit, IInv, TypeOK
      <3> QED BY <2>2, <3>1, <3>2, <3>3 DEF IsActive
    <2>4. ASSUME NEW b \in Binding, activate(b)
          PROVE  \E s \in Severity : Register!Bind(s)
      <3>1. policy_bindings[b] \in PolicyBinding
        BY <2>4 DEF activate, Exists, IInv, TypeOK
      <3>2. policy_bindings'[b] = [policy_bindings[b] EXCEPT !.lifecycle_state = "ACTIVE"]
        BY <2>4 DEF activate, IInv, TypeOK
      <3>3. \A c \in Binding : ~ IsActive(c)
        BY <2>4 DEF activate
      <3> QED BY <2>2, <3>1, <3>2, <3>3 DEF IsActive, PolicyBinding
    <2>5. ASSUME NEW b \in Binding, deactivate(b)
          PROVE  Register!Unbind
      <3>1. policy_bindings[b] \in PolicyBinding
        BY <2>5 DEF deactivate, IsActive, NoRow, IInv, TypeOK
      <3>2. InForce = policy_bindings[b].severity
        BY <2>5, ActiveInForce DEF deactivate, IInv
      <3>3. \A c \in Binding : ~ IsActive(c)'
        BY <2>5, <3>1 DEF deactivate, IInv, TypeOK, OneActive, IsActive, PolicyBinding
      <3>4. InForce' = None
        BY <3>3 DEF InForce
      <3> QED BY <3>1, <3>2, <3>4, BindingAssumption DEF Register!Unbind, PolicyBinding
    <2> QED BY <2>1, <2>3, <2>4, <2>5
            DEF vars, Next, Start, get_active_by_identity, get_by_identity, create, Fail
  <1> QED BY <1>1, <1>2, AlwaysInv, PTL DEF Spec, InForceSpec, Register!Spec

\* Bindings are never deleted and keep their severity.
THEOREM HistoryKept == Spec => BindingHistory
  <1>1. IInv /\ [Next]_vars =>
          [\A b \in Binding :
             LET old == policy_bindings[b]  new == policy_bindings'[b] IN
             /\ Exists(b) => new # NoRow /\ new.severity = old.severity
             /\ ~ Exists(b) /\ new # NoRow => new.lifecycle_state = "ACTIVE"]_vars
    <2> SUFFICES ASSUME IInv, Next, NEW b \in Binding
                 PROVE  LET old == policy_bindings[b]  new == policy_bindings'[b] IN
                        /\ Exists(b) => new # NoRow /\ new.severity = old.severity
                        /\ ~ Exists(b) /\ new # NoRow => new.lifecycle_state = "ACTIVE"
      OBVIOUS
    <2>1. ASSUME UNCHANGED policy_bindings
          PROVE  policy_bindings'[b] = policy_bindings[b]
      BY <2>1
    <2>2. ASSUME NEW t \in Tx, Commit(t)
          PROVE  \/ policy_bindings'[b] = policy_bindings[b]
                 \/ /\ ~ Exists(b)
                    /\ policy_bindings'[b].lifecycle_state = "ACTIVE"
      BY <2>2 DEF Commit, IInv, TypeOK, IndexInv
    <2>3. ASSUME NEW c \in Binding, activate(c) \/ deactivate(c)
          PROVE  \/ policy_bindings'[b] = policy_bindings[b]
                 \/ /\ Exists(b)
                    /\ policy_bindings'[b] \in PolicyBinding
                    /\ policy_bindings'[b].severity = policy_bindings[b].severity
      <3>1. policy_bindings[c] \in PolicyBinding
        BY <2>3 DEF activate, deactivate, IsActive, Exists, NoRow, IInv, TypeOK
      <3>2. \/ policy_bindings'[b] = policy_bindings[b]
            \/ /\ b = c
               /\ \E x \in PolicyBindingLifecycleState :
                     policy_bindings'[b] = [policy_bindings[b] EXCEPT !.lifecycle_state = x]
        BY <2>3 DEF activate, deactivate, PolicyBindingLifecycleState, IInv, TypeOK
      <3> QED BY <3>1, <3>2 DEF PolicyBinding, Exists, NoRow
    <2>4. policy_bindings[b] \in PolicyBinding \cup {NoRow}
      BY DEF IInv, TypeOK
    <2> QED BY <2>1, <2>2, <2>3, <2>4
            DEF Next, Start, get_active_by_identity, get_by_identity, create, Fail,
                Exists, NoRow, PolicyBinding
  <1> QED BY <1>1, AlwaysInv, PTL DEF Spec, BindingHistory

\* A seed run that creates a binding found none active when it committed.
THEOREM SeedRespects == Spec => SeedRespectsAdmins
  <1>1. IInv =>
          [\A t \in Seeder : pc[t] = "commit" /\ pc'[t] = "created" =>
             \A b \in Binding : ~ IsActive(b)]_vars
    BY DEF IInv, IndexInv, Tx
  <1> QED BY <1>1, AlwaysInv, PTL DEF SeedRespectsAdmins

-----------------------------------------------------------------------------
\* A nonempty set of numbers has a least element.
LEMMA LeastNumber ==
  ASSUME NEW T \in SUBSET Nat, T # {}
  PROVE  \E n \in T : \A m \in T : n <= m
  <1>1. IsWellFoundedOn(OpToRel(<, Nat), Nat)
    BY NatLessThanWellFounded
  <1>2. PICK n \in T : \A m \in T : ~ (<<m, n>> \in OpToRel(<, Nat))
    BY <1>1, WFMin
  <1>3. \A m \in T : ~ (m < n)
    BY <1>2 DEF OpToRel
  <1> QED BY <1>3

\* A set with 0 and the successors of its elements has every number.
LEMMA SetInduction ==
  ASSUME NEW I, 0 \in I, \A n \in Nat : n \in I => n + 1 \in I
  PROVE  \A n \in Nat : n \in I
  <1> DEFINE T == {n \in Nat : n \notin I}
  <1>1. SUFFICES ASSUME T # {} PROVE FALSE
    OBVIOUS
  <1>2. PICK n \in T : \A m \in T : n <= m
    BY <1>1, LeastNumber
  <1>3. n - 1 \in Nat /\ n - 1 \notin T
    BY <1>2
  <1> QED BY <1>2, <1>3

-----------------------------------------------------------------------------
\* The order of fractions is total and transitive.
LEMMA NotLessTransitive ==
  ASSUME NEW p \in Fraction, NEW q \in Fraction, NEW r \in Fraction,
         ~ Less(p, q), ~ Less(q, r)
  PROVE  ~ Less(p, r)
  <1>1. /\ p.n \in Int /\ q.n \in Int /\ r.n \in Int
        /\ p.d \in Nat \ {0} /\ q.d \in Nat \ {0} /\ r.d \in Nat \ {0}
        /\ p.n * q.d >= q.n * p.d /\ q.n * r.d >= r.n * q.d
    BY DEF Fraction, Less
  <1> HIDE DEF Fraction
  <1>2. ASSUME NEW x \in Int, NEW y \in Int, NEW c \in Nat \ {0}, x >= y
        PROVE  x * c >= y * c
    BY <1>2
  <1>3. (p.n * q.d) * r.d >= (q.n * p.d) * r.d /\ (q.n * r.d) * p.d >= (r.n * q.d) * p.d
    BY <1>1, <1>2
  <1>4. (p.n * r.d) * q.d >= (r.n * p.d) * q.d
    BY <1>1, <1>3
  <1>5. ASSUME NEW x \in Int, NEW y \in Int, NEW c \in Nat \ {0}, x * c >= y * c
        PROVE  x >= y
    BY <1>5
  <1>6. p.n * r.d >= r.n * p.d
    BY <1>1, <1>4, <1>5
  <1> QED BY <1>1, <1>6 DEF Less

\* One of two fractions is not less than the other.
LEMMA NotBothLess ==
  ASSUME NEW p \in Fraction, NEW q \in Fraction
  PROVE  (Less(p, q) => ~ Less(q, p)) /\ ~ Less(p, p)
  BY DEF Fraction, Less

\* Counts of groups at finitely many positions.
IsCounts(counts) ==
    /\ counts \in [DOMAIN counts -> PopulationGroupCount(Attribute)]
    /\ \E n \in Nat : DOMAIN counts \subseteq 1 .. n

\* A group's rate is a fraction.
LEMMA RateType ==
  ASSUME NEW g \in PopulationGroupCount(Attribute)
  PROVE  Rate(g) \in Fraction
  BY DEF PopulationGroupCount, Rate, Rational, Fraction

\* Some group of a nonempty part of a window has the highest rate.
LEMMA HighestRate ==
  ASSUME NEW counts, IsCounts(counts), NEW E \in SUBSET DOMAIN counts, E # {}
  PROVE  \E h \in E : \A i \in E : ~ Less(Rate(counts[h]), Rate(counts[i]))
  <1> DEFINE rate(i) == Rate(counts[i])
             Top(h, n) == h <= n /\ \A i \in E : i <= n => ~ Less(rate(h), rate(i))
             I == {n \in Nat : (\E i \in E : i <= n) => \E h \in E : Top(h, n)}
  <1>1. PICK n \in Nat : DOMAIN counts \subseteq 1 .. n
    BY DEF IsCounts
  <1>2. \A i \in E : i \in 1 .. n /\ i \in Nat /\ rate(i) \in Fraction
    BY <1>1, RateType DEF IsCounts
  <1> HIDE DEF rate
  <1>3. 0 \in I
    BY <1>1, <1>2
  <1>4. ASSUME NEW m \in Nat, m \in I PROVE m + 1 \in I
    <2> SUFFICES ASSUME \E i \in E : i <= m + 1 PROVE \E h \in E : Top(h, m + 1)
      OBVIOUS
    <2>1. CASE m + 1 \notin E
      <3>1. \A i \in E : i <= m + 1 => i <= m
        BY <1>2, <2>1
      <3>2. PICK h \in E : Top(h, m)
        BY <1>4, <3>1
      <3>3. Top(h, m + 1)
        BY <1>2, <3>1, <3>2
      <3> QED BY <3>3
    <2>2. CASE m + 1 \in E /\ \A i \in E : ~ i <= m
      <3>1. \A i \in E : i <= m + 1 => i = m + 1
        BY <1>2, <2>2
      <3>2. Top(m + 1, m + 1)
        BY <1>2, <2>2, <3>1, NotBothLess
      <3> QED BY <2>2, <3>2
    <2>3. CASE m + 1 \in E /\ \E i \in E : i <= m
      <3>1. PICK h \in E : Top(h, m)
        BY <1>4, <2>3
      <3>2. \A i \in E : i <= m + 1 => i <= m \/ i = m + 1
        BY <1>2
      <3>3. CASE Less(rate(h), rate(m + 1))
        <4>1. ~ Less(rate(m + 1), rate(h)) /\ ~ Less(rate(m + 1), rate(m + 1))
          BY <1>2, <2>3, <3>3, NotBothLess
        <4>2. ASSUME NEW i \in E, i <= m + 1 PROVE ~ Less(rate(m + 1), rate(i))
          <5>1. CASE i = m + 1
            BY <4>1, <5>1
          <5>2. CASE i <= m
            BY <1>2, <2>3, <3>1, <4>1, <5>2, NotLessTransitive
          <5> QED BY <3>2, <4>2, <5>1, <5>2
        <4> QED BY <2>3, <4>2
      <3>4. CASE ~ Less(rate(h), rate(m + 1))
        <4>1. Top(h, m + 1)
          BY <1>2, <3>1, <3>2, <3>4
        <4> QED BY <4>1
      <3> QED BY <3>3, <3>4
    <2> QED BY <2>1, <2>2, <2>3
  <1> HIDE DEF I
  <1>5. n \in I
    BY <1>3, <1>4, SetInduction
  <1>6. PICK h \in E : Top(h, n)
    BY <1>2, <1>5 DEF I
  <1> QED BY <1>2, <1>6 DEF rate

\* The reference rate is that of a group, and no group has a higher one.
LEMMA ReferenceRate ==
  ASSUME NEW counts, IsCounts(counts), NEW E \in SUBSET DOMAIN counts, E # {}
  PROVE  /\ \E h \in E : _reference_rate(counts, E) = Rate(counts[h])
         /\ \A i \in E : ~ Less(_reference_rate(counts, E), Rate(counts[i]))
  <1> DEFINE rates == {Rate(counts[i]) : i \in E}
  <1>1. PICK h \in E : \A i \in E : ~ Less(Rate(counts[h]), Rate(counts[i]))
    BY HighestRate
  <1>2. \E r \in rates : \A q \in rates : ~ Less(r, q)
    <2>1. Rate(counts[h]) \in rates /\ \A q \in rates : ~ Less(Rate(counts[h]), q)
      BY <1>1
    <2> QED BY <2>1
  <1> DEFINE r == _reference_rate(counts, E)
  <1>3. r \in rates /\ \A q \in rates : ~ Less(r, q)
    BY <1>2, Zenon DEF _reference_rate
  <1> QED BY <1>3

\* The reference group is in the part, and no group has a higher rate.
LEMMA Reference ==
  ASSUME NEW counts, IsCounts(counts), NEW E \in SUBSET DOMAIN counts, E # {}
  PROVE  /\ ReferenceGroup(counts, E) \in E
         /\ \A i \in E : ~ Less(Rate(counts[ReferenceGroup(counts, E)]), Rate(counts[i]))
  <1> DEFINE rate(i) == Rate(counts[i])
             First(i) == \A j \in E : /\ ~ Less(rate(i), rate(j))
                                      /\ j < i => Less(rate(j), rate(i))
             T == {i \in E : \A j \in E : ~ Less(rate(i), rate(j))}
  <1>1. PICK n \in Nat : DOMAIN counts \subseteq 1 .. n
    BY DEF IsCounts
  <1>2. \A i \in E : i \in Nat /\ rate(i) \in Fraction
    BY <1>1, RateType DEF IsCounts
  <1>3. T # {} /\ T \in SUBSET Nat
    BY <1>2, HighestRate
  <1>4. PICK i \in T : \A j \in T : i <= j
    BY <1>3, LeastNumber
  <1> HIDE DEF rate
  <1>5. ASSUME NEW j \in E, j < i PROVE Less(rate(j), rate(i))
    <2>1. j \notin T
      BY <1>2, <1>3, <1>4, <1>5
    <2>2. PICK k \in E : Less(rate(j), rate(k))
      BY <2>1
    <2>3. ~ Less(rate(i), rate(k))
      BY <1>4
    <2> QED BY <1>2, <1>4, <2>2, <2>3, NotLessTransitive
  <1>6. i \in E /\ First(i)
    BY <1>4, <1>5
  <1>7. ReferenceGroup(counts, E) = CHOOSE x \in E : First(x)
    BY DEF ReferenceGroup, rate
  <1> HIDE DEF First
  <1>8. ReferenceGroup(counts, E) \in E /\ First(ReferenceGroup(counts, E))
    BY <1>6, <1>7, Zenon
  <1> QED BY <1>8 DEF First, rate
-----------------------------------------------------------------------------
\* A finding was computed by a policy from typed counts and parameters.
FindingInv ==
    result.kind = "finding" =>
        /\ result.policy \in Policies
        /\ IsCounts(result.counts)
        /\ \E p \in Parameters :
              result.parameters_used = _resolve_parameters(result.policy, p)
        /\ result.outcome
              \in Outcomes(result.policy, result.counts, result.parameters_used)

\* A recorded event was judged by the static rules and resolved by the rows.
RecordInv ==
    result.kind = "recorded" =>
        LET refs == result.event.protected_attribute_refs
            static == resolve(FINANCE, refs)
        IN  /\ Unrecognized \notin {static, result.resolutions}
            /\ result.resolutions = resolve(rules_for_domain(rules), refs)
            /\ result.outcome =
                  IF Direct(static) \cap result.event.input_features # {}
                  THEN "FLAGGED" ELSE "CLEAR"

ResultInv == FindingInv /\ RecordInv

\* What a window counts are counts.
LEMMA CountsTyped ==
  ASSUME NEW w \in Window, NEW S \in SUBSET DOMAIN w
  PROVE  IsCounts([i \in S |-> w[i]])
  <1>1. w \in Seq(PopulationGroupCount(Attribute))
    BY WindowAssumption
  <1>2. /\ Len(w) \in Nat /\ DOMAIN w = 1 .. Len(w)
        /\ \A i \in DOMAIN w : w[i] \in PopulationGroupCount(Attribute)
    BY <1>1
  <1> QED BY <1>2 DEF IsCounts

\* Every result is of this form.
LEMMA ResultsTyped == PESpec => []ResultInv
  <1>1. PEInit => ResultInv
    BY DEF PEInit, NoResult, ResultInv, FindingInv, RecordInv
  <1>2. ResultInv /\ [PENext]_pevars => ResultInv'
    <2> SUFFICES ASSUME ResultInv, [PENext]_pevars PROVE ResultInv'
      OBVIOUS
    <2>1. CASE UNCHANGED pevars
      BY <2>1 DEF pevars, ResultInv, FindingInv, RecordInv
    <2>2. CASE result' = NoResult
      BY <2>2 DEF NoResult, ResultInv, FindingInv, RecordInv
    <2>3. ASSUME NEW e \in Event, EvaluateEvent(e) PROVE ResultInv'
      BY <2>3 DEF EvaluateEvent, ResultInv, FindingInv, RecordInv
    <2>4. ASSUME NEW policy \in Policies, NEW w \in Window, NEW p \in Parameters,
                 EvaluateWindow(policy, w, p)
          PROVE  ResultInv'
      <3> DEFINE counts == [i \in {j \in DOMAIN w : rules[w[j].attribute] = "DIRECT"} |-> w[i]]
                 used == _resolve_parameters(policy, p)
      <3>1. IsCounts(counts)
        BY CountsTyped
      <3>2. PICK outcome \in Outcomes(policy, counts, used) :
               result' = [kind |-> "finding", policy |-> policy, counts |-> counts,
                          parameters_used |-> used, outcome |-> outcome]
        BY <2>4 DEF EvaluateWindow
      <3> HIDE DEF counts
      <3>3. /\ result'.kind = "finding" /\ result'.policy = policy
            /\ result'.counts = counts /\ result'.parameters_used = used
            /\ result'.outcome = outcome
        BY <3>2
      <3>4. FindingInv'
        BY <3>1, <3>2, <3>3 DEF FindingInv
      <3> QED BY <3>3, <3>4 DEF ResultInv, RecordInv
    <2> QED BY <2>1, <2>2, <2>3, <2>4
            DEF PENext, create_protected_attribute_rule, seed_finance_protected_attribute_rules
  <1> QED BY <1>1, <1>2, PTL DEF PESpec

\* Once the rows contain the static rules, the two classifications of an event
\* agree, for any rules an admin adds.
THEOREM Classifications == PESpec => []OneClassification
  <1>1. ResultInv => OneClassification
    <2> SUFFICES ASSUME RecordInv, result.kind = "recorded",
                        \A a \in DOMAIN FINANCE : a \in DOMAIN rules /\ rules[a] = FINANCE[a]
                 PROVE  result.outcome = "FLAGGED"
                          <=> Direct(result.resolutions) \cap result.event.input_features # {}
      BY DEF ResultInv, OneClassification
    <2> DEFINE refs == result.event.protected_attribute_refs
    <2>1. /\ resolve(FINANCE, refs) # Unrecognized
          /\ resolve(rules, refs) # Unrecognized /\ result.resolutions = resolve(rules, refs)
          /\ result.outcome =
                IF Direct(resolve(FINANCE, refs)) \cap result.event.input_features # {}
                THEN "FLAGGED" ELSE "CLEAR"
      BY DEF RecordInv, rules_for_domain
    <2>2. refs \subseteq DOMAIN FINANCE /\ DOMAIN FINANCE # {}
      BY <2>1, FinanceAssumption DEF resolve
    <2>3. Direct(resolve(FINANCE, refs)) = {a \in refs : FINANCE[a] = "DIRECT"}
      BY <2>2 DEF resolve, Direct
    <2>4. Direct(resolve(rules, refs)) = {a \in refs : rules[a] = "DIRECT"}
      BY <2>2 DEF resolve, Direct
    <2> HIDE DEF refs
    <2>5. Direct(resolve(FINANCE, refs)) = Direct(result.resolutions)
      BY <2>1, <2>2, <2>3, <2>4
    <2> QED BY <2>1, <2>5
  <1> QED BY <1>1, ResultsTyped, PTL

-----------------------------------------------------------------------------
\* Resolved parameters are a positive limit, at most 1 for a ratio, and a group
\* size of at least 2.
LEMMA ResolvedTyped ==
  ASSUME NEW policy \in Policies, NEW p \in Parameters
  PROVE  LET used == _resolve_parameters(policy, p) IN
         /\ used = [limit |-> used.limit, minimum_group_size |-> used.minimum_group_size]
         /\ used.limit \in Fraction /\ InRange(policy, used.limit)
         /\ used.minimum_group_size \in Nat /\ used.minimum_group_size >= 2
  <1> DEFINE used == _resolve_parameters(policy, p)
  <1>1. /\ p.limit \in Fraction \cup {Unset, NaN}
        /\ p.minimum_group_size \in Fraction \cup {Unset, NaN}
    BY BindingParameterAssumption
  <1>2. /\ _RATIO_THRESHOLD \in Fraction /\ InRange(policy, _RATIO_THRESHOLD)
        /\ _Z_CRITICAL \in Fraction
        /\ policy # "adverse-impact-ratio" => InRange(policy, _Z_CRITICAL)
    BY ParameterAssumption DEF _RATIO_THRESHOLD, _Z_CRITICAL, Rational, Fraction, InRange
  <1>3. used.limit \in Fraction /\ InRange(policy, used.limit)
    BY <1>1, <1>2 DEF _resolve_parameters, InRange
  <1>4. ASSUME NEW n \in Int, NEW d \in Nat \ {0} PROVE n \div d \in Int
    BY <1>4
  <1>5. GroupSize(p.minimum_group_size) \in Nat /\ GroupSize(p.minimum_group_size) >= 2
    BY <1>1, <1>4 DEF GroupSize, Fraction, _MINIMUM_GROUP_SIZE, _STRUCTURAL_MINIMUM_GROUP_SIZE
  <1> QED BY <1>3, <1>5 DEF _resolve_parameters

\* A finding can be computed again from the parameters it records.
THEOREM Reproducible == PESpec => []ParametersReproduce
  <1>1. ResultInv => ParametersReproduce
    <2> SUFFICES ASSUME FindingInv, result.kind = "finding" PROVE ParametersReproduce
      BY DEF ResultInv, ParametersReproduce
    <2> DEFINE used == result.parameters_used
               size == used.minimum_group_size
               again == _resolve_parameters(result.policy,
                          [limit |-> used.limit, minimum_group_size |-> Rational(size, 1)])
    <2>1. PICK p \in Parameters : used = _resolve_parameters(result.policy, p)
      BY DEF FindingInv
    <2>2. result.policy \in Policies
      BY DEF FindingInv
    <2>3. /\ used = [limit |-> used.limit, minimum_group_size |-> size]
          /\ used.limit \in Fraction /\ InRange(result.policy, used.limit)
          /\ size \in Nat /\ size >= 2
      BY <2>1, <2>2, ResolvedTyped
    <2>4. again.limit = used.limit
      BY <2>3 DEF _resolve_parameters
    <2>5. GroupSize(Rational(size, 1)) = size
      <3>1. /\ Rational(size, 1) \in Fraction
            /\ Rational(size, 1).n = size /\ Rational(size, 1).d = 1
        BY <2>3 DEF Rational, Fraction
      <3>2. Rational(size, 1) \notin {Unset, NaN}
        BY <3>1, ParameterAssumption
      <3>3. size \div 1 = size
        BY <2>3
      <3> QED BY <2>3, <3>1, <3>2, <3>3 DEF GroupSize, _STRUCTURAL_MINIMUM_GROUP_SIZE
    <2>6. again = used
      BY <2>3, <2>4, <2>5 DEF _resolve_parameters
    <2> QED BY <2>3, <2>6 DEF ParametersReproduce, FindingInv
  <1> QED BY <1>1, ResultsTyped, PTL
-----------------------------------------------------------------------------
\* A policy's results are those of the groups of each attribute.
LEMMA RatioResult ==
  ASSUME NEW counts, NEW used, NEW x
  PROVE  x \in Comparisons("adverse-impact-ratio", counts, used)
           <=> \E a \in Attributes(counts) :
                  x \in Ratios(counts, group_by_attribute(counts, a), used)
  BY DEF Comparisons

\* If a group's rate is under the limit times another's, it is under the limit
\* times the highest.
LEMMA UnderHighest ==
  ASSUME NEW g \in PopulationGroupCount(Attribute), NEW h \in PopulationGroupCount(Attribute),
         NEW r \in Fraction, NEW limit \in Fraction, 0 < limit.n,
         ~ Less(r, Rate(h)),
         g.favorable_outcome_count * h.total_count * limit.d
           < h.favorable_outcome_count * g.total_count * limit.n
  PROVE  r.n # 0 /\ Ratio(Rate(g), r, limit) = "below"
  <1> DEFINE fg == g.favorable_outcome_count  tg == g.total_count
             fh == h.favorable_outcome_count  th == h.total_count
             n == r.n  d == r.d  ln == limit.n  ld == limit.d
  <1>1. /\ fg \in Nat /\ fh \in Nat /\ tg \in Nat \ {0} /\ th \in Nat \ {0}
        /\ n \in Int /\ d \in Nat \ {0} /\ ln \in Nat \ {0} /\ ld \in Nat \ {0}
    BY DEF PopulationGroupCount, Fraction
  <1>2. ~ (n * th < fh * d) /\ (fg * th) * ld < (fh * tg) * ln
    BY DEF Less, Rate, Rational
  <1>3. /\ Less(Rate(g), Rational(ln * n, ld * d)) <=> fg * (ld * d) < (ln * n) * tg
        /\ Ratio(Rate(g), r, limit) = "below" <=> Less(Rate(g), Rational(ln * n, ld * d))
    BY DEF Less, Rate, Rational, Ratio
  <1> HIDE DEF fg, tg, fh, th, n, d, ln, ld
  <1>4. ASSUME NEW x \in Int, NEW y \in Int, NEW c \in Nat \ {0}
        PROVE  (x < y <=> x * c < y * c) /\ (x <= y => x * c <= y * c)
    BY <1>4
  <1>5. ((fg * th) * ld) * d < ((fh * tg) * ln) * d
    BY <1>1, <1>2, <1>4
  <1>6. (fh * d) * (tg * ln) <= (n * th) * (tg * ln)
    BY <1>1, <1>2, <1>4
  <1>7. (fg * (ld * d)) * th < ((ln * n) * tg) * th
    BY <1>1, <1>5, <1>6
  <1>8. fg * (ld * d) < (ln * n) * tg
    BY <1>1, <1>4, <1>7
  <1>9. n # 0
    BY <1>1, <1>8
  <1> QED BY <1>3, <1>8, <1>9 DEF n

\* A group that is not clear of the limit is another than the reference, which
\* somebody of was approved.
LEMMA NotClear ==
  ASSUME NEW g \in PopulationGroupCount(Attribute), NEW h \in PopulationGroupCount(Attribute),
         NEW limit \in Fraction, 0 < limit.n, limit.n <= limit.d,
         Rate(h).n # 0, Ratio(Rate(g), Rate(h), limit) \in {"below", "at"}
  PROVE  /\ g.favorable_outcome_count * h.total_count * limit.d
              <= h.favorable_outcome_count * g.total_count * limit.n
         /\ g # h /\ h.favorable_outcome_count > 0
  <1> DEFINE fg == g.favorable_outcome_count  tg == g.total_count
             fh == h.favorable_outcome_count  th == h.total_count
             ln == limit.n  ld == limit.d
  <1>1. /\ fg \in Nat /\ fh \in Nat \ {0} /\ tg \in Nat \ {0} /\ th \in Nat \ {0}
        /\ ln \in Nat \ {0} /\ ld \in Nat \ {0} /\ ln <= ld
    BY DEF PopulationGroupCount, Fraction, Rate, Rational
  <1>2. \/ fg * (ld * th) < (ln * fh) * tg
        \/ fg * (ld * th) = (ln * fh) * tg /\ ln < ld
    BY DEF Less, Equal, Rate, Rational, Ratio
  <1>3. ASSUME g = h PROVE FALSE
    <2>1. fg = fh /\ tg = th
      BY <1>3
    <2> HIDE DEF fg, tg, fh, th, ln, ld
    <2>2. fh * th \in Nat \ {0}
      BY <1>1
    <2>3. (fh * th) * ld < (fh * th) * ln \/ ((fh * th) * ld = (fh * th) * ln /\ ln < ld)
      BY <1>1, <1>2, <2>1
    <2>4. ASSUME NEW x \in Nat, NEW y \in Nat, NEW c \in Nat \ {0}, x < y PROVE c * x < c * y
      BY <2>4
    <2>5. ln = ld \/ ln < ld
      BY <1>1
    <2> QED BY <1>1, <2>2, <2>3, <2>4, <2>5
  <1> HIDE DEF fg, tg, fh, th, ln, ld
  <1>4. (fg * th) * ld <= (fh * tg) * ln
    BY <1>1, <1>2
  <1>5. fh > 0
    BY <1>1
  <1> QED BY <1>3, <1>4, <1>5 DEF fg, tg, fh, th, ln, ld

\* The four-fifths rule holds pair by pair, whichever group has the highest
\* rate and however many groups and attributes there are.
THEOREM FourFifthsRule == PESpec => []FourFifths
  <1>1. ResultInv => FourFifths
    <2> SUFFICES ASSUME FindingInv, Finding("adverse-impact-ratio") PROVE FourFifths
      BY DEF ResultInv, FourFifths
    <2> DEFINE counts == result.counts
               used == result.parameters_used
               minimum == used.minimum_group_size
               Group == PopulationGroupCount(Attribute)
               Eligible(a) == {i \in group_by_attribute(counts, a) :
                                  counts[i].total_count >= minimum}
               ratio(g, h) == [n |-> g.favorable_outcome_count * h.total_count * Limit.d,
                               d |-> h.favorable_outcome_count * g.total_count * Limit.n]
               large == {g \in Groups : g.total_count >= minimum}
               pairs == {q \in large \X large : q[1].attribute = q[2].attribute}
               results == Comparisons("adverse-impact-ratio", counts, used)
    <2>1. /\ Limit \in Fraction /\ 0 < Limit.n /\ Limit.n <= Limit.d
          /\ Limit = used.limit
      BY ResolvedTyped DEF FindingInv, Finding, Limit, InRange, Policies
    <2>2. IsCounts(counts) /\ \A i \in DOMAIN counts : counts[i] \in Group
      BY DEF FindingInv, Finding, IsCounts
    <2>3. /\ "below" \in results => result.outcome = "FLAGGED"
          /\ result.outcome = "FLAGGED" => "below" \in results \/ "at" \in results
      BY DEF FindingInv, Finding, Outcomes
    <2>4. Groups = {counts[i] : i \in DOMAIN counts}
      BY DEF Groups
    <2>5. \A a : Ratios(counts, group_by_attribute(counts, a), used) =
                   IF Few(Eligible(a)) \/ _reference_rate(counts, Eligible(a)).n = 0 THEN {}
                   ELSE {Ratio(Rate(counts[i]), _reference_rate(counts, Eligible(a)), Limit) :
                            i \in Eligible(a)}
      BY <2>1 DEF Ratios
    <2>6. \A a : Eligible(a) \in SUBSET DOMAIN counts
      BY DEF group_by_attribute
    <2>7. ASSUME NEW q \in pairs, ratio(q[1], q[2]).n < ratio(q[1], q[2]).d
          PROVE  result.outcome = "FLAGGED"
      <3>1. PICK i \in DOMAIN counts, j \in DOMAIN counts : q[1] = counts[i] /\ q[2] = counts[j]
        BY <2>4
      <3> DEFINE a == counts[i].attribute
                 r == _reference_rate(counts, Eligible(a))
      <3>2. i \in Eligible(a) /\ j \in Eligible(a)
        BY <2>7, <3>1 DEF group_by_attribute
      <3>3. counts[i] \in Group /\ counts[j] \in Group
        BY <2>2
      <3>4. /\ ~ Less(r, Rate(counts[j]))
            /\ \E h \in Eligible(a) : r = Rate(counts[h])
        BY <2>2, <2>6, <3>2, ReferenceRate
      <3>5. r \in Fraction
        BY <2>2, <2>6, <3>4, RateType
      <3>6. counts[i].favorable_outcome_count * counts[j].total_count * Limit.d
              < counts[j].favorable_outcome_count * counts[i].total_count * Limit.n
        BY <2>7, <3>1
      <3>7. r.n # 0 /\ Ratio(Rate(counts[i]), r, Limit) = "below"
        BY <2>1, <3>3, <3>4, <3>5, <3>6, UnderHighest
      <3>8. i # j
        <4> SUFFICES ASSUME i = j PROVE FALSE
          OBVIOUS
        <4> DEFINE x == counts[i].favorable_outcome_count * counts[i].total_count
        <4>1. x \in Nat
          BY <3>3 DEF PopulationGroupCount
        <4>2. x * Limit.d < x * Limit.n
          BY <3>6
        <4>3. Limit.d \in Nat /\ Limit.n \in Nat
          BY <2>1 DEF Fraction
        <4> HIDE DEF x
        <4>4. ASSUME NEW y \in Nat, NEW z \in Nat, y <= z PROVE x * y <= x * z
          BY <4>1, <4>4
        <4>5. x * Limit.n <= x * Limit.d
          BY <2>1, <4>3, <4>4
        <4>6. x * Limit.n \in Nat /\ x * Limit.d \in Nat
          BY <4>1, <4>3
        <4> QED BY <4>2, <4>5, <4>6
      <3>9. "below" \in Ratios(counts, group_by_attribute(counts, a), used)
        <4>1. ~ Few(Eligible(a))
          BY <3>2, <3>8 DEF Few
        <4> HIDE DEF Eligible, r
        <4>2. Ratios(counts, group_by_attribute(counts, a), used) =
                {Ratio(Rate(counts[k]), r, Limit) : k \in Eligible(a)}
          BY <2>5, <3>7, <4>1 DEF r
        <4> QED BY <3>2, <3>7, <4>2
      <3> QED BY <2>3, <3>1, <3>9, RatioResult DEF Attributes
    <2>8. ASSUME result.outcome = "FLAGGED"
          PROVE  \E q \in pairs : /\ ratio(q[1], q[2]).n <= ratio(q[1], q[2]).d
                                  /\ q[1] # q[2] /\ q[2].favorable_outcome_count > 0
      <3>1. PICK a \in Attributes(counts), x \in {"below", "at"} :
               x \in Ratios(counts, group_by_attribute(counts, a), used)
        BY <2>3, <2>8, RatioResult
      <3> DEFINE r == _reference_rate(counts, Eligible(a))
      <3>2. PICK i \in Eligible(a) : x = Ratio(Rate(counts[i]), r, Limit) /\ r.n # 0
        <4> HIDE DEF Eligible
        <4>1. /\ r.n # 0
              /\ x \in {Ratio(Rate(counts[k]), r, Limit) : k \in Eligible(a)}
          BY <2>5, <3>1
        <4> QED BY <4>1
      <3>3. PICK h \in Eligible(a) : r = Rate(counts[h])
        BY <2>2, <2>6, <3>2, ReferenceRate
      <3>4. /\ i \in DOMAIN counts /\ h \in DOMAIN counts
            /\ counts[i].attribute = a /\ counts[h].attribute = a
            /\ counts[i].total_count >= minimum /\ counts[h].total_count >= minimum
        BY <3>2, <3>3 DEF group_by_attribute
      <3>5. <<counts[i], counts[h]>> \in pairs
        BY <2>4, <3>4
      <3>6. /\ counts[i].favorable_outcome_count * counts[h].total_count * Limit.d
                 <= counts[h].favorable_outcome_count * counts[i].total_count * Limit.n
            /\ counts[i] # counts[h] /\ counts[h].favorable_outcome_count > 0
        BY <2>1, <2>2, <3>2, <3>3, <3>4, NotClear
      <3> WITNESS <<counts[i], counts[h]>> \in pairs
      <3> QED BY <3>6
    <2> QED BY <2>7, <2>8 DEF FourFifths
  <1> QED BY <1>1, ResultsTyped, PTL
-----------------------------------------------------------------------------
\* moved lists the groups of counts in other positions, as it does when the
\* values of an attribute have other names.
Renamed(counts, moved, to) ==
    /\ DOMAIN moved = DOMAIN counts
    /\ to \in [DOMAIN counts -> DOMAIN counts]
    /\ \A k \in DOMAIN counts : /\ to[to[k]] = k
                                /\ moved[k] = counts[to[k]]
                                /\ counts[to[k]].attribute = counts[k].attribute

\* Exchanging two groups of one attribute gives them other positions.
LEMMA Exchange ==
  ASSUME NEW counts, NEW i \in DOMAIN counts, NEW j \in DOMAIN counts,
         counts \in [DOMAIN counts -> PopulationGroupCount(Attribute)],
         counts[i].attribute = counts[j].attribute
  PROVE  \E to : Renamed(counts, [counts EXCEPT ![i] = counts[j], ![j] = counts[i]], to)
  <1> DEFINE to == [k \in DOMAIN counts |-> IF k = i THEN j ELSE IF k = j THEN i ELSE k]
  <1>1. Renamed(counts, [counts EXCEPT ![i] = counts[j], ![j] = counts[i]], to)
    BY DEF Renamed
  <1> QED BY <1>1

\* Which groups have an attribute, and whether there are two of a part, does
\* not depend on their positions.
LEMMA RenamedGroups ==
  ASSUME NEW counts, NEW moved, NEW to, Renamed(counts, moved, to)
  PROVE  /\ Attributes(moved) = Attributes(counts)
         /\ \A a : group_by_attribute(moved, a) = group_by_attribute(counts, a)
         /\ \A a : \A k \in DOMAIN counts :
               to[k] \in group_by_attribute(counts, a) <=> k \in group_by_attribute(counts, a)
  <1>1. \A k \in DOMAIN counts : to[k] \in DOMAIN counts /\ moved[k].attribute = counts[k].attribute
    BY DEF Renamed
  <1>2. DOMAIN moved = DOMAIN counts
    BY DEF Renamed
  <1>3. Attributes(moved) = Attributes(counts)
    BY <1>1, <1>2 DEF Attributes
  <1>4. ASSUME NEW a PROVE group_by_attribute(moved, a) = group_by_attribute(counts, a)
    BY <1>1, <1>2 DEF group_by_attribute
  <1>5. ASSUME NEW a, NEW k \in DOMAIN counts
        PROVE  to[k] \in group_by_attribute(counts, a) <=> k \in group_by_attribute(counts, a)
    BY <1>1 DEF Renamed, group_by_attribute
  <1> QED BY <1>3, <1>4, <1>5

\* A part of the renamed window is too small to compare if and only if the part
\* it comes from is.
LEMMA RenamedPart ==
  ASSUME NEW counts, NEW moved, NEW to, Renamed(counts, moved, to),
         NEW E \in SUBSET DOMAIN counts, NEW M \in SUBSET DOMAIN counts,
         \A k \in DOMAIN counts : k \in M <=> to[k] \in E
  PROVE  Few(M) <=> Few(E)
  <1>1. \A k \in DOMAIN counts : to[k] \in DOMAIN counts /\ to[to[k]] = k
    BY DEF Renamed
  <1>2. \A k \in E : to[k] \in M
    BY <1>1
  <1> QED BY <1>1, <1>2 DEF Few

\* The ratios of an attribute's groups do not depend on their positions.
LEMMA RenamedRatios ==
  ASSUME NEW counts, NEW moved, NEW to, Renamed(counts, moved, to), NEW used, NEW a
  PROVE  Ratios(moved, group_by_attribute(moved, a), used)
           = Ratios(counts, group_by_attribute(counts, a), used)
  <1> DEFINE G == group_by_attribute(counts, a)
             E == {k \in G : counts[k].total_count >= used.minimum_group_size}
             M == {k \in G : moved[k].total_count >= used.minimum_group_size}
             r == _reference_rate(counts, E)
             s == _reference_rate(moved, M)
  <1>1. /\ group_by_attribute(moved, a) = G
        /\ \A k \in DOMAIN counts : to[k] \in G <=> k \in G
    BY RenamedGroups
  <1>2. G \in SUBSET DOMAIN counts
    BY DEF group_by_attribute
  <1> HIDE DEF G
  <1>3. /\ E \in SUBSET DOMAIN counts /\ M \in SUBSET DOMAIN counts
        /\ \A k \in DOMAIN counts : k \in M <=> to[k] \in E
    BY <1>1, <1>2 DEF Renamed
  <1>4. Ratios(moved, G, used) =
          IF Few(M) \/ s.n = 0 THEN {} ELSE {Ratio(Rate(moved[k]), s, used.limit) : k \in M}
    BY DEF Ratios
  <1>5. Ratios(counts, G, used) =
          IF Few(E) \/ r.n = 0 THEN {} ELSE {Ratio(Rate(counts[k]), r, used.limit) : k \in E}
    BY DEF Ratios
  <1> HIDE DEF E, M
  <1>6. /\ Few(M) <=> Few(E)
        /\ \A k \in M : to[k] \in E /\ moved[k] = counts[to[k]]
        /\ \A k \in E : to[k] \in M /\ moved[to[k]] = counts[k]
    <2>1. Few(M) <=> Few(E)
      BY <1>3, RenamedPart
    <2>2. \A k \in M : to[k] \in E /\ moved[k] = counts[to[k]]
      BY <1>3 DEF Renamed
    <2>3. \A k \in E : to[k] \in M /\ moved[to[k]] = counts[k] /\ to[to[k]] = k
      BY <1>3 DEF Renamed
    <2> QED BY <2>1, <2>2, <2>3
  <1>7. {Rate(moved[k]) : k \in M} = {Rate(counts[k]) : k \in E}
    BY <1>6
  <1>8. s = r
    BY <1>7 DEF _reference_rate
  <1> HIDE DEF r, s
  <1> DEFINE before == {Ratio(Rate(counts[k]), r, used.limit) : k \in E}
             after == {Ratio(Rate(moved[k]), s, used.limit) : k \in M}
  <1>9. after = before
    BY <1>6, <1>8
  <1> HIDE DEF before, after
  <1>10. Ratios(moved, G, used) = Ratios(counts, G, used)
    BY <1>4, <1>5, <1>6, <1>8, <1>9 DEF before, after
  <1> QED BY <1>1, <1>10 DEF G

\* Unless two groups of the attribute tie for the highest rate, the disparities
\* of its groups do not depend on their positions.
LEMMA RenamedDisparities ==
  ASSUME NEW counts, NEW moved, NEW to, Renamed(counts, moved, to), NEW used, NEW a,
         IsCounts(counts), IsCounts(moved),
         \A k, m \in group_by_attribute(counts, a) :
            Equal(Rate(counts[k]), Rate(counts[m])) => counts[k] = counts[m]
  PROVE  Disparities(moved, group_by_attribute(moved, a), used)
           = Disparities(counts, group_by_attribute(counts, a), used)
  <1> DEFINE G == group_by_attribute(counts, a)
             E == {k \in G : _is_eligible(counts[k], used.minimum_group_size)}
             M == {k \in G : _is_eligible(moved[k], used.minimum_group_size)}
             e == ReferenceGroup(counts, E)
             m == ReferenceGroup(moved, M)
  <1>1. /\ group_by_attribute(moved, a) = G
        /\ \A k \in DOMAIN counts : to[k] \in G <=> k \in G
    BY RenamedGroups
  <1>2. G \in SUBSET DOMAIN counts
    BY DEF group_by_attribute
  <1> HIDE DEF G
  <1>3. /\ E \in SUBSET DOMAIN counts /\ M \in SUBSET DOMAIN counts /\ E \in SUBSET G
        /\ \A k \in DOMAIN counts : k \in M <=> to[k] \in E
    BY <1>1, <1>2 DEF Renamed
  <1>4. Disparities(moved, G, used) =
          IF Few(M) THEN {}
          ELSE {Significance(moved[k], moved[m], used.limit) : k \in M \ {m}}
    BY DEF Disparities
  <1>5. Disparities(counts, G, used) =
          IF Few(E) THEN {}
          ELSE {Significance(counts[k], counts[e], used.limit) : k \in E \ {e}}
    BY DEF Disparities
  <1> HIDE DEF E, M
  <1>6. /\ Few(M) <=> Few(E)
        /\ \A k \in M : to[k] \in E /\ moved[k] = counts[to[k]]
        /\ \A k \in E : to[k] \in M /\ moved[to[k]] = counts[k] /\ to[to[k]] = k
    <2>1. Few(M) <=> Few(E)
      BY <1>3, RenamedPart
    <2>2. \A k \in M : to[k] \in E /\ moved[k] = counts[to[k]]
      BY <1>3 DEF Renamed
    <2>3. \A k \in E : to[k] \in M /\ moved[to[k]] = counts[k] /\ to[to[k]] = k
      BY <1>3 DEF Renamed
    <2> QED BY <2>1, <2>2, <2>3
  <1>7. CASE Few(E)
    BY <1>1, <1>4, <1>5, <1>6, <1>7 DEF G
  <1>8. CASE ~ Few(E)
    <2>1. E # {} /\ M # {}
      BY <1>6, <1>8 DEF Few
    <2>2. e \in E /\ \A k \in E : ~ Less(Rate(counts[e]), Rate(counts[k]))
      BY <1>3, <2>1, Reference
    <2>3. DOMAIN moved = DOMAIN counts
      BY DEF Renamed
    <2>4. m \in M /\ \A k \in M : ~ Less(Rate(moved[m]), Rate(moved[k]))
      BY <1>3, <2>1, <2>3, Reference
    <2> HIDE DEF e, m
    <2>5. to[m] \in E /\ moved[m] = counts[to[m]]
      BY <1>6, <2>4
    <2>6. /\ ~ Less(Rate(counts[e]), Rate(counts[to[m]]))
          /\ ~ Less(Rate(counts[to[m]]), Rate(counts[e]))
      BY <1>6, <2>2, <2>4, <2>5
    <2>7. Rate(counts[e]) \in Fraction /\ Rate(counts[to[m]]) \in Fraction
      BY <1>3, <2>2, <2>5, RateType DEF IsCounts
    <2>8. counts[to[m]] = counts[e]
      <3>1. Equal(Rate(counts[to[m]]), Rate(counts[e]))
        BY <2>6, <2>7 DEF Less, Equal, Fraction
      <3> QED BY <1>3, <2>2, <2>5, <3>1 DEF G
    <2> DEFINE R == counts[e]
               S(g) == Significance(g, R, used.limit)
    <2>9. moved[m] = R
      BY <2>5, <2>8
    <2> HIDE DEF R, S
    <2>10. ASSUME NEW x \in {S(moved[k]) : k \in M \ {m}}
           PROVE  x \in {S(counts[k]) : k \in E \ {e}}
      <3>1. PICK k \in M \ {m} : x = S(moved[k])
        OBVIOUS
      <3>2. to[k] \in E /\ moved[k] = counts[to[k]]
        BY <1>6
      <3>3. to[k] # to[m]
        BY <1>3, <2>4 DEF Renamed
      <3>4. CASE to[k] # e
        BY <3>1, <3>2, <3>4
      <3>5. CASE to[k] = e
        BY <2>5, <2>8, <3>1, <3>2, <3>3, <3>5
      <3> QED BY <3>4, <3>5
    <2>11. ASSUME NEW x \in {S(counts[k]) : k \in E \ {e}}
           PROVE  x \in {S(moved[k]) : k \in M \ {m}}
      <3>1. PICK k \in E \ {e} : x = S(counts[k])
        OBVIOUS
      <3>2. to[k] \in M /\ moved[to[k]] = counts[k] /\ to[to[k]] = k
        BY <1>6
      <3>3. CASE to[k] # m
        BY <3>1, <3>2, <3>3
      <3>4. CASE to[k] = m
        <4>1. to[e] \in M /\ moved[to[e]] = counts[e] /\ to[to[e]] = e
          BY <1>6, <2>2
        <4>2. to[e] # m
          BY <3>2, <3>4, <4>1
        <4>3. counts[k] = counts[e]
          BY <2>8, <3>2, <3>4
        <4> QED BY <3>1, <4>1, <4>2, <4>3
      <3> QED BY <3>3, <3>4
    <2>12. {S(moved[k]) : k \in M \ {m}} = {S(counts[k]) : k \in E \ {e}}
      BY <2>10, <2>11
    <2> QED BY <1>1, <1>4, <1>5, <1>6, <1>8, <2>9, <2>12 DEF S, R, G
  <1> QED BY <1>7, <1>8

\* Other names for the values of an attribute, which put its groups in other
\* positions, leave the finding as it is unless groups tie in the disparity
\* test.
THEOREM NamesIrrelevant == PESpec => []NamesDoNotMatter
  <1>1. ResultInv => NamesDoNotMatter
    <2> SUFFICES ASSUME FindingInv, result.kind = "finding",
                        NEW i \in DOMAIN result.counts, NEW j \in DOMAIN result.counts,
                        result.counts[i].attribute = result.counts[j].attribute,
                        \/ result.policy # "disparity-significance-test"
                        \/ \A g, h \in Groups :
                             g.attribute = h.attribute /\ Equal(Rate(g), Rate(h)) => g = h
                 PROVE  result.outcome
                          \in Outcomes(result.policy,
                                [result.counts EXCEPT ![i] = result.counts[j],
                                                      ![j] = result.counts[i]],
                                result.parameters_used)
      BY DEF ResultInv, NamesDoNotMatter
    <2> DEFINE counts == result.counts
               moved == [counts EXCEPT ![i] = counts[j], ![j] = counts[i]]
               used == result.parameters_used
    <2>1. /\ result.policy \in Policies /\ IsCounts(counts)
          /\ result.outcome \in Outcomes(result.policy, counts, used)
      BY DEF FindingInv
    <2>2. PICK to : Renamed(counts, moved, to)
      BY <2>1, Exchange DEF IsCounts
    <2>3. IsCounts(moved)
      BY <2>1 DEF IsCounts
    <2>4. Attributes(moved) = Attributes(counts)
      BY <2>2, RenamedGroups
    <2>5. Groups = {counts[k] : k \in DOMAIN counts}
      BY DEF Groups
    <2> HIDE DEF counts, moved
    <2>6. CASE result.policy = "adverse-impact-ratio"
      <3>1. \A a : Ratios(moved, group_by_attribute(moved, a), used)
                     = Ratios(counts, group_by_attribute(counts, a), used)
        BY <2>2, RenamedRatios
      <3> QED BY <2>1, <2>4, <2>6, <3>1 DEF Comparisons, Outcomes, counts, moved
    <2>7. CASE result.policy = "disparity-significance-test"
      <3>1. \A a : \A k, m \in group_by_attribute(counts, a) :
               Equal(Rate(counts[k]), Rate(counts[m])) => counts[k] = counts[m]
        BY <2>5, <2>7 DEF group_by_attribute
      <3>2. \A a : Disparities(moved, group_by_attribute(moved, a), used)
                     = Disparities(counts, group_by_attribute(counts, a), used)
        BY <2>1, <2>2, <2>3, <3>1, RenamedDisparities
      <3> QED BY <2>1, <2>4, <2>7, <3>2 DEF Comparisons, Outcomes, counts, moved
    <2> QED BY <2>1, <2>6, <2>7 DEF Policies
  <1> QED BY <1>1, ResultsTyped, PTL
=============================================================================
