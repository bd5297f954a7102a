------------------------ MODULE PluginRegistryProofs ------------------------
(***************************************************************************)
(* The safety properties of PluginRegistry for any number of versions and  *)
(* concurrent transactions.                                                *)
(***************************************************************************)
EXTENDS PluginRegistry, TLAPS

\* A transaction is always about a version once it has begun, and about one
\* to replace while it demotes it.
TargetInv ==
    \A t \in Tx : /\ ~ At(t, "idle") => target[t] \in Version
                  /\ At(t, "demote") => previous[t] \in Version \ {target[t]}
                  /\ pc[t] \in {"find", "demote", "check"} => current[t] = "SHADOW"
                  /\ At(t, "write") => current[t] \in {"DRAFT", "SHADOW"}

\* What a transaction has written, by where it is: its target, or the version
\* the target replaces.
WrittenInv ==
    \A t \in Tx, v \in Version : writer[v] = t =>
        /\ ~ At(t, "idle") /\ pending[v] \in PluginLifecycleState
        /\ v # target[t] =>
              /\ v = previous[t] /\ pending[v] = "SHADOW"
              /\ pc[t] \in {"write", "check", "commit"} /\ current[t] = "SHADOW"
        /\ v = target[t] =>
              /\ pc[t] \in {"lookup", "insert"} => FALSE
              /\ op[t] # "seed" => pc[t] \in {"check", "commit"}
              /\ pending[v] = "PRODUCTION" => pc[t] \in {"check", "commit"}
        /\ pending[v] = "DRAFT" => registrations[v] = "absent"

\* Which row each caller's transaction has ready to commit.
ReadyInv ==
    \A t \in Tx : LET v == target[t] IN
        /\ At(t, "check") => writer[v] = t /\ pending[v] = "PRODUCTION"
        /\ At(t, "commit") =>
              \/ op[t] = "register" /\ writer[v] = t /\ pending[v] = "DRAFT"
              \/ op[t] = "seed" /\ current[t] = "absent" /\ \A u \in Version : writer[u] # t
              \/ /\ op[t] \in {"promote", "seed"} /\ writer[v] = t
                 /\ current[t] \in {"DRAFT", "SHADOW"}
                 /\ pending[v] = _NEXT_STATE[current[t]]
                 /\ op[t] = "seed" => current[t] = "SHADOW"

\* The endpoints reach only some statements, and an endpoint that has loaded
\* SHADOW is promoting a version that was committed as such.
CallerInv ==
    \A t \in Tx :
        /\ op[t] = "register" => /\ pc[t] \in {"idle", "lookup", "insert", "commit"}
                                 /\ current[t] = "absent"
        /\ pc[t] \in {"idle", "lookup", "insert"} => current[t] = "absent"
        /\ op[t] = "promote" =>
              /\ pc[t] \notin {"lookup", "insert"}
              /\ ~ At(t, "idle") => registrations[target[t]] # "absent"
              /\ ~ At(t, "idle") /\ current[t] = "SHADOW" =>
                    registrations[target[t]] \in {"SHADOW", "PRODUCTION"}

\* A transaction whose PRODUCTION entry is in the index owns the slot: whoever
\* held it has been demoted by the same transaction.
SlotInv ==
    \A t \in Tx, v \in Version :
        writer[v] = t /\ pending[v] = "PRODUCTION" /\ At(t, "commit") =>
            \A u \in Version \ {v} :
                /\ registrations[u] = "PRODUCTION" => writer[u] = t
                /\ pending[u] = "PRODUCTION" /\ writer[u] # None =>
                      ~ At(writer[u], "commit")

IInv == /\ TypeOK /\ TargetInv /\ WrittenInv /\ ReadyInv /\ CallerInv
        /\ SlotInv /\ OneProduction
-----------------------------------------------------------------------------
\* Nothing is registered and nobody is at work at first.
LEMMA InitInv == Init => IInv
  BY RegistryAssumption
     DEF Init, IInv, TypeOK, TargetInv, WrittenInv, ReadyInv, CallerInv, SlotInv,
         OneProduction, At, Op, Place, PluginLifecycleState

\* A transaction that ends without committing leaves no trace.
LEMMA RollbackInv ==
  ASSUME IInv, NEW t \in Tx, Rollback(t)
  PROVE  IInv'
  <1>1. TypeOK'
    BY DEF IInv, TypeOK, Rollback, End, Goto, Place
  <1>2. TargetInv'
    BY DEF IInv, TypeOK, TargetInv, Rollback, End, At, Goto
  <1>3. WrittenInv'
    BY RegistryAssumption DEF IInv, WrittenInv, Rollback, End, At, Goto
  <1>4. ReadyInv'
    BY RegistryAssumption DEF IInv, TypeOK, TargetInv, ReadyInv, Rollback, End,
       At, Goto
  <1>5. CallerInv'
    BY DEF IInv, TypeOK, CallerInv, Rollback, End, At, Goto
  <1>6. SlotInv'
    BY DEF IInv, SlotInv, Rollback, End, At, Goto
  <1>7. OneProduction'
    BY DEF IInv, OneProduction, Rollback
  <1> QED BY <1>1, <1>2, <1>3, <1>4, <1>5, <1>6, <1>7 DEF IInv

\* A request begins with nothing written.
LEMMA StartInv ==
  ASSUME IInv, NEW t \in Tx, NEW o \in Op, NEW v \in Version, Start(t, o, v)
  PROVE  IInv'
  <1>1. TypeOK'
    BY DEF IInv, TypeOK, Start, rows, Goto, Place
  <1>2. TargetInv'
    BY DEF IInv, TypeOK, TargetInv, Start, At, Goto
  <1>3. WrittenInv'
    BY DEF IInv, WrittenInv, Start, rows, At, Goto
  <1>4. ReadyInv'
    BY DEF IInv, ReadyInv, Start, rows, At, Goto
  <1>5. CallerInv'
    BY DEF IInv, TypeOK, CallerInv, Start, rows, At, Goto
  <1>6. SlotInv'
    BY DEF IInv, SlotInv, Start, rows, At, Goto
  <1>7. OneProduction'
    BY DEF IInv, OneProduction, Start, rows
  <1> QED BY <1>1, <1>2, <1>3, <1>4, <1>5, <1>6, <1>7 DEF IInv

\* Lookup keeps the invariant.
LEMMA LookupInv ==
  ASSUME IInv, NEW t \in Tx, Lookup(t)
  PROVE  IInv'
  <1>1. TypeOK'
    BY RollbackInv DEF IInv, TypeOK, Lookup, rows, request, Goto, Place
  <1>2. TargetInv'
    BY RollbackInv DEF IInv, TypeOK, TargetInv, Lookup, request, At, Goto
  <1>3. WrittenInv'
    BY RollbackInv DEF IInv, TypeOK, WrittenInv, Lookup, rows, request, At,
       Goto
  <1>4. ReadyInv'
    BY RollbackInv DEF IInv, TypeOK, WrittenInv, ReadyInv, CallerInv, Lookup,
       rows, request, At, Goto
  <1>5. CallerInv'
    BY RollbackInv DEF IInv, TypeOK, CallerInv, Lookup, rows, request, At, Goto
  <1>6. SlotInv'
    BY RollbackInv DEF IInv, TypeOK, WrittenInv, SlotInv, Lookup, rows, At,
       Goto
  <1>7. OneProduction'
    BY RollbackInv DEF IInv, OneProduction, Lookup, rows
  <1> QED BY <1>1, <1>2, <1>3, <1>4, <1>5, <1>6, <1>7 DEF IInv

\* Insert keeps the invariant.
LEMMA InsertInv ==
  ASSUME IInv, NEW t \in Tx, Insert(t)
  PROVE  IInv'
  <1>1. TypeOK'
    BY RollbackInv DEF IInv, TypeOK, Insert, request, Store, Goto,
       PluginLifecycleState, Place
  <1>2. TargetInv'
    BY RollbackInv DEF IInv, TypeOK, TargetInv, Insert, request, At, Goto
  <1>3. WrittenInv'
    BY RollbackInv DEF IInv, TypeOK, WrittenInv, Insert, request, Store, At,
       Goto, PluginLifecycleState
  <1>4. ReadyInv'
    BY RegistryAssumption, RollbackInv DEF IInv, TypeOK, TargetInv, ReadyInv,
       CallerInv, At, Free, Goto, Insert, Op, Store, request
  <1>5. CallerInv'
    BY RollbackInv DEF IInv, TypeOK, CallerInv, Insert, request, At, Goto
  <1>6. SlotInv'
    BY RollbackInv DEF IInv, TypeOK, WrittenInv, SlotInv, Insert, Store, At,
       Goto
  <1>7. OneProduction'
    BY RollbackInv DEF IInv, OneProduction, Insert
  <1> QED BY <1>1, <1>2, <1>3, <1>4, <1>5, <1>6, <1>7 DEF IInv

\* Read keeps the invariant.
LEMMA ReadInv ==
  ASSUME IInv, NEW t \in Tx, Read(t)
  PROVE  IInv'
  <1>1. TypeOK'
    BY RollbackInv DEF IInv, TypeOK, TargetInv, Read, rows, request, Visible,
       At, Goto, Place
  <1>2. TargetInv'
    BY RollbackInv DEF IInv, TypeOK, TargetInv, Read, request, At, Goto,
       _NEXT_STATE
  <1>3. WrittenInv'
    BY RollbackInv DEF IInv, TypeOK, WrittenInv, Read, rows, request, At, Goto
  <1>4. ReadyInv'
    BY RollbackInv DEF IInv, TypeOK, ReadyInv, Read, rows, request, At, Goto
  <1>5. CallerInv'
    BY RollbackInv DEF IInv, TypeOK, TargetInv, WrittenInv, CallerInv, Read,
       rows, request, Visible, At, Goto
  <1>6. SlotInv'
    BY RollbackInv DEF IInv, TypeOK, SlotInv, Read, rows, At, Goto
  <1>7. OneProduction'
    BY RollbackInv DEF IInv, OneProduction, Read, rows
  <1> QED BY <1>1, <1>2, <1>3, <1>4, <1>5, <1>6, <1>7 DEF IInv

\* FindPrevious keeps the invariant.
LEMMA FindPreviousInv ==
  ASSUME IInv, NEW t \in Tx, FindPrevious(t)
  PROVE  IInv'
  <1>1. TypeOK'
    BY DEF IInv, TypeOK, FindPrevious, rows, request, Goto, Place
  <1>2. TargetInv'
    BY DEF IInv, TypeOK, TargetInv, FindPrevious, request, At, Goto
  <1>3. WrittenInv'
    BY DEF IInv, TypeOK, WrittenInv, FindPrevious, rows, request, At, Goto
  <1>4. ReadyInv'
    BY DEF IInv, TypeOK, ReadyInv, FindPrevious, rows, request, At, Goto
  <1>5. CallerInv'
    BY DEF IInv, TypeOK, CallerInv, FindPrevious, rows, request, At, Goto
  <1>6. SlotInv'
    BY DEF IInv, TypeOK, SlotInv, FindPrevious, rows, At, Goto
  <1>7. OneProduction'
    BY DEF IInv, OneProduction, FindPrevious, rows
  <1> QED BY <1>1, <1>2, <1>3, <1>4, <1>5, <1>6, <1>7 DEF IInv

\* Demote keeps the invariant.
LEMMA DemoteInv ==
  ASSUME IInv, NEW t \in Tx, Demote(t)
  PROVE  IInv'
  <1>1. TypeOK'
    BY DEF IInv, TypeOK, TargetInv, Demote, request, Store, At, Goto, Place
  <1>2. TargetInv'
    BY DEF IInv, TargetInv, Demote, request, At, Goto
  <1>3. WrittenInv'
    BY DEF IInv, TypeOK, TargetInv, WrittenInv, Demote, request, Store, At,
       Goto
  <1>4. ReadyInv'
    BY RegistryAssumption DEF IInv, ReadyInv, Demote, request, Free, Store, At,
       Goto
  <1>5. CallerInv'
    BY DEF IInv, CallerInv, Demote, request, At, Goto
  <1>6. SlotInv'
    BY RegistryAssumption DEF IInv, SlotInv, Demote, Free, Store, At, Goto
  <1>7. OneProduction'
    BY DEF IInv, OneProduction, Demote
  <1> QED BY <1>1, <1>2, <1>3, <1>4, <1>5, <1>6, <1>7 DEF IInv

\* Write keeps the invariant.
LEMMA WriteInv ==
  ASSUME IInv, NEW t \in Tx, Write(t)
  PROVE  IInv'
  <1>1. TypeOK'
    BY DEF IInv, TypeOK, TargetInv, Write, request, Store, At, Goto,
       _NEXT_STATE, PluginLifecycleState, Place
  <1>2. TargetInv'
    BY DEF IInv, TargetInv, Write, request, At, Goto, _NEXT_STATE
  <1>3. WrittenInv'
    BY DEF IInv, TypeOK, TargetInv, WrittenInv, Write, request, Store, At,
       Goto, _NEXT_STATE, PluginLifecycleState
  <1>4. ReadyInv'
    BY RegistryAssumption DEF IInv, TypeOK, TargetInv, ReadyInv, CallerInv, At,
       Free, Goto, Op, Store, Write, request
  <1>5. CallerInv'
    BY DEF IInv, CallerInv, Write, request, At, Goto
  <1>6. SlotInv'
    BY RegistryAssumption DEF IInv, TypeOK, WrittenInv, SlotInv, Write, Free,
       Store, At, Goto
  <1>7. OneProduction'
    BY DEF IInv, OneProduction, Write
  <1> QED BY <1>1, <1>2, <1>3, <1>4, <1>5, <1>6, <1>7 DEF IInv

\* CheckIndex keeps the invariant.
LEMMA CheckIndexInv ==
  ASSUME IInv, NEW t \in Tx, CheckIndex(t)
  PROVE  IInv'
  <1>1. TypeOK'
    BY RollbackInv DEF IInv, TypeOK, CheckIndex, rows, request, Goto, Place
  <1>2. TargetInv'
    BY RollbackInv DEF IInv, TypeOK, TargetInv, CheckIndex, request, At, Goto
  <1>3. WrittenInv'
    BY RollbackInv DEF IInv, TypeOK, WrittenInv, CheckIndex, rows, request, At,
       Goto
  <1>4. ReadyInv'
    BY RollbackInv DEF IInv, TypeOK, TargetInv, ReadyInv, CallerInv, At,
       CheckIndex, Goto, Op, _NEXT_STATE, request, rows
  <1>5. CallerInv'
    BY RollbackInv DEF IInv, TypeOK, CallerInv, CheckIndex, rows, request, At,
       Goto
  <1>6. SlotInv'
    BY RegistryAssumption, RollbackInv DEF IInv, TypeOK, WrittenInv, SlotInv,
       CheckIndex, rows, Free, Contended, At, Goto
  <1>7. OneProduction'
    BY RollbackInv DEF IInv, OneProduction, CheckIndex, rows
  <1> QED BY <1>1, <1>2, <1>3, <1>4, <1>5, <1>6, <1>7 DEF IInv

\* Commit keeps the invariant.
LEMMA CommitInv ==
  ASSUME IInv, NEW t \in Tx, Commit(t)
  PROVE  IInv'
  <1>1. TypeOK'
    BY DEF IInv, TypeOK, Commit, Visible, End, Goto, Place
  <1>2. TargetInv'
    BY DEF IInv, TypeOK, TargetInv, Commit, End, At, Goto
  <1>3. WrittenInv'
    BY RegistryAssumption DEF IInv, WrittenInv, Commit, Visible, End, At, Goto
  <1>4. ReadyInv'
    BY RegistryAssumption DEF IInv, TypeOK, TargetInv, ReadyInv, Commit, End,
       At, Goto
  <1>5. CallerInv'
    BY DEF IInv, TypeOK, TargetInv, WrittenInv, ReadyInv, CallerInv, At,
       Commit, End, Goto, Visible, _NEXT_STATE
  <1>6. SlotInv'
    BY DEF IInv, SlotInv, Commit, Visible, End, At, Goto
  <1>7. OneProduction'
    BY RegistryAssumption DEF IInv, SlotInv, OneProduction, Commit, Visible
  <1> QED BY <1>1, <1>2, <1>3, <1>4, <1>5, <1>6, <1>7 DEF IInv

\* Every step keeps the invariant.
LEMMA NextInv == IInv /\ [Next]_vars => IInv'
  <1> SUFFICES ASSUME IInv, [Next]_vars PROVE IInv'
    OBVIOUS
  <1>1. CASE UNCHANGED vars
    BY <1>1 DEF vars, rows, request, IInv, TypeOK, TargetInv, WrittenInv, ReadyInv,
       CallerInv, SlotInv, OneProduction, At
  <1>2. ASSUME NEW t \in Tx, NEW o \in Op, NEW v \in Version, Start(t, o, v)
        PROVE  IInv'
    BY <1>2, StartInv
  <1>3. ASSUME NEW t \in Tx, Statement(t)
        PROVE  IInv'
    BY <1>3, LookupInv, InsertInv, ReadInv, FindPreviousInv, DemoteInv, WriteInv,
       CheckIndexInv, CommitInv DEF Statement
  <1>4. ASSUME NEW t \in Tx, BreakDeadlock(t) \/ Fail(t)
        PROVE  IInv'
    BY <1>4, RollbackInv DEF BreakDeadlock, Fail
  <1> QED BY <1>1, <1>2, <1>3, <1>4 DEF Next

\* The invariant holds in every reachable state.
LEMMA AlwaysInv == Spec => []IInv
  BY InitInv, NextInv, PTL DEF Spec

\* Every variable of the registry keeps its type.
THEOREM TypeCorrect == Spec => []TypeOK
  <1>1. IInv => TypeOK
    BY DEF IInv
  <1> QED BY <1>1, AlwaysInv, PTL

\* Whatever promotions, registrations and seed runs overlap, at most one
\* version of a plugin is in PRODUCTION.
THEOREM UniqueProduction == Spec => []OneProduction
  <1>1. IInv => OneProduction
    BY DEF IInv
  <1> QED BY <1>1, AlwaysInv, PTL
-----------------------------------------------------------------------------
\* Only a COMMIT changes the committed rows.
LEMMA OnlyCommits ==
  ASSUME [Next]_vars
  PROVE  registrations' = registrations \/ \E t \in Tx : Commit(t)
  BY DEF Next, Start, Statement, Lookup, Insert, Read, FindPrevious, Demote, Write,
     CheckIndex, BreakDeadlock, Fail, Rollback, vars, rows

\* What a COMMIT does to each version.
LEMMA CommitEffect ==
  ASSUME IInv, NEW t \in Tx, Commit(t), NEW v \in Version
  PROVE  registrations'[v] = IF writer[v] = t THEN pending[v] ELSE registrations[v]
  BY DEF Commit, Visible

\* A version reaches PRODUCTION through SHADOW unless seeded, and never loses
\* its row or returns to DRAFT, however stale the row a promotion was based on.
THEOREM StagesInOrder == Spec => StageOrder
  <1>1. IInv /\ [Next]_vars =>
          [\A v \in Version :
             LET old == registrations[v]  new == registrations'[v] IN
             /\ old \in {"SHADOW", "PRODUCTION"} => new \in {"SHADOW", "PRODUCTION"}
             /\ old = "DRAFT" => new # "absent"
             /\ new = "PRODUCTION" /\ old \in {"absent", "DRAFT"} =>
                   \E t \in Tx : At(t, "commit") /\ op[t] = "seed"]_vars
    <2> SUFFICES ASSUME IInv, NEW t \in Tx, Commit(t), NEW v \in Version
                 PROVE  LET old == registrations[v]  new == registrations'[v] IN
                        /\ old \in {"SHADOW", "PRODUCTION"} =>
                              new \in {"SHADOW", "PRODUCTION"}
                        /\ old = "DRAFT" => new # "absent"
                        /\ new = "PRODUCTION" /\ old \in {"absent", "DRAFT"} =>
                              At(t, "commit") /\ op[t] = "seed"
      BY OnlyCommits
    <2>1. registrations'[v] = IF writer[v] = t THEN pending[v] ELSE registrations[v]
      BY CommitEffect
    <2>2. writer[v] = t => /\ pending[v] \in PluginLifecycleState
                           /\ pending[v] = "DRAFT" => registrations[v] = "absent"
                           /\ pending[v] = "PRODUCTION" => v = target[t]
      BY DEF IInv, WrittenInv
    <2>3. At(t, "commit")
      BY DEF Commit
    <2>4. writer[v] = t /\ pending[v] = "PRODUCTION" /\ op[t] # "seed" =>
             registrations[v] \in {"SHADOW", "PRODUCTION"}
      BY <2>2, <2>3 DEF IInv, ReadyInv, CallerInv, At, _NEXT_STATE
    <2> QED BY <2>1, <2>2, <2>3, <2>4 DEF PluginLifecycleState
  <1> QED BY <1>1, AlwaysInv, PTL DEF Spec, StageOrder

\* A plugin leaves PRODUCTION only by the late commit of a promotion that had
\* loaded the version in PRODUCTION as DRAFT.
THEOREM ProductionStays == Spec => ProductionKept
  <1>1. IInv /\ [Next]_vars =>
          [Serving /\ ~ Serving' =>
             \E t \in Tx : /\ Succeeds(t) /\ current[t] = "DRAFT"
                           /\ registrations[target[t]] = "PRODUCTION"]_vars
    <2> SUFFICES ASSUME IInv, [Next]_vars, NEW h \in Version,
                        registrations[h] = "PRODUCTION",
                        \A v \in Version : registrations'[v] # "PRODUCTION"
                 PROVE  \E t \in Tx : /\ Succeeds(t) /\ current[t] = "DRAFT"
                                      /\ registrations[target[t]] = "PRODUCTION"
      BY DEF Serving
    <2>1. PICK t \in Tx : Commit(t)
      BY OnlyCommits
    <2>2. At(t, "commit") /\ target[t] \in Version
      BY <2>1 DEF Commit, IInv, TargetInv, At
    <2>3. writer[h] = t
      BY <2>1, CommitEffect
    <2>4. ~ (writer[target[t]] = t /\ pending[target[t]] = "PRODUCTION")
      BY <2>1, <2>2, CommitEffect
    <2>5. h = target[t]
      BY <2>2, <2>3, <2>4 DEF IInv, WrittenInv, ReadyInv, CallerInv, At, _NEXT_STATE
    <2>6. current[t] = "DRAFT"
      BY <2>2, <2>3, <2>4, <2>5 DEF IInv, WrittenInv, ReadyInv, At, _NEXT_STATE
    <2>7. Succeeds(t)
      BY <2>1, <2>2 DEF Succeeds, Commit, End, Goto, At, IInv, TypeOK
    <2> QED BY <2>5, <2>6, <2>7
  <1> QED BY <1>1, AlwaysInv, PTL DEF Spec, ProductionKept

\* A seed run that commits a change has put its version into PRODUCTION.
THEOREM SeedDone == Spec => SeedEndsInProduction
  <1>1. IInv /\ [Next]_vars =>
          [\A t \in Tx : Succeeds(t) /\ op[t] = "seed" =>
             registrations'[target[t]] = "PRODUCTION"]_vars
    <2> SUFFICES ASSUME IInv, [Next]_vars, NEW t \in Tx, Succeeds(t), op[t] = "seed"
                 PROVE  registrations'[target[t]] = "PRODUCTION"
      OBVIOUS
    <2>1. PICK x \in Tx : Commit(x)
      BY OnlyCommits DEF Succeeds
    <2>2. x = t
      BY <2>1 DEF Commit, End, Goto, Succeeds, At, IInv, TypeOK
    <2>3. ~ \A u \in Version : writer[u] # t
      BY <2>1, <2>2 DEF Commit, Visible, Succeeds, IInv, TypeOK
    <2>4. target[t] \in Version
      BY DEF IInv, TargetInv, Succeeds, At
    <2>5. writer[target[t]] = t /\ pending[target[t]] = "PRODUCTION"
      BY <2>3 DEF IInv, ReadyInv, Succeeds, _NEXT_STATE
    <2> QED BY <2>1, <2>2, <2>4, <2>5, CommitEffect
  <1> QED BY <1>1, AlwaysInv, PTL DEF Spec, SeedEndsInProduction
-----------------------------------------------------------------------------
\* A version that is observed or governs goes on doing one of the two.
LEMMA StillObserved ==
  ASSUME IInv, [Next]_vars, NEW v \in Version,
         registrations[v] \in {"SHADOW", "PRODUCTION"}
  PROVE  registrations'[v] \in {"SHADOW", "PRODUCTION"}
  <1>1. ASSUME NEW t \in Tx, Commit(t)
        PROVE  registrations'[v] \in {"SHADOW", "PRODUCTION"}
    <2>1. registrations'[v] = IF writer[v] = t THEN pending[v] ELSE registrations[v]
      BY <1>1, CommitEffect
    <2>2. writer[v] = t => pending[v] \in PluginLifecycleState \ {"DRAFT"}
      BY DEF IInv, WrittenInv
    <2> QED BY <2>1, <2>2 DEF PluginLifecycleState
  <1> QED BY <1>1, OnlyCommits

\* A version that a promotion demotes was committed in PRODUCTION when it was
\* found, and may only have been demoted by another one since.
DemotedInv ==
    \A t \in Tx :
        /\ At(t, "demote") => registrations[previous[t]] \in {"SHADOW", "PRODUCTION"}
        /\ \A v \in Version \ {target[t]} :
              writer[v] = t => registrations[v] \in {"SHADOW", "PRODUCTION"}

\* Every step keeps it.
LEMMA DemotedStep == IInv /\ DemotedInv /\ [Next]_vars => DemotedInv'
  <1> SUFFICES ASSUME IInv, DemotedInv, [Next]_vars, NEW t \in Tx
               PROVE  /\ At(t, "demote")' =>
                            registrations'[previous'[t]] \in {"SHADOW", "PRODUCTION"}
                      /\ \A v \in Version \ {target'[t]} : writer'[v] = t =>
                            registrations'[v] \in {"SHADOW", "PRODUCTION"}
    BY DEF DemotedInv
  <1>1. ASSUME At(t, "demote")'
        PROVE  previous'[t] \in Version /\ registrations[previous'[t]] \in {"SHADOW", "PRODUCTION"}
    <2>1. CASE At(t, "demote") /\ previous'[t] = previous[t]
      BY <2>1 DEF IInv, TargetInv, DemotedInv
    <2>2. CASE FindPrevious(t)
      <3>1. PICK v \in Version \ {target[t]} :
               Visible(t, v) = "PRODUCTION" /\ previous' = [previous EXCEPT ![t] = v]
        BY <1>1, <2>2 DEF FindPrevious, Goto, At, IInv, TypeOK
      <3>2. writer[v] # t
        BY <2>2, <3>1 DEF FindPrevious, At, IInv, WrittenInv
      <3> QED BY <3>1, <3>2 DEF Visible, IInv, TypeOK
    <2>3. (At(t, "demote") /\ previous'[t] = previous[t]) \/ FindPrevious(t)
      BY <1>1 DEF IInv, TypeOK, At, Goto, vars, rows, request, Next, Start, Statement, Lookup,
         Insert, Read, FindPrevious, Demote, Write, CheckIndex, Commit, BreakDeadlock,
         Fail, Rollback, End
    <2> QED BY <2>1, <2>2, <2>3
  <1>2. ASSUME NEW v \in Version \ {target'[t]}, writer'[v] = t
        PROVE  registrations[v] \in {"SHADOW", "PRODUCTION"}
    <2>1. CASE writer[v] = t /\ target'[t] = target[t]
      BY <2>1 DEF DemotedInv
    <2>2. CASE Demote(t) /\ v = previous[t]
      BY <2>2 DEF Demote, DemotedInv
    <2>3. (writer[v] = t /\ target'[t] = target[t]) \/ (Demote(t) /\ v = previous[t])
      <3>1. writer[v] = t => ~ At(t, "idle")
        BY DEF IInv, WrittenInv
      <3> QED
        BY <1>2, <3>1, RegistryAssumption DEF IInv, TypeOK, At, vars, rows, request, Next,
           Start, Statement, Lookup, Insert, Read, FindPrevious, Demote, Write,
           CheckIndex, Commit, BreakDeadlock, Fail, Rollback, End, Store
    <2> QED BY <2>1, <2>2, <2>3
  <1> QED BY <1>1, <1>2, StillObserved

\* The invariant holds in every reachable state.
LEMMA AlwaysDemoted == Spec => []DemotedInv
  <1>1. Init => DemotedInv
    BY RegistryAssumption DEF Init, DemotedInv, At
  <1> QED BY <1>1, AlwaysInv, DemotedStep, PTL DEF Spec

\* The rows and statements of the registry implement the lifecycle that
\* ingestion takes it for.
THEOREM ImplementsLifecycle == Spec => LifecycleSpec
  <1>1. Init => Lifecycle!Init
    BY DEF Init, Lifecycle!Init
  <1>2. IInv /\ IInv' /\ DemotedInv /\ [Next]_vars => [Lifecycle!Next]_registrations
    <2> SUFFICES ASSUME IInv, IInv', DemotedInv, NEW t \in Tx, Commit(t)
                 PROVE  registrations' = registrations \/ Lifecycle!Next
      BY OnlyCommits
    <2> DEFINE v == target[t]  old == registrations[v]
    <2>1. v \in Version /\ old \in PluginLifecycleState \cup {"absent"}
      BY DEF Commit, IInv, TypeOK, TargetInv, At
    <2>2. registrations' = [u \in Version |->
                              IF writer[u] = t THEN pending[u] ELSE registrations[u]]
      BY DEF Commit, Visible
    <2>3. registrations = [u \in Version |-> registrations[u]]
      BY DEF IInv, TypeOK
    <2>4. CASE \A u \in Version : writer[u] # t
      BY <2>2, <2>3, <2>4
    <2>5. CASE writer[v] = t /\ pending[v] # "PRODUCTION"
      <3>1. \A u \in Version \ {v} : writer[u] # t
        BY <2>5 DEF Commit, At, IInv, WrittenInv, ReadyInv, CallerInv, _NEXT_STATE
      <3>2. registrations' = [registrations EXCEPT ![v] = pending[v]]
        BY <2>2, <2>3, <2>5, <3>1
      <3>3. \/ pending[v] = "DRAFT" /\ old = "absent"
            \/ pending[v] = "SHADOW" /\ old # "absent"
        BY <2>1, <2>5 DEF Commit, At, IInv, WrittenInv, ReadyInv, CallerInv, _NEXT_STATE
      <3>4. CASE old = "SHADOW"
        BY <2>3, <3>2, <3>3, <3>4
      <3> QED
        BY <2>1, <3>2, <3>3, <3>4 DEF PluginLifecycleState, Lifecycle!Next,
           Lifecycle!Register, Lifecycle!Observe, Lifecycle!StepBack
    <2>6. CASE writer[v] = t /\ pending[v] = "PRODUCTION"
      <3>1. \A u \in Version \ {v} :
               registrations'[u] = IF registrations[u] = "PRODUCTION" THEN "SHADOW"
                                   ELSE registrations[u]
        <4> SUFFICES ASSUME NEW u \in Version \ {v}
                     PROVE  registrations'[u] = IF registrations[u] = "PRODUCTION"
                                                THEN "SHADOW" ELSE registrations[u]
          OBVIOUS
        <4>1. registrations[u] = "PRODUCTION" => writer[u] = t
          BY <2>1, <2>6 DEF Commit, IInv, SlotInv
        <4>2. writer[u] = t => /\ pending[u] = "SHADOW"
                               /\ registrations[u] \in {"SHADOW", "PRODUCTION"}
          BY DEF IInv, WrittenInv, DemotedInv
        <4> QED BY <2>2, <4>1, <4>2
      <3>2. registrations'[v] = "PRODUCTION"
        BY <2>1, <2>2, <2>6
      <3>3. registrations' = Lifecycle!InProduction(v)
        BY <2>2, <3>1, <3>2 DEF Lifecycle!InProduction
      <3>4. CASE old = "PRODUCTION"
        <4>1. \A u \in Version \ {v} : registrations[u] # "PRODUCTION"
          BY <2>1, <3>4 DEF IInv, OneProduction
        <4>2. \A u \in Version : registrations'[u] = registrations[u]
          BY <3>1, <3>2, <3>4, <4>1
        <4> QED BY <2>2, <2>3, <4>2
      <3>5. CASE old \in {"absent", "DRAFT"}
        BY <2>1, <3>3, <3>5 DEF Lifecycle!Next, Lifecycle!Seed
      <3>6. CASE old = "SHADOW"
        BY <2>1, <3>3, <3>6 DEF Lifecycle!Next, Lifecycle!TakeOver
      <3> QED BY <2>1, <3>4, <3>5, <3>6 DEF PluginLifecycleState
    <2> QED BY <2>4, <2>5, <2>6 DEF Commit, At, IInv, ReadyInv
  <1> QED BY <1>1, <1>2, AlwaysInv, AlwaysDemoted, PTL
          DEF Spec, LifecycleSpec, Lifecycle!Spec
=============================================================================
