------------------------- MODULE RequestServerProofs -------------------------
(***************************************************************************)
(* The safety properties of RequestServer for any requests, endpoints,     *)
(* principals, pool and number of threads.  Nothing is assumed of how many *)
(* requests there may be: those that are being served are finitely many.   *)
(***************************************************************************)
EXTENDS RequestServer, FiniteSetTheorems, TLAPS

USE ServerAssumption

Holders == {q \in Request : Held(stage[q]) >= 1}
DoubleHolders == {q \in Request : Held(stage[q]) = 2}

\* The pool is owed what the requests hold.
CountInv ==
    /\ IsFiniteSet(Holders)
    /\ conns = Cardinality(Holders) + Cardinality(DoubleHolders)

LockInv == \A q \in Request : lock = q <=> stage[q] \in HoldsLock

\* Nobody presents the token of a principal that was never created, so who is
\* found active was not stale on arrival; who is on the loop has a credential.
AccessInv ==
    /\ cookie # None => principals[cookie] # "absent"
    /\ \A q \in Request :
          /\ token[q] # None => principals[token[q]] # "absent"
          /\ stale[q] /\ token[q] # None => principals[token[q]] = "revoked"
          /\ stage[q] \in OnLoop => Guarded(q) /\ token[q] # None

Appends == {"appending", "lock_wait", "rules_wait", "rules", "writing"}
Recorded == {"refreshing", "review_wait", "reviewing", "shadow_wait", "shadowing"}

\* A decision is recorded between its commit and its answer, and only requests of
\* the ingestion route come that far.
RecordInv ==
    \A q \in Request :
        /\ stage[q] \in Appends \cup Recorded => kind[q] = "ingest"
        /\ stage[q] \in Recorded => q \in recorded
        /\ q \in recorded => stage[q] \in Recorded \cup {"answered"}
        /\ status[q] # 0 => stage[q] = "answered"

IInv == TypeOK /\ CountInv /\ LockInv /\ AccessInv /\ OnlyEntitled /\ RecordInv /\ AnswerTells
-----------------------------------------------------------------------------
\* The server starts with nothing held and nobody known.
LEMMA InitInv == Init => IInv
  <1> SUFFICES ASSUME Init PROVE IInv
    OBVIOUS
  <1>1. TypeOK
    BY DEF Init, TypeOK, Stage, Kind
  <1>2. CountInv
    <2>1. Holders = {} /\ DoubleHolders = {}
      BY DEF Init, Holders, DoubleHolders, Held, Holds1, Holds2
    <2> QED BY <2>1, FS_EmptySet DEF CountInv, Init
  <1>3. LockInv /\ AccessInv /\ OnlyEntitled /\ RecordInv /\ AnswerTells
    BY DEF Init, LockInv, AccessInv, OnlyEntitled, RecordInv, AnswerTells, HoldsLock,
       OnLoop, InThread, Holds0, Holds1, Holds2, Appends, Recorded
  <1> QED BY <1>1, <1>2, <1>3 DEF IInv

\* What Held can be.
LEMMA HeldType == \A s \in Stage : Held(s) \in 0..2
  BY DEF Held

\* A step of one request: the others stay where they are.
Move(q, s) ==
    /\ stage' = [stage EXCEPT ![q] = s]
    /\ conns' = conns - Held(stage[q]) + Held(s)

\* A set that loses or wins at most one element.
LEMMA OneElement ==
  ASSUME NEW S, NEW T, NEW x, IsFiniteSet(S), S \ {x} = T \ {x}
  PROVE  /\ IsFiniteSet(T)
         /\ Cardinality(T) = Cardinality(S) - (IF x \in S THEN 1 ELSE 0)
                                            + (IF x \in T THEN 1 ELSE 0)
  <1> DEFINE R == S \ {x}
  <1>1. /\ IsFiniteSet(R)
        /\ Cardinality(R) = IF x \in S THEN Cardinality(S) - 1 ELSE Cardinality(S)
    BY FS_RemoveElement
  <1>2. /\ IsFiniteSet(R \cup {x})
        /\ Cardinality(R \cup {x}) = Cardinality(R) + 1
    BY <1>1, FS_AddElement
  <1>3. T = IF x \in T THEN R \cup {x} ELSE R
    OBVIOUS
  <1>4. Cardinality(S) \in Nat /\ Cardinality(R) \in Nat
    BY <1>1, FS_CardinalityType
  <1> HIDE DEF R
  <1>5. CASE x \in T
    <2>1. T = R \cup {x}
      BY <1>3, <1>5
    <2>2. IsFiniteSet(T) /\ Cardinality(T) = Cardinality(R) + 1
      BY <1>2, <2>1
    <2> QED BY <1>1, <1>4, <1>5, <2>2
  <1>6. CASE x \notin T
    <2>1. T = R
      BY <1>3, <1>6
    <2> QED BY <1>1, <1>4, <1>6, <2>1
  <1> QED BY <1>5, <1>6

\* The account of connections stays right when a request takes up or gives back
\* what the stages it is in before and after say.
LEMMA MoveCount ==
  ASSUME TypeOK, CountInv, NEW q \in Request, NEW s \in Stage, Move(q, s)
  PROVE  CountInv'
  <1>1. stage'[q] = s /\ \A p \in Request \ {q} : stage'[p] = stage[p]
    BY DEF Move, TypeOK
  <1>2. /\ q \in Holders <=> Held(stage[q]) >= 1
        /\ q \in Holders' <=> Held(s) >= 1
        /\ q \in DoubleHolders <=> Held(stage[q]) = 2
        /\ q \in DoubleHolders' <=> Held(s) = 2
    BY <1>1 DEF Holders, DoubleHolders
  <1>3. Holders \ {q} = Holders' \ {q} /\ DoubleHolders \ {q} = DoubleHolders' \ {q}
    BY <1>1 DEF Holders, DoubleHolders
  <1>4. IsFiniteSet(Holders) /\ DoubleHolders \in SUBSET Holders
    <2>1. \A p \in Request : Held(stage[p]) = 2 => Held(stage[p]) >= 1
      OBVIOUS
    <2> QED BY <2>1 DEF CountInv, Holders, DoubleHolders
  <1>5. IsFiniteSet(DoubleHolders)
    BY <1>4, FS_Subset
  <1>6. /\ IsFiniteSet(Holders')
        /\ Cardinality(Holders') = Cardinality(Holders) - (IF q \in Holders THEN 1 ELSE 0)
                                                        + (IF q \in Holders' THEN 1 ELSE 0)
    BY <1>3, <1>4, OneElement
  <1>7. Cardinality(DoubleHolders')
          = Cardinality(DoubleHolders) - (IF q \in DoubleHolders THEN 1 ELSE 0)
                                       + (IF q \in DoubleHolders' THEN 1 ELSE 0)
    BY <1>3, <1>5, OneElement
  <1>8. Cardinality(Holders) \in Nat /\ Cardinality(DoubleHolders) \in Nat
    BY <1>4, <1>5, FS_CardinalityType
  <1>9. Held(stage[q]) \in 0..2 /\ Held(s) \in 0..2
    BY HeldType DEF TypeOK
  <1>10. /\ conns = Cardinality(Holders) + Cardinality(DoubleHolders)
         /\ conns' = conns - Held(stage[q]) + Held(s)
    BY DEF CountInv, Move
  <1>11. conns' = Cardinality(Holders') + Cardinality(DoubleHolders')
    BY <1>2, <1>6, <1>7, <1>8, <1>9, <1>10
  <1> QED BY <1>6, <1>11 DEF CountInv

\* A checkout leads to a stage with one connection more and nothing else gained.
LEMMA CheckoutHolds ==
  \A s \in Wants :
      LET t == AfterCheckout[s] IN
      /\ t \in Stage /\ Held(t) = Held(s) + 1
      /\ t \in HoldsLock <=> s \in HoldsLock
      /\ t \in OnLoop <=> s \in OnLoop
      /\ t \in InThread <=> s \in InThread
      /\ t \in Appends <=> s \in Appends
      /\ t \in Recorded <=> s \in Recorded
      /\ t \notin {"authorized", "answered"}
  BY DEF Wants, AfterCheckout, Stage, Held, OnLoop, InThread, Holds0, Holds1, Holds2,
     HoldsLock, Appends, Recorded

\* A step of a request is a move of it alone, and takes a connection only if the
\* pool has one.
LEMMA StepMove ==
  ASSUME TypeOK, NEW q \in Request, Step(q) \/ Fail(q)
  PROVE  \E s \in Stage : Move(q, s) /\ (conns' <= conns \/ conns' <= PoolSize)
  <1>6. CASE Checkout(q)
    <2>1. stage[q] \in Wants /\ conns' = conns + 1 /\ conns < PoolSize
      BY <1>6 DEF Checkout
    <2>2. PICK s : s = AfterCheckout[stage[q]]
      OBVIOUS
    <2>5. stage' = [stage EXCEPT ![q] = s]
      BY <1>6, <2>2 DEF Checkout
    <2>3. s \in Stage /\ Held(s) = Held(stage[q]) + 1
      BY <2>1, <2>2, CheckoutHolds
    <2>4. Held(stage[q]) \in 0..2
      BY HeldType DEF TypeOK
    <2>6. conns' = conns - Held(stage[q]) + Held(s) /\ conns' <= PoolSize
      BY <2>1, <2>3, <2>4 DEF TypeOK
    <2>7. Move(q, s)
      BY <2>5, <2>6 DEF Move
    <2> QED BY <2>3, <2>6, <2>7
  <1>15. CASE AcquireLock(q)
    <2>1. PICK s \in {"rules_wait", "writing"} : stage' = [stage EXCEPT ![q] = s]
      BY <1>15 DEF AcquireLock
    <2>2. s \in Stage /\ Held(s) = 1 /\ Held(stage[q]) = 1 /\ conns' = conns
      BY <1>15 DEF AcquireLock, Stage, InThread, Held, Holds0, Holds1, Holds2
    <2>3. conns' = conns - Held(stage[q]) + Held(s) /\ conns' <= PoolSize
      BY <2>2 DEF TypeOK
    <2>4. Move(q, s)
      BY <2>1, <2>3 DEF Move
    <2> QED BY <2>2, <2>3, <2>4
  <1> USE DEF TypeOK, Move, Goto, Answer, ReleaseAll, Held, Stage, OnLoop, Holds0, Holds1,
              Holds2, InThread, Wants
  <1>1. CASE health_check(q)
    BY <1>1 DEF health_check
  <1>2. CASE Admit(q)
    BY <1>2 DEF Admit
  <1>3. CASE RequireRole(q)
    BY <1>3 DEF RequireRole
  <1>4. CASE Dispatch(q)
    BY <1>4 DEF Dispatch
  <1>5. CASE Respond(q)
    BY <1>5 DEF Respond
  <1>7. CASE PoolTimeout(q)
    BY <1>7 DEF PoolTimeout, Return
  <1>8. CASE Authenticate(q)
    BY <1>8 DEF Authenticate
  <1>9. CASE Handle(q)
    BY <1>9 DEF Handle
  <1>10. CASE create_session(q)
    BY <1>10 DEF create_session
  <1>11. CASE Govern(q)
    BY <1>11 DEF Govern
  <1>12. CASE ResolveAttributes(q)
    BY <1>12 DEF ResolveAttributes
  <1>13. CASE Commit(q)
    BY <1>13 DEF Commit
  <1>14. CASE Finish(q)
    BY <1>14 DEF Finish, Return
  <1>17. CASE FinishShadows(q)
    BY <1>17 DEF FinishShadows
  <1>16. CASE Fail(q)
    BY <1>16 DEF Fail, Return
  <1> HIDE DEF TypeOK, Move, Goto, Answer, ReleaseAll, Held, Stage, OnLoop, Holds0, Holds1,
               Holds2, InThread, Wants
  <1> QED BY <1>1, <1>2, <1>3, <1>4, <1>5, <1>6, <1>7, <1>8, <1>9, <1>10, <1>11, <1>12,
             <1>13, <1>14, <1>15, <1>16, <1>17 DEF Step, Loop, Running

\* A step keeps every variable in its type; the pool lends no more than it has.
LEMMA StepType == IInv /\ [Next]_vars => TypeOK' /\ CountInv'
  <1> SUFFICES ASSUME IInv, [Next]_vars PROVE TypeOK' /\ CountInv'
    OBVIOUS
  <1> USE DEF IInv
  <1>1. ASSUME UNCHANGED <<stage, conns>> PROVE CountInv'
    BY <1>1 DEF CountInv, Holders, DoubleHolders
  <1>2. CASE Clients
    <2>1. CASE \E p \in Principal : CreatePrincipal(p) \/ RevokePrincipal(p)
      BY <1>1, <2>1 DEF TypeOK, CreatePrincipal, RevokePrincipal, sent
    <2>2. CASE Logout
      BY <1>1, <2>2 DEF TypeOK, Logout, sent
    <2>3. ASSUME NEW q \in Request, NEW h \in Principal \cup {None},
                 NEW k \in Sends[q], Accept(q, k, h)
          PROVE  TypeOK' /\ CountInv'
      <3>1. k \in Kind
        OBVIOUS
      <3>2. _extract_token(h, cookie) \in Principal \cup {None}
        BY DEF _extract_token, TypeOK
      <3>3. Move(q, "accepted")
        BY <2>3 DEF Accept, Goto, Move, Held, Holds1, Holds2, TypeOK
      <3>4. CountInv'
        BY <3>3, MoveCount DEF Stage
      <3>5. TypeOK'
        BY <2>3, <3>1, <3>2 DEF TypeOK, Accept, Goto, Stage, access, Usable
      <3> QED BY <3>4, <3>5
    <2> QED BY <1>2, <2>1, <2>2, <2>3 DEF Clients
  <1>3. CASE UNCHANGED vars
    BY <1>1, <1>3 DEF TypeOK, vars, access, sent
  <1>4. ASSUME NEW q \in Request, Step(q) \/ Fail(q)
        PROVE  TypeOK' /\ CountInv'
    <2>1. PICK s \in Stage : Move(q, s) /\ (conns' <= conns \/ conns' <= PoolSize)
      BY <1>4, StepMove
    <2>2. CountInv'
      BY <2>1, MoveCount
    <2>3. conns' \in 0..PoolSize
      <3>1. IsFiniteSet(Holders') /\ DoubleHolders' \in SUBSET Holders'
        <4>1. \A p \in Request : Held(stage'[p]) = 2 => Held(stage'[p]) >= 1
          OBVIOUS
        <4> QED BY <2>2, <4>1 DEF CountInv, Holders, DoubleHolders
      <3>2. Cardinality(Holders') \in Nat /\ Cardinality(DoubleHolders') \in Nat
        BY <3>1, FS_Subset, FS_CardinalityType
      <3>3. conns' \in Nat
        BY <2>2, <3>2 DEF CountInv
      <3> QED BY <2>1, <3>3 DEF TypeOK
    <2>4. stage' \in [Request -> Stage]
      BY <2>1 DEF Move, TypeOK
    <2>5. principals' = principals /\ cookie' \in Principal \cup {None}
      BY <1>4 DEF TypeOK, Step, Loop, Running, access, Usable, health_check, Admit,
         RequireRole, Dispatch, Respond, Checkout, PoolTimeout, Authenticate, Handle,
         create_session, Govern, ResolveAttributes, Commit, Finish, FinishShadows, Return,
         AcquireLock, Fail
    <2>6. /\ kind' \in [Request -> Kind] /\ token' \in [Request -> Principal \cup {None}]
          /\ stale' \in [Request -> BOOLEAN]
      <3>1. CASE Respond(q)
        BY <3>1 DEF TypeOK, Respond, Kind
      <3>2. CASE ~ Respond(q)
        <4>1. UNCHANGED sent
          BY <1>4, <3>2 DEF Step, Loop, Running, health_check, Admit, RequireRole,
             Dispatch, Checkout, PoolTimeout, Authenticate, Handle, create_session,
             Govern, ResolveAttributes, Commit, Finish, FinishShadows, AcquireLock, Fail
        <4> QED BY <4>1 DEF TypeOK, sent
      <3> QED BY <3>1, <3>2
    <2>7. lock' \in Request \cup {None} /\ recorded' \subseteq Request
      BY <1>4 DEF TypeOK, Step, Loop, Running, ReleaseAll, health_check, Admit,
         RequireRole, Dispatch, Respond, Checkout, PoolTimeout, Authenticate, Handle,
         create_session, Govern, ResolveAttributes, Commit, Finish, FinishShadows, Return,
         AcquireLock, Fail
    <2>8. status' \in [Request -> {0, 200, 204, 401, 403, 422, 500, 503}]
      BY <1>4 DEF TypeOK, Step, Loop, Running, Answer, health_check, Admit,
         RequireRole, Dispatch, Respond, Checkout, PoolTimeout, Authenticate, Handle,
         create_session, Govern, ResolveAttributes, Commit, Finish, FinishShadows, Return,
         AcquireLock, Fail, ErrorCode
    <2> QED BY <2>2, <2>3, <2>4, <2>5, <2>6, <2>7, <2>8 DEF TypeOK
  <1> QED BY <1>2, <1>3, <1>4 DEF Next
-----------------------------------------------------------------------------
\* The lock is taken and left with the stages that hold it.
LEMMA StepLock == IInv /\ [Next]_vars => LockInv'
  <1> SUFFICES ASSUME IInv, [Next]_vars PROVE LockInv'
    OBVIOUS
  <1>0. TypeOK /\ LockInv
    BY DEF IInv
  <1>1. CASE Clients \/ UNCHANGED vars
    <2>1. CASE UNCHANGED <<stage, lock>>
      BY <1>0, <2>1 DEF LockInv
    <2>2. ASSUME NEW q \in Request, Goto(q, "idle", "accepted"), UNCHANGED lock
          PROVE  LockInv'
      BY <1>0, <2>2 DEF LockInv, TypeOK, Goto, HoldsLock
    <2> QED BY <1>1, <2>1, <2>2 DEF Clients, CreatePrincipal, RevokePrincipal, Logout,
               Accept, vars
  <1>2. ASSUME NEW q \in Request, Step(q) \/ Fail(q)
        PROVE  LockInv'
    <2>1. CASE AcquireLock(q)
      BY <1>0, <2>1 DEF LockInv, TypeOK, AcquireLock, HoldsLock
    <2>2. CASE ReleaseAll(q) /\ \E s \in Stage \ HoldsLock : stage' = [stage EXCEPT ![q] = s]
      BY <1>0, <2>2 DEF LockInv, TypeOK, ReleaseAll
    <2>3. ASSUME NEW s \in Stage, stage' = [stage EXCEPT ![q] = s],
                 stage[q] \in HoldsLock <=> s \in HoldsLock, UNCHANGED lock
          PROVE  LockInv'
      BY <1>0, <2>3 DEF LockInv, TypeOK
    <2>5. CASE Checkout(q)
      BY <2>3, <2>5, CheckoutHolds DEF Checkout
    <2> USE DEF Goto, Answer, HoldsLock, Stage, InThread, OnLoop, Holds0, Holds1, Holds2
    <2>4. CASE Loop(q)
      BY <2>3, <2>4 DEF Loop, health_check, Admit, RequireRole, Dispatch, Respond
    <2>6. CASE Authenticate(q)
      BY <2>3, <2>6 DEF Authenticate
    <2>10. CASE Return(q)
      BY <2>2, <2>10 DEF Return
    <2>7. CASE \/ PoolTimeout(q) \/ Handle(q) \/ create_session(q) \/ Finish(q)
              \/ FinishShadows(q) \/ Fail(q)
      BY <2>2, <2>7, <2>10 DEF PoolTimeout, Handle, create_session, Finish, FinishShadows,
         Fail
    <2>8. CASE Govern(q) \/ Commit(q)
      BY <2>2, <2>8 DEF Govern, Commit
    <2>9. CASE ResolveAttributes(q)
      BY <2>2, <2>3, <2>9 DEF ResolveAttributes
    <2> QED BY <1>2, <2>1, <2>4, <2>5, <2>6, <2>7, <2>8, <2>9 DEF Step, Running
  <1> QED BY <1>1, <1>2 DEF Next
-----------------------------------------------------------------------------
\* A stale credential stays one, and only require_role leads past it.
LEMMA StepAccess == IInv /\ [Next]_vars => AccessInv' /\ OnlyEntitled'
  <1> SUFFICES ASSUME IInv, [Next]_vars PROVE AccessInv' /\ OnlyEntitled'
    OBVIOUS
  <1>0. TypeOK /\ AccessInv /\ OnlyEntitled
    BY DEF IInv
  <1> USE DEF Guarded
  <1>1. ASSUME UNCHANGED sent, \A p \in Request : stage'[p] = stage[p],
               cookie' \in {cookie, None},
               \A p \in Principal : \/ principals'[p] = principals[p]
                                    \/ principals[p] = "absent" /\ principals'[p] = "active"
                                    \/ principals[p] = "active" /\ principals'[p] = "revoked"
        PROVE  AccessInv' /\ OnlyEntitled'
    BY <1>0, <1>1 DEF AccessInv, OnlyEntitled, TypeOK, sent
  <1>2. CASE Clients
    <2>1. ASSUME NEW p \in Principal, CreatePrincipal(p) \/ RevokePrincipal(p)
          PROVE  AccessInv' /\ OnlyEntitled'
      BY <1>0, <1>1, <2>1 DEF CreatePrincipal, RevokePrincipal, TypeOK
    <2>2. CASE Logout
      BY <1>1, <2>2 DEF Logout
    <2>3. ASSUME NEW q \in Request, NEW h \in Principal \cup {None},
                 NEW k \in Sends[q], Accept(q, k, h)
          PROVE  AccessInv' /\ OnlyEntitled'
      <3> DEFINE t == _extract_token(h, cookie)
      <3>1. t \in Principal \cup {None} /\ (t # None => principals[t] # "absent")
        BY <1>0, <2>3 DEF _extract_token, TypeOK, Accept, AccessInv
      <3>2. /\ kind' = [kind EXCEPT ![q] = k] /\ token' = [token EXCEPT ![q] = t]
            /\ stale' = [stale EXCEPT ![q] = ~ Usable(t)]
            /\ stage' = [stage EXCEPT ![q] = "accepted"] /\ UNCHANGED access
        BY <2>3 DEF Accept, Goto
      <3>3. ~ Usable(t) /\ t # None => principals[t] = "revoked"
        BY <1>0, <3>1 DEF Usable, TypeOK
      <3> HIDE DEF t
      <3>4. \A p \in Request \ {q} : /\ stage'[p] = stage[p] /\ kind'[p] = kind[p]
                                     /\ token'[p] = token[p] /\ stale'[p] = stale[p]
        BY <1>0, <3>2 DEF TypeOK
      <3>5. stage'[q] = "accepted" /\ token'[q] = t
        BY <1>0, <3>2 DEF TypeOK
      <3>6. stale'[q] => ~ Usable(t)
        <4>1. stale \in [Request -> BOOLEAN] /\ stale' = [stale EXCEPT ![q] = ~ Usable(t)]
          BY <1>0, <3>2 DEF TypeOK
        <4>2. stale'[q] = ~ Usable(t)
          BY ONLY <4>1, q \in Request, Zenon
        <4> QED BY <4>2
      <3> QED BY <1>0, <3>1, <3>2, <3>3, <3>4, <3>5, <3>6
              DEF AccessInv, OnlyEntitled, OnLoop, InThread, Holds0, Holds1, Holds2, access
    <2> QED BY <1>2, <2>1, <2>2, <2>3 DEF Clients
  <1>3. CASE UNCHANGED vars
    BY <1>1, <1>3 DEF vars, access
  <1>4. ASSUME NEW q \in Request, Step(q) \/ Fail(q)
        PROVE  AccessInv' /\ OnlyEntitled'
    \* What the request may do to itself without being let in.
    <2>1. ASSUME UNCHANGED <<principals, sent>>, NEW s \in Stage, s \notin OnLoop,
                 cookie' = cookie \/ (cookie' = token[q] /\ principals[token[q]] = "active"),
                 stage' = [stage EXCEPT ![q] = s],
                 Guarded(q) /\ s \in InThread \cup {"authorized"} =>
                     \/ stage[q] \in InThread \cup {"authorized"}
                     \/ /\ token[q] # None /\ ~ stale[q]
                        /\ RoleOf[token[q]] \in Permitted[kind[q]]
          PROVE  AccessInv' /\ OnlyEntitled'
      <3>1. stage'[q] = s /\ \A p \in Request \ {q} : stage'[p] = stage[p]
        BY <1>0, <2>1 DEF TypeOK
      <3> QED BY <1>0, <2>1, <3>1 DEF AccessInv, OnlyEntitled, sent
    <2>2. CASE Respond(q)
      <3>1. /\ kind' = [kind EXCEPT ![q] = "healthz"] /\ token' = [token EXCEPT ![q] = None]
            /\ stale' = [stale EXCEPT ![q] = FALSE]
            /\ stage' = [stage EXCEPT ![q] = "idle"] /\ UNCHANGED access
        BY <2>2 DEF Respond, Goto
      <3>2. \A p \in Request \ {q} : /\ stage'[p] = stage[p] /\ kind'[p] = kind[p]
                                     /\ token'[p] = token[p] /\ stale'[p] = stale[p]
        BY <1>0, <3>1 DEF TypeOK
      <3>3. stage'[q] = "idle" /\ token'[q] = None
        BY <1>0, <3>1 DEF TypeOK
      <3> QED BY <1>0, <3>1, <3>2, <3>3
              DEF AccessInv, OnlyEntitled, OnLoop, InThread, Holds0, Holds1, Holds2, access
    <2>3. CASE Checkout(q)
      <3>1. PICK s \in Stage : /\ stage' = [stage EXCEPT ![q] = s] /\ s # "authorized"
                               /\ s \in OnLoop <=> stage[q] \in OnLoop
                               /\ s \in InThread <=> stage[q] \in InThread
        BY <2>3, CheckoutHolds DEF Checkout
      <3>2. stage'[q] = s /\ \A p \in Request \ {q} : stage'[p] = stage[p]
        BY <1>0, <3>1 DEF TypeOK
      <3>3. UNCHANGED <<access, sent>>
        BY <2>3 DEF Checkout
      <3> QED BY <1>0, <3>1, <3>2, <3>3 DEF AccessInv, OnlyEntitled, access, sent
    <2>4. CASE RequireRole(q)
      <3>1. Guarded(q) /\ UNCHANGED <<access, sent>>
        BY <2>4 DEF RequireRole
      <3>2. CASE stage' = [stage EXCEPT ![q] = "answered"]
        BY <2>1, <3>1, <3>2 DEF access, Stage, OnLoop, InThread, Holds0, Holds1, Holds2
      <3>3. CASE stage' = [stage EXCEPT ![q] = "auth_wait"] /\ token[q] # None
        <4>1. stage'[q] = "auth_wait" /\ \A p \in Request \ {q} : stage'[p] = stage[p]
          BY <1>0, <3>3 DEF TypeOK
        <4> QED BY <1>0, <3>1, <3>3, <4>1
                DEF AccessInv, OnlyEntitled, access, sent, InThread, Holds0, Holds1, Holds2
      <3> QED BY <2>4, <3>2, <3>3 DEF RequireRole, Answer, Goto
    <2>5. CASE Authenticate(q)
      <3>1. UNCHANGED <<access, sent>> /\ stage[q] \in OnLoop
        BY <2>5 DEF Authenticate, OnLoop
      <3>2. token[q] # None /\ (Usable(token[q]) => ~ stale[q])
        BY <1>0, <3>1 DEF AccessInv, Usable
      <3>3. \/ stage' = [stage EXCEPT ![q] = "answered"]
            \/ /\ Usable(token[q]) /\ RoleOf[token[q]] \in Permitted[kind[q]]
               /\ stage' = [stage EXCEPT ![q] = "authorized"]
        BY <2>5 DEF Authenticate, Answer, Goto
      <3> QED BY <2>1, <3>1, <3>2, <3>3
              DEF access, Stage, OnLoop, InThread, Holds0, Holds1, Holds2
    <2> USE DEF Goto, Answer, Stage, InThread, OnLoop, Holds0, Holds1, Holds2, access
    <2>6. CASE health_check(q) \/ Admit(q) \/ Dispatch(q)
      BY <2>1, <2>6 DEF health_check, Admit, Dispatch
    <2>7. CASE \/ PoolTimeout(q) \/ Handle(q) \/ Finish(q) \/ FinishShadows(q)
              \/ Fail(q)
      BY <2>1, <2>7 DEF PoolTimeout, Handle, Finish, FinishShadows, Fail, Return
    <2>8. CASE create_session(q)
      BY <2>1, <2>8 DEF create_session, Usable
    <2>9. CASE Govern(q) \/ Commit(q) \/ ResolveAttributes(q)
      BY <2>1, <2>9 DEF Govern, Commit, ResolveAttributes
    <2>10. CASE AcquireLock(q)
      BY <2>1, <2>10 DEF AcquireLock
    <2> QED BY <1>4, <2>2, <2>3, <2>4, <2>5, <2>6, <2>7, <2>8, <2>9, <2>10
            DEF Step, Loop, Running
  <1> QED BY <1>2, <1>3, <1>4 DEF Next
-----------------------------------------------------------------------------
\* Request q alone moves on, to stage s and status c, as RecordInv and AnswerTells
\* want it.
Becomes(q, s, c) ==
    /\ stage' = [stage EXCEPT ![q] = s] /\ UNCHANGED kind
    /\ status' = [status EXCEPT ![q] = c] /\ recorded' \in {recorded, recorded \cup {q}}
    /\ s \in Appends \cup Recorded => kind[q] = "ingest"
    /\ s \in Recorded => q \in recorded'
    /\ q \in recorded' => s \in Recorded \cup {"answered"}
    /\ c # 0 => s = "answered"
    /\ kind[q] = "ingest" => /\ c = 200 => q \in recorded'
                             /\ c \in {401, 403, 422, 503} => q \notin recorded'

\* Such a step keeps what is known of what is recorded and answered.
LEMMA RecordFrame ==
  ASSUME IInv, NEW q \in Request, NEW s, NEW c, Becomes(q, s, c)
  PROVE  RecordInv' /\ AnswerTells'
  <1>1. /\ stage'[q] = s /\ status'[q] = c /\ kind' = kind
        /\ \A p \in Request \ {q} : stage'[p] = stage[p] /\ status'[p] = status[p]
    BY DEF Becomes, IInv, TypeOK
  <1>2. \A p \in Request \ {q} : p \in recorded' <=> p \in recorded
    BY DEF Becomes
  <1>3. RecordInv'
    BY <1>1, <1>2 DEF Becomes, IInv, RecordInv
  <1>4. AnswerTells'
    BY <1>1, <1>2 DEF Becomes, IInv, AnswerTells
  <1> QED BY <1>3, <1>4

\* A decision is recorded by its commit and nothing else, and the answers of the
\* ingestion route say on which side of it they are.
LEMMA StepRecord == IInv /\ [Next]_vars => RecordInv' /\ AnswerTells'
  <1> SUFFICES ASSUME IInv, [Next]_vars PROVE RecordInv' /\ AnswerTells'
    OBVIOUS
  <1>0. TypeOK /\ RecordInv /\ AnswerTells
    BY DEF IInv
  <1>1. CASE UNCHANGED <<stage, kind, status, recorded>>
    BY <1>0, <1>1 DEF RecordInv, AnswerTells
  <1>2. CASE Clients
    <2>1. ASSUME NEW q \in Request, NEW h \in Principal \cup {None},
                 NEW k \in Sends[q], Accept(q, k, h)
          PROVE  RecordInv' /\ AnswerTells'
      <3>1. /\ stage' = [stage EXCEPT ![q] = "accepted"] /\ kind' = [kind EXCEPT ![q] = k]
            /\ stage[q] = "idle" /\ UNCHANGED <<recorded, status>>
        BY <2>1 DEF Accept, Goto
      <3>2. \A p \in Request \ {q} : stage'[p] = stage[p] /\ kind'[p] = kind[p]
        BY <1>0, <3>1 DEF TypeOK
      <3>3. stage'[q] = "accepted" /\ q \notin recorded /\ status[q] = 0
        BY <1>0, <3>1 DEF TypeOK, RecordInv, Recorded
      <3> QED BY <1>0, <3>1, <3>2, <3>3 DEF RecordInv, AnswerTells, Appends, Recorded
    <2> QED BY <1>1, <1>2, <2>1 DEF Clients, CreatePrincipal, RevokePrincipal, Logout, sent
  <1>3. ASSUME NEW q \in Request, Step(q) \/ Fail(q)
        PROVE  RecordInv' /\ AnswerTells'
    <2>0. /\ stage[q] \in Stage /\ status[q] \in {0, 200, 204, 401, 403, 422, 500, 503}
          /\ UNCHANGED status => status' = [status EXCEPT ![q] = status[q]]
          /\ stage[q] # "answered" => status[q] = 0
          /\ stage[q] \in Recorded <=> (q \in recorded /\ stage[q] # "answered")
      BY <1>0 DEF TypeOK, RecordInv, Recorded
    <2>1. CASE Respond(q)
      <3>1. /\ stage' = [stage EXCEPT ![q] = "idle"] /\ kind' = [kind EXCEPT ![q] = "healthz"]
            /\ status' = [status EXCEPT ![q] = 0] /\ recorded' = recorded \ {q}
        BY <2>1 DEF Respond, Goto
      <3>2. \A p \in Request \ {q} : /\ stage'[p] = stage[p] /\ kind'[p] = kind[p]
                                     /\ status'[p] = status[p]
                                     /\ p \in recorded' <=> p \in recorded
        BY <1>0, <3>1 DEF TypeOK
      <3>3. /\ stage'[q] = "idle" /\ kind'[q] = "healthz" /\ status'[q] = 0
            /\ q \notin recorded'
        BY <1>0, <3>1 DEF TypeOK
      <3> QED BY <1>0, <3>2, <3>3 DEF RecordInv, AnswerTells, Appends, Recorded
    <2>2. CASE Checkout(q)
      <3>1. PICK s \in Stage : /\ stage' = [stage EXCEPT ![q] = s] /\ s # "answered"
                               /\ s \in Appends <=> stage[q] \in Appends
                               /\ s \in Recorded <=> stage[q] \in Recorded
        BY <2>2, CheckoutHolds DEF Checkout
      <3>2. UNCHANGED <<kind, status, recorded>> /\ stage[q] # "answered"
        BY <2>2 DEF Checkout, sent, Wants, Holds0
      <3>3. Becomes(q, s, status[q])
        BY <1>0, <2>0, <3>1, <3>2 DEF Becomes, RecordInv
      <3> QED BY <3>3, RecordFrame
    <2>3. CASE Commit(q)
      <3>1. kind[q] = "ingest" /\ stage[q] # "answered"
        BY <1>0, <2>3 DEF Commit, Goto, RecordInv, Appends
      <3>2. /\ stage' = [stage EXCEPT ![q] = "refreshing"] /\ UNCHANGED <<kind, status>>
            /\ recorded' = recorded \cup {q} /\ "refreshing" \in Stage
        BY <2>3 DEF Commit, Goto, sent, Stage, InThread, Holds0
      <3>3. status' = [status EXCEPT ![q] = 0]
        BY <2>0, <3>1, <3>2
      <3>4. q \in recorded' /\ "refreshing" \in Recorded /\ "refreshing" # "answered"
        BY <3>2 DEF Recorded
      <3>5. Becomes(q, "refreshing", 0)
        <4>1. /\ stage' = [stage EXCEPT ![q] = "refreshing"] /\ UNCHANGED kind
              /\ recorded' = recorded \cup {q}
          BY <3>2
        <4> QED BY ONLY <3>1, <3>3, <3>4, <4>1 DEF Becomes
      <3> QED BY <3>5, RecordFrame
    <2>4. ASSUME NEW code, Answer(q, code), UNCHANGED <<kind, recorded>>,
                 kind[q] = "ingest" /\ code = 200 => stage[q] \in Recorded,
                 kind[q] = "ingest" /\ code \in {401, 403, 422, 503} =>
                     stage[q] \notin Recorded \cup {"answered"}
          PROVE  RecordInv' /\ AnswerTells'
      <3>1. /\ stage' = [stage EXCEPT ![q] = "answered"]
            /\ status' = [status EXCEPT ![q] = code]
            /\ "answered" \in Stage /\ "answered" \notin Appends \cup Recorded
        BY <2>4 DEF Answer, Stage, Appends, Recorded
      <3>2. Becomes(q, "answered", code)
        BY <2>0, <2>4, <3>1 DEF Becomes
      <3> QED BY <3>2, RecordFrame
    <2>5. ASSUME NEW s \in Stage, stage' = [stage EXCEPT ![q] = s],
                 UNCHANGED <<kind, recorded, status>>,
                 stage[q] \notin Recorded \cup {"answered"}, s \notin Recorded,
                 s \in Appends => kind[q] = "ingest"
          PROVE  RecordInv' /\ AnswerTells'
      <3>1. status' = [status EXCEPT ![q] = 0] /\ q \notin recorded'
        BY <2>0, <2>5
      <3>2. Becomes(q, s, 0)
        <4>1. /\ UNCHANGED <<kind, recorded>> /\ stage' = [stage EXCEPT ![q] = s]
              /\ s \notin Recorded /\ (s \in Appends => kind[q] = "ingest")
          BY <2>5
        <4> QED BY ONLY <3>1, <4>1 DEF Becomes
      <3> QED BY <3>2, RecordFrame
    <2>18. ASSUME Return(q), stage[q] \in {"review_wait", "reviewing"},
                  UNCHANGED <<kind, recorded>>
           PROVE  RecordInv' /\ AnswerTells'
      <3>1. CASE Answer(q, 200)
        BY <2>4, <2>18, <3>1 DEF Recorded
      <3>2. ASSUME stage' = [stage EXCEPT ![q] = "shadow_wait"], UNCHANGED status
            PROVE  RecordInv' /\ AnswerTells'
        <4>1. kind[q] = "ingest" /\ q \in recorded /\ status' = [status EXCEPT ![q] = 0]
          BY <1>0, <2>0, <2>18, <3>2 DEF RecordInv, Recorded
        <4>2. Becomes(q, "shadow_wait", 0)
          <5>1. /\ stage' = [stage EXCEPT ![q] = "shadow_wait"]
                /\ kind' = kind /\ recorded' = recorded
                /\ "shadow_wait" \in Recorded /\ "shadow_wait" # "answered"
            BY <2>18, <3>2 DEF Recorded
          <5> QED BY ONLY <4>1, <5>1 DEF Becomes
        <4> QED BY <4>2, RecordFrame
      <3> QED BY <2>18, <3>1, <3>2 DEF Return
    <2> USE DEF Goto, sent, Stage, InThread, OnLoop, Holds0, Holds1, Holds2, Recorded, Appends
    <2>6. CASE health_check(q)
      BY <2>4, <2>6 DEF health_check
    <2>7. CASE Admit(q) \/ Dispatch(q)
      BY <2>5, <2>7 DEF Admit, Dispatch
    <2>8. CASE RequireRole(q)
      BY <2>4, <2>5, <2>8 DEF RequireRole
    <2>9. CASE Authenticate(q)
      BY <2>4, <2>5, <2>9 DEF Authenticate
    <2>10. CASE PoolTimeout(q)
      BY <2>4, <2>10, <2>18 DEF PoolTimeout, ErrorCode
    <2>11. CASE Handle(q)
      BY <2>4, <2>11 DEF Handle
    <2>12. CASE create_session(q)
      BY <2>4, <2>12 DEF create_session
    <2>13. CASE Govern(q)
      BY <2>4, <2>5, <2>13 DEF Govern
    <2>14. CASE ResolveAttributes(q)
      <3>1. kind[q] = "ingest"
        BY <1>0, <2>14 DEF ResolveAttributes, RecordInv
      <3> QED BY <2>4, <2>5, <2>14, <3>1 DEF ResolveAttributes
    <2>15. CASE AcquireLock(q)
      <3>1. kind[q] = "ingest"
        BY <1>0, <2>15 DEF AcquireLock, RecordInv
      <3> QED BY <2>5, <2>15, <3>1 DEF AcquireLock
    <2>16. CASE Finish(q)
      BY <2>16, <2>18 DEF Finish
    <2>17. CASE Fail(q)
      BY <2>4, <2>17, <2>18 DEF Fail, ErrorCode
    <2>19. CASE FinishShadows(q)
      BY <2>4, <2>19 DEF FinishShadows
    <2> QED BY <1>3, <2>1, <2>2, <2>3, <2>6, <2>7, <2>8, <2>9, <2>10, <2>11, <2>12, <2>13,
               <2>14, <2>15, <2>16, <2>17, <2>19 DEF Step, Loop, Running
  <1> QED BY <1>1, <1>2, <1>3 DEF Next, vars, sent
-----------------------------------------------------------------------------
\* A step keeps the invariant.
LEMMA StepInv == IInv /\ [Next]_vars => IInv'
  BY StepType, StepLock, StepAccess, StepRecord DEF IInv

\* Every variable keeps its type, whatever requests, principals and endpoints
\* there are.
THEOREM TypeCorrect == Spec => []TypeOK
  <1>1. IInv => TypeOK
    BY DEF IInv
  <1> QED BY <1>1, InitInv, StepInv, PTL DEF Spec

\* However checkouts nest, time out and fail, the pool is owed exactly what the
\* requests hold and the lock is with a request inside append.
THEOREM PoolIntact == Spec => []NothingLeaks
  <1>1. IInv => NothingLeaks
    BY DEF IInv, TypeOK, CountInv, LockInv, NothingLeaks, Holders, DoubleHolders
  <1> QED BY <1>1, InitInv, StepInv, PTL DEF Spec

\* No handler behind require_role runs for a credential that was no good on
\* arrival, or for a role it does not permit.
THEOREM EntitledOnly == Spec => []OnlyEntitled
  <1>1. IInv => OnlyEntitled
    BY DEF IInv
  <1> QED BY <1>1, InitInv, StepInv, PTL DEF Spec

\* A 200 of the ingestion route means recorded, and every error but 500 means
\* not recorded.
THEOREM AnswersTell == Spec => []AnswerTells
  <1>1. IInv => AnswerTells
    BY DEF IInv
  <1> QED BY <1>1, InitInv, StepInv, PTL DEF Spec
=============================================================================
