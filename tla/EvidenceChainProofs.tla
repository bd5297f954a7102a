------------------------- MODULE EvidenceChainProofs -------------------------
(***************************************************************************)
(* EvidenceChain for any number of workers, admins, events and systems,    *)
(* and ChainVerifier for chains of any length.                             *)
(***************************************************************************)
EXTENDS ChainVerifier, FiniteSetTheorems, WellFoundedInduction, TLAPS

\* The initial state is typed.
LEMMA InitTypeOK == Init => TypeOK
  BY EvidenceAssumption DEF Init, TypeOK, GENESIS_HASH, Hash, ChainRow, Registered,
     Holding, InTx, Committed

\* Hashing keeps hashes well typed.
LEMMA HashType ==
    ASSUME NEW h \in Hash, NEW p \in Payload
    PROVE  compute_hash(h, p) \in Hash
  BY DEF Hash, compute_hash

\* Ending a transaction keeps the lock and the name claims typed.
LEMMA RollbackType ==
    ASSUME TypeOK, NEW w \in Worker, Rollback(w)
    PROVE  TypeOK'
  BY EvidenceAssumption DEF TypeOK, Rollback, Forget, EndTransaction, tables, admin,
     history, Registered, Holding, InTx, Committed, GENESIS_HASH, Hash

\* Every action keeps the state typed.
LEMMA NextTypeOK == TypeOK /\ [Next]_vars => TypeOK'
<1> SUFFICES ASSUME TypeOK, [Next]_vars PROVE TypeOK'
  OBVIOUS
<1> USE EvidenceAssumption DEF Registered, Holding, InTx, Committed, history
<1>1. ASSUME NEW w \in Worker, NEW e \in Event, NEW s \in Status, Receive(w, e, s)
      PROVE  TypeOK'
  BY <1>1 DEF TypeOK, Receive, Goto, tables, admin, Payload
<1>2. ASSUME NEW w \in Worker, AcquireLock(w) PROVE TypeOK'
  BY <1>2 DEF TypeOK, AcquireLock, Goto, tables, admin, locals
<1>3. ASSUME NEW w \in Worker, LookupSystem(w) PROVE TypeOK'
  BY <1>3 DEF TypeOK, LookupSystem, Goto, tables, admin, Payload
<1>4. ASSUME NEW w \in Worker, ProvisionSystem(w) PROVE TypeOK'
  BY <1>4, RollbackType DEF TypeOK, ProvisionSystem, Goto, tables, admin, locals
<1>5. ASSUME NEW w \in Worker, InsertDecision(w) PROVE TypeOK'
  BY <1>5, RollbackType DEF TypeOK, InsertDecision, NoteGoverned, Goto, tables, admin,
     locals, Payload
<1>6. ASSUME NEW w \in Worker, ResolveAttributes(w) PROVE TypeOK'
  <2>1. CASE Rollback(w)
    BY <2>1, RollbackType
  <2>2. CASE ~ Rollback(w)
    <3>1. resolving' \in [Worker -> BOOLEAN]
      <4>1. (seen[w] \in ruled) \in BOOLEAN
        OBVIOUS
      <4>2. resolving' = [resolving EXCEPT ![w] = seen[w] \in ruled]
        BY <1>6, <2>2 DEF ResolveAttributes
      <4>. QED  BY Zenon, <4>1, <4>2 DEF TypeOK
    <3>2. /\ pc' = [pc EXCEPT ![w] = "resolved"] /\ pc[w] = "inserted"
          /\ UNCHANGED <<tables, sysWriter, nextSeq, lock, req, seen, prev, seq, admin,
                         history>>
      BY <1>6, <2>2 DEF ResolveAttributes, Goto
    <3>. QED  BY <3>1, <3>2 DEF TypeOK, tables, admin
  <2>. QED  BY <2>1, <2>2
<1>7. ASSUME NEW w \in Worker, ReadLatestHash(w) PROVE TypeOK'
  <2>1. PICK h : IsLatestHash(h) /\ prev' = [prev EXCEPT ![w] = h]
    BY <1>7 DEF ReadLatestHash
  <2>2. h \in Hash
    <3>1. \A n \in DOMAIN evidence_chain : evidence_chain[n].record_hash \in Hash
      BY DEF TypeOK, ChainRow
    <3>2. GENESIS_HASH \in Hash
      BY DEF GENESIS_HASH, Hash
    <3>. QED  BY <2>1, <3>1, <3>2 DEF IsLatestHash
  <2>3. prev' \in [Worker -> Hash]
    BY <2>1, <2>2 DEF TypeOK
  <2>. QED
    BY <1>7, <2>3 DEF TypeOK, ReadLatestHash, Goto, tables, admin
<1>8. ASSUME NEW w \in Worker, InsertChainRow(w) PROVE TypeOK'
  BY <1>8, RollbackType DEF TypeOK, InsertChainRow, Goto, tables, admin
<1>9. ASSUME NEW w \in Worker, Commit(w) PROVE TypeOK'
  BY <1>9, HashType DEF TypeOK, Commit, Goto, EndTransaction, admin, locals, ChainRow,
     sign, Payload
<1>10. ASSUME NEW w \in Worker, QueueReview(w) PROVE TypeOK'
  BY <1>10 DEF TypeOK, QueueReview, Goto, admin, locals
<1>11. ASSUME NEW w \in Worker, Respond(w) PROVE TypeOK'
  BY <1>11 DEF TypeOK, Respond, Forget, tables, admin, GENESIS_HASH, Hash
<1>12. ASSUME NEW w \in Worker, Fail(w) PROVE TypeOK'
  BY <1>12, RollbackType DEF Fail
<1>13. ASSUME NEW a \in Admin, NEW s \in System, NEW d \in Registered,
              AdminLookup(a, s, d)
       PROVE  TypeOK'
  BY <1>13 DEF TypeOK, AdminLookup, tables, locals
<1>14. ASSUME NEW a \in Admin, AdminInsert(a) PROVE TypeOK'
  BY <1>14 DEF TypeOK, AdminInsert, AdminDone, tables, locals
<1>15. ASSUME NEW a \in Admin, AdminCommit(a) PROVE TypeOK'
  BY <1>15 DEF TypeOK, AdminCommit, AdminDone, EndTransaction, locals
<1>16. ASSUME NEW a \in Admin, AdminFail(a) PROVE TypeOK'
  BY <1>16 DEF TypeOK, AdminFail, AdminDone, EndTransaction, tables, locals
<1>17. ASSUME NEW d \in Domain, AddRule(d) PROVE TypeOK'
  BY <1>17 DEF TypeOK, AddRule, locals, admin
<1>18. CASE UNCHANGED vars
  BY <1>18 DEF TypeOK, vars, tables, locals, admin
<1>. QED
  BY <1>1, <1>2, <1>3, <1>4, <1>5, <1>6, <1>7, <1>8, <1>9, <1>10, <1>11, <1>12,
     <1>13, <1>14, <1>15, <1>16, <1>17, <1>18 DEF Next, Advance, AdminAdvance

\* The variables keep their types in every behaviour, for all constants.
THEOREM TypeCorrect == Spec => []TypeOK
  BY InitTypeOK, NextTypeOK, PTL DEF Spec
-----------------------------------------------------------------------------
(***************************************************************************)
(* The inductive invariant.  ChainLinked is not inductive: that a new row  *)
(* continues the chain rests on the lock (LockInv), on the hash read still *)
(* being the latest (HeadInv) and on the number drawn being above every    *)
(* committed one (SeqInv).                                                 *)
(***************************************************************************)
\* A worker is past the lock and before its commit exactly when it holds it.
LockInv == \A w \in Worker : pc[w] \in Holding <=> lock = w

\* The hash a worker has read is still the latest.
HeadInv == \A w \in Worker : pc[w] \in {"hashed", "written"} => IsLatestHash(prev[w])

\* Numbers are drawn in increasing order, and a number drawn but not committed
\* is above every committed one.
SeqInv ==
    /\ \A n \in DOMAIN evidence_chain : n < nextSeq
    /\ \A w \in Worker : pc[w] = "written" =>
          /\ seq[w] \in 1..MaxSeq /\ seq[w] < nextSeq
          /\ \A n \in DOMAIN evidence_chain : n < seq[w]
    /\ nextSeq >= 1

\* The event a worker has flushed has not been recorded by anyone else.
FreshInv == \A w \in Worker : pc[w] \in {"inserted", "resolved", "hashed", "written"}
                                => ~ Decided(req[w].event)

\* What was committed or acknowledged is among the recorded decisions.
AckInv == /\ acked \subseteq decisions
          /\ \A w \in Worker : pc[w] \in Committed => req[w] \in decisions

IInv == /\ TypeOK /\ LockInv /\ HeadInv /\ SeqInv /\ FreshInv /\ AckInv
        /\ ChainLinked /\ OneRecordPerEvent

\* The initial state satisfies the invariant.
LEMMA InitIInv == Init => IInv
<1> SUFFICES ASSUME Init PROVE IInv
  OBVIOUS
<1>1. TypeOK
  BY InitTypeOK
<1>2. DOMAIN evidence_chain = {} /\ decisions = {} /\ acked = {}
  BY DEF Init
<1>3. LockInv /\ HeadInv /\ SeqInv /\ FreshInv /\ AckInv
  BY <1>2, EvidenceAssumption
  DEF Init, LockInv, HeadInv, SeqInv, FreshInv, AckInv, Holding, Committed
<1>4. ChainLinked /\ OneRecordPerEvent
  BY <1>2 DEF ChainLinked, OneRecordPerEvent
<1>. QED  BY <1>1, <1>3, <1>4 DEF IInv

\* The lock invariant is inductive on its own.
LEMMA NextLockInv == TypeOK /\ LockInv /\ [Next]_vars => LockInv'
<1> SUFFICES ASSUME TypeOK, LockInv, [Next]_vars PROVE LockInv'
  OBVIOUS
<1> USE EvidenceAssumption DEF TypeOK, LockInv, Holding, InTx, Committed
<1>1. ASSUME NEW w \in Worker, NEW e \in Event, NEW s \in Status, Receive(w, e, s)
      PROVE  LockInv'
  BY <1>1 DEF Receive, Goto
<1>2. ASSUME NEW w \in Worker, AcquireLock(w) PROVE LockInv'
  BY <1>2 DEF AcquireLock, Goto
<1>3. ASSUME NEW w \in Worker, Rollback(w) PROVE LockInv'
  BY <1>3 DEF Rollback, Forget, EndTransaction
<1>4. ASSUME NEW w \in Worker, Advance(w) PROVE LockInv'
  <2>1. CASE LookupSystem(w)
    BY <2>1 DEF LookupSystem, Goto
  <2>2. CASE ProvisionSystem(w)
    BY <2>2, <1>3 DEF ProvisionSystem, Goto
  <2>3. CASE InsertDecision(w)
    BY <2>3, <1>3 DEF InsertDecision, Goto
  <2>4. CASE ResolveAttributes(w)
    BY <2>4, <1>3 DEF ResolveAttributes, Goto
  <2>5. CASE ReadLatestHash(w)
    BY <2>5 DEF ReadLatestHash, Goto
  <2>6. CASE InsertChainRow(w)
    BY <2>6, <1>3 DEF InsertChainRow, Goto
  <2>7. CASE Commit(w)
    BY <2>7 DEF Commit, Goto, EndTransaction
  <2>8. CASE QueueReview(w)
    BY <2>8 DEF QueueReview, Goto
  <2>9. CASE Respond(w)
    BY <2>9 DEF Respond, Forget
  <2>. QED  BY <1>4, <2>1, <2>2, <2>3, <2>4, <2>5, <2>6, <2>7, <2>8, <2>9 DEF Advance
<1>5. ASSUME NEW w \in Worker, Fail(w) PROVE LockInv'
  BY <1>5, <1>3 DEF Fail
<1>6. ASSUME NEW a \in Admin, NEW s \in System, NEW d \in Registered,
             AdminLookup(a, s, d)
      PROVE  LockInv'
  BY <1>6 DEF AdminLookup
<1>7. ASSUME NEW a \in Admin, AdminAdvance(a) \/ AdminFail(a) PROVE LockInv'
  BY <1>7 DEF AdminAdvance, AdminInsert, AdminCommit, AdminFail, EndTransaction
<1>8. CASE UNCHANGED vars \/ \E d \in Domain : AddRule(d)
  BY <1>8 DEF vars, AddRule
<1>. QED  BY <1>1, <1>2, <1>4, <1>5, <1>6, <1>7, <1>8 DEF Next

\* A worker at a place only the lock holder reaches is alone there.
LEMMA HolderAlone ==
    ASSUME LockInv, NEW v \in Worker, NEW w \in Worker,
           pc[v] \in Holding, pc[w] \in Holding
    PROVE  v = w
  BY DEF LockInv

ChainInv == HeadInv /\ SeqInv /\ FreshInv /\ AckInv

\* A step that commits nothing leaves the chain and the decisions alone.
LEMMA QuietStep ==
    ASSUME ChainLinked, OneRecordPerEvent, UNCHANGED <<evidence_chain, decisions>>
    PROVE  ChainLinked' /\ OneRecordPerEvent'
  BY DEF ChainLinked, Linked, First, Follows, OneRecordPerEvent

\* An aborted transaction keeps what the others rely on.
LEMMA RollbackChainInv ==
    ASSUME TypeOK, ChainInv, NEW w \in Worker, Rollback(w)
    PROVE  ChainInv' /\ UNCHANGED <<evidence_chain, decisions>>
  BY ZenonT(40) DEF TypeOK, ChainInv, HeadInv, SeqInv, FreshInv, AckInv, IsLatestHash, Decided,
     Rollback, Forget, EndTransaction, tables, history, Committed

\* Every step but Commit keeps the invariant and leaves the chain alone.
LEMMA QuietChainInv ==
    ASSUME IInv, [Next]_vars, \A w \in Worker : ~ Commit(w)
    PROVE  ChainInv' /\ UNCHANGED <<evidence_chain, decisions>>
<1> USE EvidenceAssumption DEF Holding, InTx, Committed, history
<1> DEFINE Quiet == ChainInv' /\ UNCHANGED <<evidence_chain, decisions>>
<1>0. TypeOK /\ LockInv /\ ChainInv
  BY DEF IInv, ChainInv
<1>1. ASSUME NEW w \in Worker, NEW e \in Event, NEW s \in Status, Receive(w, e, s)
      PROVE  Quiet
  BY <1>0, <1>1 DEF TypeOK, ChainInv, HeadInv, SeqInv, FreshInv, AckInv, IsLatestHash,
     Decided, Receive, Goto, tables
<1>2. ASSUME NEW w \in Worker, AcquireLock(w) PROVE Quiet
  BY <1>0, <1>2 DEF TypeOK, ChainInv, HeadInv, SeqInv, FreshInv, AckInv, IsLatestHash,
     Decided, AcquireLock, Goto, tables, locals
<1>3. ASSUME NEW w \in Worker, Rollback(w) PROVE Quiet
  BY <1>0, <1>3, RollbackChainInv
<1>4. ASSUME NEW w \in Worker, Advance(w) PROVE Quiet
  <2>1. CASE LookupSystem(w)
    BY <1>0, <2>1 DEF TypeOK, ChainInv, HeadInv, SeqInv, FreshInv, AckInv,
       IsLatestHash, Decided, LookupSystem, Goto, tables
  <2>2. CASE ProvisionSystem(w)
    <3>1. CASE Rollback(w)
      BY <1>3, <3>1
    <3>2. CASE ~ Rollback(w)
      <4>1. /\ pc[w] = "looked_up" /\ pc' = [pc EXCEPT ![w] = "registered"]
            /\ UNCHANGED <<evidence_chain, decisions, nextSeq, req, prev, seq, acked>>
        BY <2>2, <3>2 DEF ProvisionSystem, Goto, tables, locals
      <4>. QED
        BY <1>0, <4>1 DEF TypeOK, ChainInv, HeadInv, SeqInv, FreshInv, AckInv,
           IsLatestHash, Decided
    <3>. QED  BY <3>1, <3>2
  <2>3. CASE InsertDecision(w)
    <3>1. CASE Rollback(w)
      BY <1>3, <3>1
    <3>2. CASE ~ Rollback(w)
      <4>1. /\ pc[w] = "registered" /\ pc' = [pc EXCEPT ![w] = "inserted"]
            /\ UNCHANGED <<evidence_chain, decisions, nextSeq, req, prev, seq, acked>>
            /\ ~ Decided(req[w].event)
        BY <2>3, <3>2 DEF InsertDecision, Goto, tables, locals
      <4>. QED
        BY <1>0, <4>1 DEF TypeOK, ChainInv, HeadInv, SeqInv, FreshInv, AckInv,
           IsLatestHash, Decided
    <3>. QED  BY <3>1, <3>2
  <2>4. CASE ResolveAttributes(w)
    <3>1. CASE Rollback(w)
      BY <1>3, <3>1
    <3>2. CASE ~ Rollback(w)
      <4>1. /\ pc[w] = "inserted" /\ pc' = [pc EXCEPT ![w] = "resolved"]
            /\ UNCHANGED <<evidence_chain, decisions, nextSeq, req, prev, seq, acked>>
        BY <2>4, <3>2 DEF ResolveAttributes, Goto, tables, locals
      <4>. QED
        BY <1>0, <4>1 DEF TypeOK, ChainInv, HeadInv, SeqInv, FreshInv, AckInv,
           IsLatestHash, Decided
    <3>. QED  BY <3>1, <3>2
  <2>5. CASE ReadLatestHash(w)
    <3>1. PICK h : IsLatestHash(h) /\ prev' = [prev EXCEPT ![w] = h]
      BY <2>5 DEF ReadLatestHash
    <3>2. /\ pc[w] = "resolved" /\ pc' = [pc EXCEPT ![w] = "hashed"]
          /\ UNCHANGED <<evidence_chain, decisions, nextSeq, req, seq, acked>>
      BY <2>5 DEF ReadLatestHash, Goto, tables
    <3>3. HeadInv'
      BY ZenonT(40), <1>0, <3>1, <3>2 DEF TypeOK, ChainInv, HeadInv, IsLatestHash
    <3>4. SeqInv' /\ FreshInv' /\ AckInv'
      BY <1>0, <3>2 DEF TypeOK, ChainInv, SeqInv, FreshInv, AckInv, Decided
    <3>. QED  BY <3>2, <3>3, <3>4 DEF ChainInv
  <2>6. CASE InsertChainRow(w)
    <3>1. CASE Rollback(w)
      BY <1>3, <3>1
    <3>2. CASE ~ Rollback(w)
      <4>1. /\ nextSeq <= MaxSeq /\ pc[w] = "hashed"
            /\ pc' = [pc EXCEPT ![w] = "written"]
            /\ seq' = [seq EXCEPT ![w] = nextSeq] /\ nextSeq' = nextSeq + 1
            /\ UNCHANGED <<evidence_chain, decisions, req, prev, acked>>
        BY <2>6, <3>2 DEF InsertChainRow, Goto, tables
      <4>2. \A v \in Worker : pc'[v] = "written" => v = w
        BY <1>0, <4>1, HolderAlone DEF TypeOK
      <4>3. HeadInv' /\ FreshInv' /\ AckInv'
        BY <1>0, <4>1 DEF TypeOK, ChainInv, HeadInv, FreshInv, AckInv, IsLatestHash,
           Decided
      <4>4. SeqInv'
        BY <1>0, <4>1, <4>2 DEF TypeOK, ChainInv, SeqInv
      <4>. QED  BY <4>1, <4>3, <4>4 DEF ChainInv
    <3>. QED  BY <3>1, <3>2
  <2>7. CASE QueueReview(w)
    BY <1>0, <2>7 DEF TypeOK, ChainInv, HeadInv, SeqInv, FreshInv, AckInv,
       IsLatestHash, Decided, QueueReview, Goto, locals
  <2>8. CASE Respond(w)
    BY ZenonT(40), <1>0, <2>8 DEF TypeOK, ChainInv, HeadInv, SeqInv, FreshInv, AckInv,
       IsLatestHash, Decided, Respond, Forget, tables
  <2>. QED  BY <1>4, <2>1, <2>2, <2>3, <2>4, <2>5, <2>6, <2>7, <2>8 DEF Advance
<1>5. ASSUME NEW w \in Worker, Fail(w) PROVE Quiet
  BY <1>5, <1>3 DEF Fail
<1>6. ASSUME NEW a \in Admin, NEW s \in System, NEW d \in Registered,
             AdminLookup(a, s, d)
      PROVE  Quiet
  BY <1>0, <1>6 DEF ChainInv, HeadInv, SeqInv, FreshInv, AckInv, IsLatestHash,
     Decided, AdminLookup, tables, locals
<1>7. ASSUME NEW a \in Admin, AdminAdvance(a) \/ AdminFail(a) PROVE Quiet
  BY <1>0, <1>7 DEF ChainInv, HeadInv, SeqInv, FreshInv, AckInv, IsLatestHash,
     Decided, AdminAdvance, AdminInsert, AdminCommit, AdminFail, tables, locals
<1>8. CASE UNCHANGED vars \/ \E d \in Domain : AddRule(d)
  <2>1. UNCHANGED <<evidence_chain, decisions, nextSeq, pc, req, prev, seq, acked>>
    BY <1>8 DEF vars, tables, locals, AddRule
  <2>. QED
    BY <1>0, <2>1 DEF ChainInv, HeadInv, SeqInv, FreshInv, AckInv, IsLatestHash, Decided
<1>. QED  BY <1>1, <1>2, <1>4, <1>5, <1>6, <1>7, <1>8 DEF Next

\* Commit extends the chain at its end.
LEMMA CommitIInv ==
    ASSUME IInv, NEW w \in Worker, Commit(w)
    PROVE  ChainInv' /\ ChainLinked' /\ OneRecordPerEvent'
<1> USE EvidenceAssumption DEF Holding, InTx, Committed, history
<1>0. PICK p, n, h : p = req[w] /\ n = seq[w] /\ h = compute_hash(prev[w], p)
  OBVIOUS
<1> DEFINE row == [payload |-> p, previous_hash |-> prev[w], record_hash |-> h,
                   signature |-> sign(KeyOf[w], h)]
<1>1. /\ pc[w] = "written" /\ pc' = [pc EXCEPT ![w] = "committed"]
      /\ decisions' = decisions \cup {p}
      /\ evidence_chain' = [k \in DOMAIN evidence_chain \cup {n} |->
                              IF k = n THEN row ELSE evidence_chain[k]]
      /\ UNCHANGED <<nextSeq, req, prev, seq, acked>>
  BY <1>0 DEF Commit, Goto, locals
<1>2. /\ p \in Payload /\ ~ Decided(p.event) /\ IsLatestHash(prev[w])
      /\ n \in 1..MaxSeq /\ n < nextSeq /\ \A k \in DOMAIN evidence_chain : k < n
      /\ DOMAIN evidence_chain \subseteq Nat
  BY <1>0, <1>1 DEF IInv, TypeOK, HeadInv, SeqInv, FreshInv
<1>3. /\ DOMAIN evidence_chain' = DOMAIN evidence_chain \cup {n}
      /\ evidence_chain'[n].payload = p /\ evidence_chain'[n].record_hash = h
      /\ evidence_chain'[n].previous_hash = prev[w]
      /\ \A k \in DOMAIN evidence_chain : k # n /\ evidence_chain'[k] = evidence_chain[k]
  BY <1>1, <1>2
<1>4. \A v \in Worker : v # w => pc[v] \notin Holding
  BY <1>1, HolderAlone DEF IInv
<1>5. \A v \in Worker : v # w => pc'[v] = pc[v]
  BY <1>1 DEF IInv, TypeOK
<1>6. pc'[w] = "committed"
  BY <1>1 DEF IInv, TypeOK
<1>7. \A v \in Worker : pc'[v] \notin Holding
  BY <1>4, <1>5, <1>6
<1>8. HeadInv' /\ FreshInv'
  BY <1>7 DEF HeadInv, FreshInv
<1>9. SeqInv'
  BY <1>1, <1>2, <1>3, <1>7 DEF IInv, SeqInv
<1>10. AckInv'
  BY <1>0, <1>1, <1>5, <1>6 DEF IInv, TypeOK, AckInv
<1>11. ChainLinked'
  <2>1. ASSUME NEW m \in DOMAIN evidence_chain PROVE Linked(m)'
    <3>1. Linked(m) /\ m < n /\ n \in Nat /\ m \in Nat
      BY <1>2 DEF IInv, ChainLinked
    <3>2. First(m) => First(m)'
      BY <1>3, <3>1 DEF First, GENESIS_HASH
    <3>3. ASSUME NEW j \in DOMAIN evidence_chain, Follows(m, j) PROVE Follows(m, j)'
      BY <1>3, <3>1, <3>3 DEF Follows
    <3>. QED  BY <1>3, <3>1, <3>2, <3>3 DEF Linked, compute_hash
  <2>2. Linked(n)'
    <3>1. CASE DOMAIN evidence_chain = {} /\ prev[w] = GENESIS_HASH
      <4>1. First(n)'
        BY <1>2, <1>3, <3>1 DEF First, GENESIS_HASH
      <4>. QED  BY <1>0, <1>3, <4>1 DEF Linked, compute_hash
    <3>2. ASSUME NEW m \in DOMAIN evidence_chain,
                 \A k \in DOMAIN evidence_chain : k <= m,
                 prev[w] = evidence_chain[m].record_hash
          PROVE  Linked(n)'
      <4>1. Follows(n, m)'
        BY <1>2, <1>3, <3>2 DEF Follows
      <4>. QED  BY <1>0, <1>3, <4>1 DEF Linked, compute_hash
    <3>. QED  BY <1>2, <3>1, <3>2 DEF IsLatestHash
  <2>. QED  BY <1>3, <2>1, <2>2 DEF ChainLinked
<1>12. OneRecordPerEvent'
  <2>1. \A m \in DOMAIN evidence_chain : evidence_chain[m].payload.event # p.event
    BY <1>2 DEF IInv, OneRecordPerEvent, Decided
  <2>2. decisions' = {evidence_chain'[m].payload : m \in DOMAIN evidence_chain'}
    <3>1. decisions = {evidence_chain[m].payload : m \in DOMAIN evidence_chain}
      BY DEF IInv, OneRecordPerEvent
    <3>2. ASSUME NEW q \in decisions'
          PROVE  \E m \in DOMAIN evidence_chain' : q = evidence_chain'[m].payload
      BY <1>1, <1>3, <3>1, <3>2
    <3>3. ASSUME NEW m \in DOMAIN evidence_chain'
          PROVE  evidence_chain'[m].payload \in decisions'
      BY <1>1, <1>3, <3>1, <3>3
    <3>. QED  BY <3>2, <3>3
  <2>3. \A m, k \in DOMAIN evidence_chain' :
          evidence_chain'[m].payload.event = evidence_chain'[k].payload.event => m = k
    BY <1>3, <2>1 DEF IInv, OneRecordPerEvent
  <2>. QED  BY <2>2, <2>3 DEF OneRecordPerEvent
<1>. QED  BY <1>8, <1>9, <1>10, <1>11, <1>12 DEF ChainInv

\* The invariant is inductive.
LEMMA NextIInv == IInv /\ [Next]_vars => IInv'
<1> SUFFICES ASSUME IInv, [Next]_vars PROVE IInv'
  OBVIOUS
<1>1. TypeOK' /\ LockInv'
  BY NextTypeOK, NextLockInv DEF IInv
<1>2. CASE \A w \in Worker : ~ Commit(w)
  BY <1>1, <1>2, QuietChainInv, QuietStep DEF IInv, ChainInv
<1>3. CASE \E w \in Worker : Commit(w)
  BY <1>1, <1>3, CommitIInv DEF IInv, ChainInv
<1>. QED  BY <1>2, <1>3

\* In every behaviour the invariant holds.
LEMMA InvariantHolds == Spec => []IInv
  BY InitIInv, NextIInv, PTL DEF Spec

\* For any number of concurrent requests, the committed rows form one unbroken,
\* unforked hash chain in sequence order.
THEOREM ChainUnbroken == Spec => []ChainLinked
  BY InvariantHolds, PTL DEF IInv

\* A decision event is recorded at most once, and the chain and the operational
\* tables hold the same decisions.
THEOREM RecordedOnce == Spec => []OneRecordPerEvent
  BY InvariantHolds, PTL DEF IInv
-----------------------------------------------------------------------------
(***************************************************************************)
(* Protected attributes: append takes the system row as it saw it, and the *)
(* rules as the resolver finds them, without a lock shared with the admin  *)
(* endpoints.  What saves it is the unique name (while a transaction holds *)
(* an uncommitted row no other can exist, and a committed row never        *)
(* changes), and that rules are never withdrawn.                           *)
(***************************************************************************)
\* Places past ProvisionSystem, where the transaction has its system row.
Bound == {"registered", "inserted", "resolved", "hashed", "written"}

\* A name with an uncommitted row has no committed one.
NameInv == \A s \in System : sysWriter[s] # None => systems[s] = "absent"

\* An uncommitted row belongs to a transaction that will commit or drop it.
WriterInv ==
    /\ \A s \in System, w \in Worker : sysWriter[s] = w =>
          /\ pc[w] \in Bound /\ s = SystemOf[req[w].event] /\ seen[w] = NoDomain
    /\ \A a \in Admin : apc[a] = "inserted" => sysWriter[areq[a].system] = a

\* A row a worker has seen is its own uncommitted one, or is the committed one.
SeenInv == \A w \in Worker :
    /\ pc[w] = "looked_up" /\ seen[w] # "absent" =>
          systems[SystemOf[req[w].event]] = seen[w]
    /\ pc[w] \in Bound =>
          /\ seen[w] # "absent"
          /\ \/ sysWriter[SystemOf[req[w].event]] = w
             \/ systems[SystemOf[req[w].event]] = seen[w]

\* A recorded decision's system is committed.
DecidedInv == \A e \in Event : Decided(e) => systems[SystemOf[e]] # "absent"

SystemInv == NameInv /\ WriterInv /\ SeenInv /\ DecidedInv

\* The initial state satisfies it.
LEMMA InitSystemInv == Init => SystemInv
  BY EvidenceAssumption DEF Init, SystemInv, NameInv, WriterInv, SeenInv, DecidedInv,
     Decided, Bound

\* A step that leaves systems and decisions alone keeps the last part.
LEMMA QuietDecided ==
    ASSUME DecidedInv, UNCHANGED <<systems, decisions>>
    PROVE  DecidedInv'
  BY DEF DecidedInv, Decided

\* An aborted transaction drops its rows and nobody else's.
LEMMA RollbackSystemInv ==
    ASSUME TypeOK, SystemInv, NEW w \in Worker, Rollback(w)
    PROVE  SystemInv'
<1>1. /\ UNCHANGED <<systems, decisions, resolved, apc, areq>>
      /\ pc' = [pc EXCEPT ![w] = "idle"] /\ req' = [req EXCEPT ![w] = None]
      /\ seen' = [seen EXCEPT ![w] = "absent"]
      /\ sysWriter' = [s \in System |-> IF sysWriter[s] = w THEN None ELSE sysWriter[s]]
  BY DEF Rollback, Forget, EndTransaction, tables, admin
<1>2. DecidedInv'
  BY <1>1, QuietDecided DEF SystemInv
<1>3. NameInv'
  BY <1>1 DEF SystemInv, NameInv
<1>4. WriterInv'
  BY <1>1, EvidenceAssumption DEF TypeOK, SystemInv, WriterInv, Bound
<1>5. SeenInv'
  BY <1>1, EvidenceAssumption DEF TypeOK, SystemInv, SeenInv, Bound, Payload
<1>. QED  BY <1>2, <1>3, <1>4, <1>5 DEF SystemInv

\* Commit publishes the transaction's own system row, if it has one.
LEMMA CommitSystemInv ==
    ASSUME IInv, SystemInv, NEW w \in Worker, Commit(w)
    PROVE  SystemInv'
<1>0. PICK p, t : p = req[w] /\ t = SystemOf[req[w].event]
  OBVIOUS
<1>1. /\ pc[w] = "written" /\ pc' = [pc EXCEPT ![w] = "committed"]
      /\ systems' = [s \in System |-> IF sysWriter[s] = w THEN seen[w] ELSE systems[s]]
      /\ decisions' = decisions \cup {p}
      /\ sysWriter' = [s \in System |-> IF sysWriter[s] = w THEN None ELSE sysWriter[s]]
      /\ UNCHANGED <<req, seen, apc, areq>>
  BY <1>0 DEF Commit, Goto, EndTransaction, locals, admin
<1>2. p \in Payload /\ p.event \in Event /\ t = SystemOf[p.event] /\ t \in System
  BY <1>0, <1>1, EvidenceAssumption DEF IInv, TypeOK, Payload
<1>3. \A s \in System : sysWriter[s] = w => s = t /\ systems[s] = "absent"
  BY <1>0, <1>1, EvidenceAssumption DEF IInv, TypeOK, SystemInv, WriterInv, NameInv
<1>4. systems'[t] = seen[w] /\ seen[w] # "absent"
  BY <1>0, <1>1, <1>2 DEF SystemInv, SeenInv, Bound
<1>5. \A s \in System : systems[s] # "absent" => systems'[s] = systems[s]
  BY <1>1, <1>3
<1>6. \A e \in Event : Decided(e)' <=> (Decided(e) \/ e = p.event)
  BY <1>1 DEF Decided
<1>8. NameInv'
  BY <1>1 DEF SystemInv, NameInv
<1>9. WriterInv'
  BY <1>1, EvidenceAssumption DEF IInv, TypeOK, SystemInv, WriterInv, Bound
<1>10. SeenInv'
  <2>1. ASSUME NEW v \in Worker, v # w, pc[v] \in Bound \cup {"looked_up"}
        PROVE  FALSE
    BY <1>1, <2>1, HolderAlone DEF IInv, Bound, Holding
  <2>. QED  BY <1>1, <2>1 DEF IInv, TypeOK, SeenInv, Bound
<1>11. DecidedInv'
  BY <1>2, <1>4, <1>5, <1>6, EvidenceAssumption DEF SystemInv, DecidedInv
<1>. QED  BY <1>8, <1>9, <1>10, <1>11 DEF SystemInv

\* Every step keeps the invariant.
LEMMA NextSystemInv == IInv /\ SystemInv /\ [Next]_vars => SystemInv'
<1> SUFFICES ASSUME IInv, SystemInv, [Next]_vars PROVE SystemInv'
  OBVIOUS
<1> USE EvidenceAssumption DEF Bound
<1>0. TypeOK /\ NameInv /\ WriterInv /\ SeenInv /\ DecidedInv
  BY DEF IInv, SystemInv
<1>1. ASSUME NEW w \in Worker, Rollback(w) PROVE SystemInv'
  BY <1>0, <1>1, RollbackSystemInv
<1>2. ASSUME UNCHANGED <<systems, decisions>>, NameInv', WriterInv', SeenInv'
      PROVE  SystemInv'
  BY <1>0, <1>2, QuietDecided DEF SystemInv
<1>3. ASSUME NEW w \in Worker, NEW e \in Event, NEW s \in Status, Receive(w, e, s)
      PROVE  SystemInv'
  <2>1. /\ pc[w] = "idle" /\ pc' = [pc EXCEPT ![w] = "waiting"]
        /\ req' = [req EXCEPT ![w] = [event |-> e, status |-> s]]
        /\ UNCHANGED <<systems, decisions, sysWriter, seen, apc, areq>>
    BY <1>3 DEF Receive, Goto, tables, admin
  <2>. QED  BY <1>0, <1>2, <2>1 DEF TypeOK, NameInv, WriterInv, SeenInv
<1>4. ASSUME NEW w \in Worker, AcquireLock(w) PROVE SystemInv'
  <2>1. /\ pc[w] = "waiting" /\ pc' = [pc EXCEPT ![w] = "locked"]
        /\ UNCHANGED <<systems, decisions, sysWriter, req, seen, apc, areq>>
    BY <1>4 DEF AcquireLock, Goto, tables, locals, admin
  <2>. QED  BY <1>0, <1>2, <2>1 DEF TypeOK, NameInv, WriterInv, SeenInv
<1>5. ASSUME NEW w \in Worker, LookupSystem(w) PROVE SystemInv'
  <2>1. /\ pc[w] = "locked" /\ pc' = [pc EXCEPT ![w] = "looked_up"]
        /\ seen' = [seen EXCEPT ![w] = systems[SystemOf[req[w].event]]]
        /\ UNCHANGED <<systems, decisions, sysWriter, req, apc, areq>>
    BY <1>5 DEF LookupSystem, Goto, tables, admin
  <2>. QED  BY <1>0, <1>2, <2>1 DEF TypeOK, NameInv, WriterInv, SeenInv
<1>6. ASSUME NEW w \in Worker, ProvisionSystem(w) PROVE SystemInv'
  <2>1. CASE Rollback(w)
    BY <1>1, <2>1
  <2>2. CASE /\ seen[w] # "absent" /\ UNCHANGED <<sysWriter, seen>>
             /\ ProvisionSystem(w) /\ ~ Rollback(w)
    <3>1. /\ pc[w] = "looked_up" /\ pc' = [pc EXCEPT ![w] = "registered"]
          /\ UNCHANGED <<systems, decisions, req, apc, areq>>
      BY <2>2 DEF ProvisionSystem, Goto, tables, locals, admin
    <3>. QED  BY <1>0, <1>2, <2>2, <3>1 DEF TypeOK, NameInv, WriterInv, SeenInv
  <2>3. CASE seen[w] = "absent" /\ ProvisionSystem(w) /\ ~ Rollback(w)
    <3>1. PICK t : t = SystemOf[req[w].event]
      OBVIOUS
    <3>2. /\ pc[w] = "looked_up" /\ pc' = [pc EXCEPT ![w] = "registered"]
          /\ sysWriter[t] = None /\ systems[t] = "absent"
          /\ sysWriter' = [sysWriter EXCEPT ![t] = w]
          /\ seen' = [seen EXCEPT ![w] = NoDomain]
          /\ UNCHANGED <<systems, decisions, req, apc, areq>>
      BY <2>3, <3>1 DEF ProvisionSystem, Goto, tables, admin
    <3>3. t \in System
      BY <3>1, <3>2 DEF TypeOK, Payload, IInv
    <3>4. NameInv'
      BY <1>0, <3>2 DEF TypeOK, NameInv
    <3>5. WriterInv'
      BY <1>0, <3>1, <3>2, <3>3 DEF TypeOK, WriterInv
    <3>6. SeenInv'
      <4>1. ASSUME NEW v \in Worker, v # w, pc[v] \in Bound \cup {"looked_up"}
            PROVE  FALSE
        BY <3>2, <4>1, HolderAlone DEF IInv, Holding
      <4>2. sysWriter'[SystemOf[req[w].event]] = w
        BY <1>0, <3>1, <3>2, <3>3 DEF TypeOK
      <4>. QED  BY <1>0, <3>2, <4>1, <4>2 DEF TypeOK, SeenInv
    <3>. QED  BY <1>2, <3>2, <3>4, <3>5, <3>6
  <2>. QED  BY <1>6, <2>1, <2>2, <2>3 DEF ProvisionSystem, locals
<1>7. ASSUME NEW w \in Worker, InsertDecision(w) \/ ResolveAttributes(w) \/
             ReadLatestHash(w) \/ InsertChainRow(w)
      PROVE  SystemInv'
  <2>1. CASE Rollback(w)
    BY <1>1, <2>1
  <2>2. CASE ~ Rollback(w)
    <3>1. PICK x \in Bound : pc[w] \in Bound /\ pc' = [pc EXCEPT ![w] = x]
      BY <1>7, <2>2 DEF InsertDecision, ResolveAttributes, ReadLatestHash,
         InsertChainRow, Goto
    <3>2. UNCHANGED <<systems, decisions, sysWriter, req, seen, apc, areq>>
      BY <1>7, <2>2 DEF InsertDecision, ResolveAttributes, ReadLatestHash,
         InsertChainRow, tables, locals, admin
    <3>. QED  BY <1>0, <1>2, <3>1, <3>2 DEF TypeOK, NameInv, WriterInv, SeenInv
  <2>. QED  BY <2>1, <2>2
<1>8. ASSUME NEW w \in Worker, QueueReview(w) PROVE SystemInv'
  <2>1. /\ pc[w] = "committed" /\ pc' = [pc EXCEPT ![w] = "queued"]
        /\ UNCHANGED <<systems, decisions, sysWriter, req, seen, apc, areq>>
    BY <1>8 DEF QueueReview, Goto, locals, admin
  <2>. QED  BY <1>0, <1>2, <2>1 DEF TypeOK, NameInv, WriterInv, SeenInv
<1>9. ASSUME NEW w \in Worker, Respond(w) PROVE SystemInv'
  <2>1. /\ pc[w] = "queued" /\ pc' = [pc EXCEPT ![w] = "idle"]
        /\ req' = [req EXCEPT ![w] = None] /\ seen' = [seen EXCEPT ![w] = "absent"]
        /\ UNCHANGED <<systems, decisions, sysWriter, apc, areq>>
    BY <1>9 DEF Respond, Forget, tables, admin
  <2>. QED  BY <1>0, <1>2, <2>1 DEF TypeOK, NameInv, WriterInv, SeenInv
<1>10. ASSUME NEW w \in Worker, Fail(w) PROVE SystemInv'
  BY <1>1, <1>10 DEF Fail
<1>11. ASSUME NEW a \in Admin, NEW s \in System, NEW d \in Registered,
              AdminLookup(a, s, d)
       PROVE  SystemInv'
  <2>1. /\ apc[a] = "idle" /\ apc' = [apc EXCEPT ![a] = "looked_up"]
        /\ areq' = [areq EXCEPT ![a] = [system |-> s, domain |-> d]]
        /\ UNCHANGED <<systems, decisions, sysWriter, pc, req, seen>>
    BY <1>11 DEF AdminLookup, tables, locals
  <2>. QED  BY <1>0, <1>2, <2>1 DEF TypeOK, NameInv, WriterInv, SeenInv
<1>12. ASSUME NEW a \in Admin, AdminInsert(a) PROVE SystemInv'
  <2>1. apc[a] = "looked_up" /\ sysWriter[areq[a].system] = None
        /\ UNCHANGED <<systems, decisions, pc, req, seen>>
    BY <1>12 DEF AdminInsert, tables, locals
  <2>2. CASE AdminDone(a) /\ UNCHANGED sysWriter
    BY <1>0, <1>2, <2>1, <2>2 DEF TypeOK, NameInv, WriterInv, SeenInv, AdminDone
  <2>3. CASE /\ systems[areq[a].system] = "absent" /\ UNCHANGED areq
             /\ apc' = [apc EXCEPT ![a] = "inserted"]
             /\ sysWriter' = [sysWriter EXCEPT ![areq[a].system] = a]
    BY <1>0, <1>2, <2>1, <2>3 DEF TypeOK, NameInv, WriterInv, SeenInv
  <2>. QED  BY <1>12, <2>2, <2>3 DEF AdminInsert
<1>13. ASSUME NEW a \in Admin, AdminCommit(a) PROVE SystemInv'
  <2>1. PICK t, d : t = areq[a].system /\ d = areq[a].domain
    OBVIOUS
  <2>2. /\ apc[a] = "inserted" /\ apc' = [apc EXCEPT ![a] = "idle"]
        /\ areq' = [areq EXCEPT ![a] = None]
        /\ systems' = [systems EXCEPT ![t] = d]
        /\ sysWriter' = [s \in System |-> IF sysWriter[s] = a THEN None ELSE sysWriter[s]]
        /\ UNCHANGED <<decisions, pc, req, seen>>
    BY <1>13, <2>1 DEF AdminCommit, AdminDone, EndTransaction, locals
  <2>3. t \in System /\ d \in Registered /\ sysWriter[t] = a /\ systems[t] = "absent"
    BY <1>0, <2>1, <2>2 DEF TypeOK, WriterInv, NameInv
  <2>4. \A s \in System : systems[s] # "absent" => systems'[s] = systems[s]
    BY <1>0, <2>2, <2>3 DEF TypeOK
  <2>5. NameInv'
    <3>1. ASSUME NEW s \in System, sysWriter'[s] # None PROVE systems'[s] = "absent"
      BY <1>0, <2>2, <2>3, <3>1 DEF TypeOK, NameInv
    <3>. QED  BY <3>1 DEF NameInv
  <2>6. WriterInv'
    BY <1>0, <2>1, <2>2, <2>3 DEF TypeOK, WriterInv
  <2>7. SeenInv'
    <3>1. \A w \in Worker, s \in System : sysWriter[s] = w => sysWriter'[s] = w
      BY <2>2
    <3>2. \A w \in Worker : pc[w] # "idle" => SystemOf[req[w].event] \in System
      BY <1>0 DEF TypeOK, Payload
    <3>. QED  BY <1>0, <2>2, <2>4, <3>1, <3>2 DEF TypeOK, SeenInv
  <2>8. \A e \in Event : Decided(e)' <=> Decided(e)
    BY <2>2 DEF Decided
  <2>9. \A e \in Event : Decided(e) => systems'[SystemOf[e]] = systems[SystemOf[e]]
    BY <1>0, <2>4 DEF DecidedInv
  <2>10. DecidedInv'
    BY <1>0, <2>8, <2>9 DEF DecidedInv
  <2>. QED  BY <2>5, <2>6, <2>7, <2>10 DEF SystemInv
<1>14. ASSUME NEW a \in Admin, AdminFail(a) PROVE SystemInv'
  <2>1. /\ apc' = [apc EXCEPT ![a] = "idle"] /\ areq' = [areq EXCEPT ![a] = None]
        /\ sysWriter' = [s \in System |-> IF sysWriter[s] = a THEN None ELSE sysWriter[s]]
        /\ UNCHANGED <<systems, decisions, pc, req, seen>>
    BY <1>14 DEF AdminFail, AdminDone, EndTransaction, tables, locals
  <2>2. NameInv' /\ SeenInv'
    <3>1. \A w \in Worker : pc[w] # "idle" => SystemOf[req[w].event] \in System
      BY <1>0 DEF TypeOK, Payload
    <3>. QED  BY <1>0, <2>1, <3>1 DEF NameInv, SeenInv
  <2>3. WriterInv'
    BY <1>0, <2>1 DEF TypeOK, WriterInv
  <2>. QED  BY <1>2, <2>1, <2>2, <2>3
<1>15. CASE UNCHANGED vars \/ \E d \in Domain : AddRule(d)
  <2>1. UNCHANGED <<systems, decisions, sysWriter, pc, req, seen, apc, areq>>
    BY <1>15 DEF vars, tables, locals, admin, AddRule
  <2>. QED  BY <1>0, <1>2, <2>1 DEF NameInv, WriterInv, SeenInv
<1>16. ASSUME NEW w \in Worker, Advance(w) PROVE SystemInv'
  BY <1>5, <1>6, <1>7, <1>8, <1>9, <1>16, CommitSystemInv DEF Advance
<1>. QED  BY <1>3, <1>4, <1>10, <1>11, <1>12, <1>13, <1>14, <1>15, <1>16
          DEF Next, AdminAdvance

\* A committed system row never changes, and rules are never withdrawn.
LEMMA Standing ==
    ASSUME IInv, SystemInv, [Next]_vars
    PROVE  /\ ruled \subseteq ruled'
           /\ \A s \in System : systems[s] # "absent" => systems'[s] = systems[s]
<1> DEFINE Stand == /\ ruled \subseteq ruled'
                    /\ \A s \in System : systems[s] # "absent" => systems'[s] = systems[s]
<1>1. ASSUME NEW w \in Worker, Commit(w) PROVE Stand
  <2>1. /\ systems' = [s \in System |-> IF sysWriter[s] = w THEN seen[w] ELSE systems[s]]
        /\ ruled' = ruled
    BY <1>1 DEF Commit
  <2>2. \A s \in System : sysWriter[s] = w => systems[s] = "absent"
    BY EvidenceAssumption DEF SystemInv, NameInv
  <2>. QED  BY <2>1, <2>2
<1>2. ASSUME NEW a \in Admin, AdminCommit(a) PROVE Stand
  <2>1. /\ apc[a] = "inserted" /\ systems' = [systems EXCEPT ![areq[a].system] = areq[a].domain]
        /\ ruled' = ruled
    BY <1>2 DEF AdminCommit
  <2>2. systems[areq[a].system] = "absent"
    BY <2>1, EvidenceAssumption DEF SystemInv, WriterInv, NameInv, IInv, TypeOK
  <2>. QED  BY <2>1, <2>2 DEF IInv, TypeOK
<1>3. CASE /\ \A w \in Worker : ~ Commit(w)
           /\ \A a \in Admin : ~ AdminCommit(a)
  <2>1. UNCHANGED systems /\ ruled \subseteq ruled'
    BY <1>3 DEF Next, Advance, AdminAdvance, vars, tables, Receive, AcquireLock,
       LookupSystem, ProvisionSystem, InsertDecision, ResolveAttributes, ReadLatestHash,
       InsertChainRow, QueueReview, Respond, Fail, Rollback, AdminLookup, AdminInsert,
       AdminFail, AddRule
  <2>. QED  BY <2>1
<1>. QED  BY <1>1, <1>2, <1>3

\* Places between the resolver and the commit.
PastResolver == {"resolved", "hashed", "written"}

\* A system found governed stays governed, and what a worker has flushed fits
\* both the row it works with and what its insert had found.
FlushedInv ==
    /\ \A e \in governed : systems[SystemOf[e]] \in ruled
    /\ \A w \in Worker : pc[w] \in PastResolver =>
          /\ resolving[w] => seen[w] \in ruled
          /\ req[w].event \in governed => resolving[w]

\* The part about the workers, and what carries over to the next state.
Carried(w) ==
    pc'[w] \in PastResolver =>
        /\ pc[w] \in PastResolver /\ req'[w] = req[w]
        /\ seen'[w] = seen[w] /\ resolving'[w] = resolving[w]

\* A step that records nothing and moves nobody past the resolver.
LEMMA QuietRules ==
    ASSUME IInv, SystemInv, FlushedInv, RulesApplied, [Next]_vars,
           UNCHANGED <<governed, decisions, resolved>>, \A w \in Worker : Carried(w)
    PROVE  FlushedInv' /\ RulesApplied'
<1>1. /\ ruled \subseteq ruled'
      /\ \A s \in System : systems[s] # "absent" => systems'[s] = systems[s]
  BY Standing
<1>2. ASSUME NEW e \in Event, systems[SystemOf[e]] \in ruled
      PROVE  systems'[SystemOf[e]] \in ruled'
  BY <1>1, <1>2, EvidenceAssumption DEF IInv, TypeOK
<1>3. governed \subseteq Event /\ resolved \subseteq Event
  BY DEF IInv, TypeOK
<1>4. FlushedInv'
  BY <1>1, <1>2, <1>3 DEF FlushedInv, Carried
<1>5. \A e \in Event : Decided(e)' <=> Decided(e)
  BY DEF Decided
<1>6. RulesApplied'
  BY <1>2, <1>3, <1>5 DEF RulesApplied
<1>. QED  BY <1>4, <1>6

\* Every step keeps what the workers have flushed and what is recorded in line
\* with the rules.
LEMMA NextRules ==
    ASSUME IInv, SystemInv, FlushedInv, RulesApplied, [Next]_vars
    PROVE  FlushedInv' /\ RulesApplied'
<1> USE DEF PastResolver
<1>0. TypeOK /\ LockInv /\ SeenInv /\ NameInv
  BY DEF IInv, SystemInv
<1>1. ASSUME NEW w \in Worker, Rollback(w) PROVE FlushedInv' /\ RulesApplied'
  <2>1. /\ UNCHANGED <<governed, decisions, resolved>>
        /\ pc' = [pc EXCEPT ![w] = "idle"] /\ req' = [req EXCEPT ![w] = None]
        /\ seen' = [seen EXCEPT ![w] = "absent"]
        /\ resolving' = [resolving EXCEPT ![w] = FALSE]
    BY <1>1 DEF Rollback, Forget, tables, history
  <2>2. \A v \in Worker : Carried(v)
    BY <1>0, <2>1 DEF TypeOK, Carried
  <2>. QED  BY <2>1, <2>2, QuietRules
<1>2. ASSUME NEW w \in Worker, NEW y, y \notin PastResolver,
             pc' = [pc EXCEPT ![w] = y],
             \A v \in Worker : v # w => /\ req'[v] = req[v] /\ seen'[v] = seen[v]
                                       /\ resolving'[v] = resolving[v],
             UNCHANGED <<governed, decisions, resolved>>
      PROVE  FlushedInv' /\ RulesApplied'
  <2>1. \A v \in Worker : Carried(v)
    BY <1>0, <1>2 DEF TypeOK, Carried
  <2>. QED  BY <1>2, <2>1, QuietRules
<1>3. ASSUME NEW w \in Worker,
             \/ \E e \in Event, s \in Status : Receive(w, e, s)
             \/ AcquireLock(w) \/ LookupSystem(w) \/ ProvisionSystem(w)
             \/ QueueReview(w) \/ Respond(w)
      PROVE  FlushedInv' /\ RulesApplied'
  <2>1. CASE Rollback(w)
    BY <1>1, <2>1
  <2>2. CASE ~ Rollback(w)
    <3>1. PICK y : y \notin PastResolver /\ pc' = [pc EXCEPT ![w] = y]
      BY <1>3, <2>2 DEF Receive, AcquireLock, LookupSystem, ProvisionSystem, QueueReview,
         Respond, Forget, Goto
    <3>2. UNCHANGED <<governed, decisions, resolved>>
      BY <1>3, <2>2 DEF Receive, AcquireLock, LookupSystem, ProvisionSystem, QueueReview,
         Respond, tables, history
    <3>3. \A v \in Worker : v # w => /\ req'[v] = req[v] /\ seen'[v] = seen[v]
                                     /\ resolving'[v] = resolving[v]
      BY <1>0, <1>3, <2>2 DEF TypeOK, Receive, AcquireLock, LookupSystem, ProvisionSystem,
         QueueReview, Respond, Forget, locals
    <3>. QED  BY <1>2, <3>1, <3>2, <3>3
  <2>. QED  BY <2>1, <2>2
<1>4. ASSUME NEW w \in Worker, InsertDecision(w) PROVE FlushedInv' /\ RulesApplied'
  <2>1. CASE Rollback(w)
    BY <1>1, <2>1
  <2>2. CASE ~ Rollback(w)
    <3>1. PICK e : e = req[w].event
      OBVIOUS
    <3>2. /\ pc[w] = "registered" /\ pc' = [pc EXCEPT ![w] = "inserted"]
          /\ governed' = IF systems[SystemOf[e]] \in ruled THEN governed \cup {e} ELSE governed
          /\ UNCHANGED <<systems, ruled, decisions, resolved, req, seen, resolving>>
          /\ ~ Decided(e)
      BY <1>4, <2>2, <3>1 DEF InsertDecision, NoteGoverned, Goto, tables, locals
    <3>3. \A v \in Worker : pc'[v] \notin PastResolver
      BY <1>0, <3>2, HolderAlone DEF TypeOK, Holding
    <3>4. FlushedInv'
      BY <3>2, <3>3 DEF FlushedInv
    <3>5. RulesApplied'
      BY <3>2 DEF RulesApplied, Decided
    <3>. QED  BY <3>4, <3>5
  <2>. QED  BY <2>1, <2>2
<1>5. ASSUME NEW w \in Worker, ResolveAttributes(w) PROVE FlushedInv' /\ RulesApplied'
  <2>1. CASE Rollback(w)
    BY <1>1, <2>1
  <2>2. CASE ~ Rollback(w)
    <3>1. /\ pc[w] = "inserted" /\ pc' = [pc EXCEPT ![w] = "resolved"]
          /\ resolving' = [resolving EXCEPT ![w] = seen[w] \in ruled]
          /\ UNCHANGED <<systems, ruled, governed, decisions, resolved, req, seen>>
      BY <1>5, <2>2 DEF ResolveAttributes, Goto, tables, history
    <3>2. \A v \in Worker : pc'[v] \in PastResolver => v = w
      BY <1>0, <3>1, HolderAlone DEF TypeOK, Holding
    <3>3. ASSUME req[w].event \in governed PROVE seen[w] \in ruled
      <4>1. systems[SystemOf[req[w].event]] \in ruled /\ SystemOf[req[w].event] \in System
        BY <1>0, <3>3, EvidenceAssumption DEF FlushedInv, TypeOK
      <4>2. systems[SystemOf[req[w].event]] # "absent"
        BY <1>0, <4>1, EvidenceAssumption DEF TypeOK
      <4>3. sysWriter[SystemOf[req[w].event]] # w
        BY <1>0, <4>1, <4>2, EvidenceAssumption DEF NameInv
      <4>. QED  BY <1>0, <3>1, <4>1, <4>3 DEF SeenInv, Bound
    <3>4. resolving'[w] = (seen[w] \in ruled)
      BY <1>0, <3>1 DEF TypeOK
    <3>5. FlushedInv'
      BY <3>1, <3>2, <3>3, <3>4 DEF FlushedInv
    <3>6. RulesApplied'
      BY <3>1 DEF RulesApplied, Decided
    <3>. QED  BY <3>5, <3>6
  <2>. QED  BY <2>1, <2>2
<1>6. ASSUME NEW w \in Worker, ReadLatestHash(w) \/ InsertChainRow(w)
      PROVE  FlushedInv' /\ RulesApplied'
  <2>1. CASE Rollback(w)
    BY <1>1, <2>1
  <2>2. CASE ~ Rollback(w)
    <3>1. PICK y : pc[w] \in PastResolver /\ pc' = [pc EXCEPT ![w] = y]
      BY <1>6, <2>2 DEF ReadLatestHash, InsertChainRow, Goto
    <3>2. UNCHANGED <<governed, decisions, resolved, req, seen, resolving>>
      BY <1>6, <2>2 DEF ReadLatestHash, InsertChainRow, tables, history
    <3>3. \A v \in Worker : Carried(v)
      BY <1>0, <3>1, <3>2 DEF TypeOK, Carried
    <3>. QED  BY <3>2, <3>3, QuietRules
  <2>. QED  BY <2>1, <2>2
<1>7. ASSUME NEW w \in Worker, Commit(w) PROVE FlushedInv' /\ RulesApplied'
  <2>1. PICK e : e = req[w].event
    OBVIOUS
  <2>2. /\ pc[w] = "written" /\ pc' = [pc EXCEPT ![w] = "committed"]
        /\ decisions' = decisions \cup {req[w]}
        /\ resolved' = IF resolving[w] THEN resolved \cup {e} ELSE resolved
        /\ systems' = [s \in System |-> IF sysWriter[s] = w THEN seen[w] ELSE systems[s]]
        /\ UNCHANGED <<ruled, governed>>
    BY <1>7, <2>1 DEF Commit, Goto, history
  <2>3. e \in Event /\ SystemOf[e] \in System
    BY <1>0, <2>1, <2>2, EvidenceAssumption DEF TypeOK, Payload
  <2>4. /\ resolving[w] => seen[w] \in ruled
        /\ e \in governed => resolving[w]
    BY <2>1, <2>2 DEF FlushedInv
  <2>5. systems'[SystemOf[e]] = seen[w]
    BY <1>0, <2>1, <2>2, <2>3 DEF SeenInv, Bound
  <2>6. \A x \in Event : Decided(x)' <=> Decided(x) \/ x = e
    BY <2>1, <2>2 DEF Decided
  <2>7. ASSUME NEW x \in Event, systems[SystemOf[x]] \in ruled
        PROVE  systems'[SystemOf[x]] \in ruled'
    BY <1>0, <2>2, <2>7, Standing, EvidenceAssumption DEF TypeOK
  <2>8. governed \subseteq Event /\ resolved \subseteq Event
    BY <1>0 DEF TypeOK
  <2>9. \A v \in Worker : pc'[v] \notin PastResolver
    BY <1>0, <2>2, HolderAlone DEF TypeOK, Holding
  <2>10. FlushedInv'
    BY <2>2, <2>7, <2>8, <2>9 DEF FlushedInv
  <2>11. ASSUME NEW x \in governed', Decided(x)' PROVE x \in resolved'
    <3>1. x \in governed /\ x \in Event
      BY <2>2, <2>8, <2>11
    <3>2. Decided(x) \/ x = e
      BY <2>6, <2>11, <3>1
    <3>. QED  BY <2>2, <2>4, <3>1, <3>2 DEF RulesApplied
  <2>12. ASSUME NEW x \in resolved'
         PROVE  Decided(x)' /\ systems'[SystemOf[x]] \in ruled'
    <3>1. CASE x \in resolved
      BY <2>6, <2>7, <2>8, <3>1 DEF RulesApplied
    <3>2. CASE x \notin resolved
      <4>1. x = e /\ resolving[w]
        BY <2>2, <2>12, <3>2
      <4>. QED  BY <2>2, <2>3, <2>4, <2>5, <2>6, <4>1
    <3>. QED  BY <3>1, <3>2
  <2>13. RulesApplied'
    BY <2>11, <2>12 DEF RulesApplied
  <2>. QED  BY <2>10, <2>13
<1>8. CASE \/ UNCHANGED vars
           \/ \E d \in Domain : AddRule(d)
           \/ \E a \in Admin :
                 \/ \E s \in System, d \in Registered : AdminLookup(a, s, d)
                 \/ AdminAdvance(a) \/ AdminFail(a)
  <2>1. UNCHANGED <<governed, decisions, resolved, pc, req, seen, resolving>>
    BY <1>8 DEF vars, tables, locals, history, AddRule, AdminLookup, AdminAdvance,
       AdminInsert, AdminCommit, AdminFail
  <2>2. \A v \in Worker : Carried(v)
    BY <2>1 DEF Carried
  <2>. QED  BY <2>1, <2>2, QuietRules
<1>9. ASSUME NEW w \in Worker, Fail(w) PROVE FlushedInv' /\ RulesApplied'
  BY <1>1, <1>9 DEF Fail
<1>. QED  BY <1>3, <1>4, <1>5, <1>6, <1>7, <1>8, <1>9 DEF Next, Advance

\* In every behaviour a decision has its protected attributes resolved if its
\* system had rules when its row was inserted, and only if its system has rules.
THEOREM AttributesResolved == Spec => []RulesApplied
<1> DEFINE Inv == IInv /\ SystemInv /\ FlushedInv /\ RulesApplied
<1>1. Inv /\ [Next]_vars => Inv'
  BY NextIInv, NextSystemInv, NextRules
<1>2. Init => Inv
  <2>1. Init => FlushedInv /\ RulesApplied
    BY DEF Init, FlushedInv, RulesApplied, PastResolver
  <2>. QED  BY <2>1, InitIInv, InitSystemInv
<1>3. Inv => RulesApplied
  OBVIOUS
<1> HIDE DEF Inv
<1>. QED  BY <1>1, <1>2, <1>3, PTL DEF Spec

-----------------------------------------------------------------------------
(***************************************************************************)
(* The refinement: Commit records, Respond acknowledges, the rest stutter. *)
(***************************************************************************)
\* The ledger the chain implements, written out.
Positions == [n \in DOMAIN evidence_chain |-> evidence_chain[n].payload]

\* The initial state is an empty ledger.
LEMMA InitLedger == Init => Ledger!Init
  BY DEF Init, Ledger!Init

\* Committing records the payload at a position above all others.
LEMMA CommitRecords ==
    ASSUME IInv, NEW w \in Worker, Commit(w)
    PROVE  \E n \in 1..MaxSeq, p \in Payload : Ledger!Record(n, p)
<1>0. PICK p, n : p = req[w] /\ n = seq[w]
  OBVIOUS
<1>1. /\ pc[w] = "written" /\ acked' = acked
      /\ evidence_chain' = [k \in DOMAIN evidence_chain \cup {n} |->
             IF k = n THEN [payload |-> p, previous_hash |-> prev[w],
                            record_hash |-> compute_hash(prev[w], p),
                            signature |-> sign(KeyOf[w], compute_hash(prev[w], p))]
                      ELSE evidence_chain[k]]
  BY <1>0 DEF Commit, Goto, history
<1>2. /\ p \in Payload /\ ~ Decided(p.event) /\ n \in 1..MaxSeq
      /\ \A k \in DOMAIN evidence_chain : k < n
  BY <1>0, <1>1 DEF IInv, TypeOK, FreshInv, SeqInv
<1>3. \A k \in DOMAIN evidence_chain : evidence_chain[k].payload.event # p.event
  BY <1>2 DEF IInv, OneRecordPerEvent, Decided
<1>4. Positions' = [k \in DOMAIN Positions \cup {n} |->
                      IF k = n THEN p ELSE Positions[k]]
  BY <1>1, <1>2 DEF Positions
<1>5. \A k \in DOMAIN Positions : k < n /\ Positions[k].event # p.event
  BY <1>2, <1>3 DEF Positions
<1>6. Ledger!Record(n, p)
  BY <1>1, <1>4, <1>5 DEF Ledger!Record, Positions
<1>. QED  BY <1>2, <1>6

\* Returning from append acknowledges a recorded payload.
LEMMA RespondAcknowledges ==
    ASSUME IInv, NEW w \in Worker, Respond(w)
    PROVE  \E p \in Payload : Ledger!Acknowledge(p)
<1>1. /\ pc[w] = "queued" /\ acked' = acked \cup {req[w]}
      /\ UNCHANGED evidence_chain
  BY DEF Respond, tables
<1>2. req[w] \in Payload /\ req[w] \in decisions
  BY <1>1 DEF IInv, TypeOK, AckInv, Committed
<1>3. \E n \in DOMAIN evidence_chain : evidence_chain[n].payload = req[w]
  BY <1>2 DEF IInv, OneRecordPerEvent
<1>4. Ledger!Acknowledge(req[w])
  BY <1>1, <1>3 DEF Ledger!Acknowledge
<1>. QED  BY <1>2, <1>4

\* Every other step leaves the acknowledgements alone.
LEMMA OthersStutter ==
    ASSUME IInv, [Next]_vars, \A w \in Worker : ~ Commit(w) /\ ~ Respond(w)
    PROVE  UNCHANGED Ledger!vars
<1>1. UNCHANGED evidence_chain
  BY QuietChainInv
<1>2. UNCHANGED acked
  <2>1. ASSUME NEW w \in Worker, Advance(w) PROVE UNCHANGED acked
    BY <2>1 DEF Advance, LookupSystem, ProvisionSystem, InsertDecision,
       ResolveAttributes, ReadLatestHash, InsertChainRow, QueueReview, Rollback, history
  <2>2. ASSUME NEW a \in Admin, AdminAdvance(a) \/ AdminFail(a) PROVE UNCHANGED acked
    BY <2>2 DEF AdminAdvance, AdminInsert, AdminCommit, AdminFail, history
  <2>. QED  BY <2>1, <2>2 DEF Next, Receive, AcquireLock, Fail, Rollback, AdminLookup,
            AddRule, history, vars
<1>. QED  BY <1>1, <1>2 DEF Ledger!vars

\* append implements the abstract ledger: decisions are recorded one at a time
\* at the end, at most once per event, for good, and acknowledged only when
\* recorded.
THEOREM ImplementsLedger == Spec => LedgerSpec
<1>1. IInv /\ [Next]_vars => [Ledger!Next]_(Ledger!vars)
  <2> SUFFICES ASSUME IInv, [Next]_vars PROVE [Ledger!Next]_(Ledger!vars)
    OBVIOUS
  <2>1. CASE \E w \in Worker : Commit(w)
    BY <2>1, CommitRecords DEF Ledger!Next, Payload, Ledger!Payload
  <2>2. CASE \E w \in Worker : Respond(w)
    BY <2>2, RespondAcknowledges DEF Ledger!Next, Payload, Ledger!Payload
  <2>3. CASE \A w \in Worker : ~ Commit(w) /\ ~ Respond(w)
    BY <2>3, OthersStutter
  <2>. QED  BY <2>1, <2>2, <2>3
<1>. QED  BY <1>1, InitLedger, InvariantHolds, PTL DEF Spec, LedgerSpec, Ledger!Spec

-----------------------------------------------------------------------------
(***************************************************************************)
(* The verifier, for chains of any length.  Rows are listed by an          *)
(* ascending bijection from 1 .. n, which exists by induction on the       *)
(* numbers.  The prover cannot instantiate the library's induction         *)
(* theorems; the least element of a set of numbers stands in for them.     *)
(***************************************************************************)
\* Every set of natural numbers but the empty one has a least element.
LEMMA LeastNumber ==
    ASSUME NEW T \in SUBSET Nat, T # {}
    PROVE  \E x \in T : \A y \in T : x <= y
<1>1. \E x \in T : \A y \in T : ~ (<<y, x>> \in OpToRel(<, Nat))
  <2>1. IsWellFoundedOn(OpToRel(<, Nat), Nat)
    BY NatLessThanWellFounded
  <2> HIDE DEF OpToRel
  <2> QED  BY <2>1, WFMin
<1>2. \A x, y \in Nat : x < y => <<x, y>> \in OpToRel(<, Nat)
  BY DEF OpToRel
<1>3. \E x \in T : \A y \in T : ~ (y < x)
  BY <1>1, <1>2
<1> QED  BY <1>3

\* Induction, over a set: the least number outside of I is neither 0 nor the
\* successor of another one.
LEMMA SetInduction ==
    ASSUME NEW I, 0 \in I, \A n \in Nat : n \in I => n + 1 \in I
    PROVE  \A n \in Nat : n \in I
<1> SUFFICES ASSUME Nat \ I # {} PROVE FALSE
  OBVIOUS
<1>1. PICK x \in Nat \ I : \A y \in Nat \ I : x <= y
  BY LeastNumber
<1>2. x - 1 \in Nat /\ x - 1 \in I /\ x = (x - 1) + 1
  BY <1>1
<1> QED  BY <1>1, <1>2

\* The rows can be listed in order at the positions 1 .. n.
Numbered(rows, n) == \E f \in Bijection(1 .. n, rows) : InOrder(f)

\* The rows of a chain can be listed in order: those numbered below k.
LEMMA RowsInOrder ==
    ASSUME NEW k \in Nat
    PROVE  \A rows \in SUBSET (0 .. k - 1) : \E n \in Nat : Numbered(rows, n)
<1> DEFINE I == {m \in Nat : \A rows \in SUBSET (0 .. m - 1) : \E n \in Nat : Numbered(rows, n)}
<1>1. 0 \in I
  <2> SUFFICES ASSUME NEW rows \in SUBSET (0 .. 0 - 1) PROVE Numbered(rows, 0)
    OBVIOUS
  <2> DEFINE f == [i \in 1 .. 0 |-> i]
  <2>1. rows = {} /\ 1 .. 0 = {}
    OBVIOUS
  <2>2. f \in Bijection(1 .. 0, rows) /\ InOrder(f)
    BY <2>1 DEF Bijection, Injection, Surjection, IsInjective, InOrder
  <2> QED  BY <2>2 DEF Numbered
<1>2. ASSUME NEW m \in Nat, m \in I PROVE m + 1 \in I
  <2> SUFFICES ASSUME NEW rows \in SUBSET (0 .. m + 1 - 1)
               PROVE  \E n \in Nat : Numbered(rows, n)
    OBVIOUS
  <2>1. rows \ {m} \in SUBSET (0 .. m - 1)
    OBVIOUS
  <2>2. PICK n \in Nat : Numbered(rows \ {m}, n)
    BY <1>2, <2>1
  <2>3. CASE m \notin rows
    BY <2>2, <2>3, rows \ {m} = rows
  <2>4. CASE m \in rows
    <3>1. PICK f \in Bijection(1 .. n, rows \ {m}) : InOrder(f)
      BY <2>2 DEF Numbered
    <3> DEFINE g == [i \in 1 .. n + 1 |-> IF i = n + 1 THEN m ELSE f[i]]
    <3>2. /\ f \in [1 .. n -> rows \ {m}]
          /\ \A i, j \in 1 .. n : i < j => f[i] < f[j]
          /\ \A x \in rows \ {m} : \E i \in 1 .. n : f[i] = x
      BY <3>1 DEF Bijection, Injection, Surjection, InOrder
    <3>3. g \in [1 .. n + 1 -> rows]
      BY <2>4, <3>2
    <3>4. \A i, j \in 1 .. n + 1 : i < j => g[i] < g[j]
      <4> SUFFICES ASSUME NEW i \in 1 .. n + 1, NEW j \in 1 .. n + 1, i < j
                   PROVE  g[i] < g[j]
        OBVIOUS
      <4>0. i \in 1 .. n /\ i # n + 1
        OBVIOUS
      <4>1. g[i] = f[i] /\ f[i] \in 0 .. m - 1
        BY <2>1, <3>2, <4>0
      <4>2. CASE j = n + 1
        BY <4>1, <4>2
      <4>3. CASE j \in 1 .. n
        BY <3>2, <4>0, <4>3
      <4> HIDE DEF g
      <4> QED  BY <4>2, <4>3
    <3>5. \A x \in rows : \E i \in 1 .. n + 1 : g[i] = x
      <4> SUFFICES ASSUME NEW x \in rows PROVE \E i \in 1 .. n + 1 : g[i] = x
        OBVIOUS
      <4>1. CASE x = m
        BY <4>1, g[n + 1] = x
      <4>2. CASE x # m
        <5>1. PICK i \in 1 .. n : f[i] = x
          BY <3>2, <4>2
        <5> QED  BY <5>1, g[i] = x
      <4> QED  BY <4>1, <4>2
    <3>6. InOrder(g)
      BY <3>3, <3>4 DEF InOrder
    <3>7. IsInjective(g)
      <4>0. \A x \in rows : x \in Nat
        OBVIOUS
      <4>1. DOMAIN g = 1 .. n + 1 /\ \A i \in 1 .. n + 1 : g[i] \in Nat
        BY <3>3, <4>0
      <4> SUFFICES ASSUME NEW i \in 1 .. n + 1, NEW j \in 1 .. n + 1, g[i] = g[j]
                   PROVE  i = j
        BY <4>1 DEF IsInjective
      <4> HIDE DEF g
      <4>2. ~ (i < j) /\ ~ (j < i)
        BY <3>4, <4>1
      <4> QED  BY <4>2
    <3> HIDE DEF g
    <3> QED  BY <3>3, <3>5, <3>6, <3>7 DEF Numbered, Bijection, Injection, Surjection
  <2> QED  BY <2>3, <2>4
<1> HIDE DEF I
<1>3. k \in I
  BY <1>1, <1>2, SetInduction
<1> QED  BY <1>3 DEF I

\* Listing the rows needs no other length than their number.
LEMMA RowCount ==
    ASSUME NEW rows, NEW n \in Nat, Numbered(rows, n)
    PROVE  IsFiniteSet(rows) /\ Cardinality(rows) = n
<1>1. ExistsBijection(1 .. n, rows)
  BY DEF Numbered, ExistsBijection
<1>2. IsFiniteSet(1 .. n) /\ Cardinality(1 .. n) = n
  BY FS_Interval
<1> QED  BY <1>1, <1>2, FS_Bijection

-----------------------------------------------------------------------------
(***************************************************************************)
(* From ChainLinked, a property of rows with gaps between their numbers,   *)
(* to a sequence each of whose records continues the one before it: this   *)
(* is all that the verdicts below rest on.                                 *)
(***************************************************************************)
\* The rows as all() lists them.
LEMMA AllListed ==
    ASSUME TypeOK, SeqInv
    PROVE  \E n \in Nat : \E f \in Bijection(1 .. n, DOMAIN evidence_chain) :
              InOrder(f) /\ all = [i \in 1 .. n |-> Record(f[i])]
<1> DEFINE rows == DOMAIN evidence_chain
           N == Cardinality(rows)
           f == CHOOSE g \in Bijection(1 .. N, rows) : InOrder(g)
<1>1. nextSeq \in Nat /\ rows \in SUBSET (0 .. nextSeq - 1)
  BY DEF TypeOK, SeqInv
<1>2. \E n \in Nat : Numbered(rows, n)
  BY <1>1, RowsInOrder
<1>3. N \in Nat /\ \E g \in Bijection(1 .. N, rows) : InOrder(g)
  BY <1>2, RowCount DEF Numbered
<1>4. f \in Bijection(1 .. N, rows) /\ InOrder(f)
  BY <1>3
<1>5. DOMAIN f = 1 .. N
  BY <1>4 DEF Bijection, Injection
<1>6. all = [i \in DOMAIN f |-> Record(f[i])]
  BY DEF all
<1> HIDE DEF f, N
<1> QED  BY <1>3, <1>4, <1>5, <1>6

\* What every row signs.
SignedInv == \A n \in DOMAIN evidence_chain :
    evidence_chain[n].signature[2] = evidence_chain[n].record_hash

\* What all() returns a sequence of.
EvidenceRecord == [sequence_number : Nat, payload : Payload, previous_hash : Hash,
                   record_hash : Hash, signature : Key \X Hash]

\* A sequence of records without a fault.
Link(records, i) ==
    /\ records[i].previous_hash = IF i = 1 THEN GENESIS_HASH ELSE records[i-1].record_hash
    /\ records[i].record_hash = compute_hash(records[i].previous_hash, records[i].payload)
    /\ records[i].signature[2] = records[i].record_hash
Chained(records) ==
    /\ records \in Seq(EvidenceRecord)
    /\ \A i \in 1 .. Len(records) : Link(records, i)

\* The rows in order are such a sequence.
LEMMA AllChained ==
    ASSUME TypeOK, SeqInv, ChainLinked, SignedInv
    PROVE  Chained(all)
<1>1. PICK N \in Nat : \E f \in Bijection(1 .. N, DOMAIN evidence_chain) :
              InOrder(f) /\ all = [i \in 1 .. N |-> Record(f[i])]
  BY AllListed
<1>2. PICK f \in Bijection(1 .. N, DOMAIN evidence_chain) :
              InOrder(f) /\ all = [i \in 1 .. N |-> Record(f[i])]
  BY <1>1
<1>3. /\ f \in [1 .. N -> DOMAIN evidence_chain]
      /\ \A i, j \in 1 .. N : i < j => f[i] < f[j]
      /\ \A n \in DOMAIN evidence_chain : \E i \in 1 .. N : f[i] = n
  BY <1>2 DEF Bijection, Injection, Surjection, InOrder
<1>4. \A i \in 1 .. N : f[i] \in DOMAIN evidence_chain /\ f[i] \in Nat
  BY <1>3 DEF TypeOK
<1>5. \A n \in DOMAIN evidence_chain : n \in Nat /\ evidence_chain[n] \in ChainRow
  BY DEF TypeOK
<1>6. \A i \in 1 .. N : Record(f[i]) \in EvidenceRecord
  <2> SUFFICES ASSUME NEW i \in 1 .. N PROVE Record(f[i]) \in EvidenceRecord
    OBVIOUS
  <2>1. f[i] \in Nat /\ evidence_chain[f[i]] \in ChainRow
    BY <1>4, <1>5
  <2> QED  BY <2>1 DEF Record, EvidenceRecord, ChainRow
<1>7. all \in Seq(EvidenceRecord) /\ Len(all) = N
  BY <1>2, <1>6
<1>8. ASSUME NEW i \in 1 .. N PROVE Link(all, i)
  <2> DEFINE n == f[i]
             row == evidence_chain[n]
  <2>1. n \in DOMAIN evidence_chain /\ n \in Nat
    BY <1>4
  <2>2. /\ all[i].previous_hash = row.previous_hash /\ all[i].record_hash = row.record_hash
        /\ all[i].payload = row.payload /\ all[i].signature = row.signature
    BY <1>2 DEF Record
  <2>3. /\ row.record_hash = compute_hash(row.previous_hash, row.payload)
        /\ row.signature[2] = row.record_hash
        /\ First(n) \/ \E m \in DOMAIN evidence_chain : Follows(n, m)
    BY <2>1 DEF ChainLinked, Linked, SignedInv
  <2>4. CASE i = 1
    <3>1. \A k \in DOMAIN evidence_chain : n <= k
      <4> SUFFICES ASSUME NEW k \in DOMAIN evidence_chain PROVE n <= k
        OBVIOUS
      <4>1. PICK j \in 1 .. N : f[j] = k
        BY <1>3
      <4>2. f[j] \in Nat /\ (i < j => n < f[j])
        BY <1>3, <1>4
      <4>3. CASE i < j
        BY <2>1, <4>1, <4>2, <4>3
      <4>4. CASE j = i
        BY <2>1, <4>1, <4>4
      <4> HIDE DEF n
      <4> QED  BY <2>4, <4>3, <4>4
    <3>2. \A m \in DOMAIN evidence_chain : m \in Nat /\ ~ (m < n)
      <4> HIDE DEF n
      <4> QED  BY <1>5, <2>1, <3>1
    <3>3. First(n)
      BY <2>3, <3>2 DEF Follows
    <3>4. row.previous_hash = GENESIS_HASH
      BY <3>3 DEF First
    <3> QED  BY <2>2, <2>3, <2>4, <3>4 DEF Link
  <2>5. CASE i # 1
    <3>1. i - 1 \in 1 .. N /\ i - 1 < i
      BY <2>5
    <3> DEFINE m == f[i - 1]
    <3>2. m \in DOMAIN evidence_chain /\ m \in Nat /\ m < n
      BY <1>3, <1>4, <3>1
    <3>3. \A k \in DOMAIN evidence_chain : k < n => k <= m
      <4> SUFFICES ASSUME NEW k \in DOMAIN evidence_chain, k < n PROVE k <= m
        OBVIOUS
      <4>1. PICK j \in 1 .. N : f[j] = k
        BY <1>3
      <4>2. k \in Nat
        BY <1>5
      <4>3. CASE i - 1 < j
        <5>1. j = i \/ i < j
          BY <4>3
        <5>2. j = i => k = n
          BY <4>1
        <5>3. i < j => n < k
          BY <1>3, <4>1
        <5> HIDE DEF n
        <5> QED  BY <2>1, <4>2, <5>1, <5>2, <5>3
      <4>4. CASE j < i - 1
        <5>1. k < m
          BY <1>3, <3>1, <4>1, <4>4
        <5> HIDE DEF m
        <5> QED  BY <3>2, <4>2, <5>1
      <4>5. CASE j = i - 1
        <5>1. k = m
          BY <4>1, <4>5
        <5> HIDE DEF m
        <5> QED  BY <3>2, <5>1
      <4> QED  BY <4>3, <4>4, <4>5
    <3> HIDE DEF n, m
    <3>4. ~ First(n)
      BY <2>1, <3>2 DEF First
    <3>5. \A x \in DOMAIN evidence_chain : Follows(n, x) => x = m
      <4> SUFFICES ASSUME NEW x \in DOMAIN evidence_chain, Follows(n, x) PROVE x = m
        OBVIOUS
      <4>1. x \in Nat /\ x < n /\ m <= x
        BY <1>5, <3>2 DEF Follows
      <4>2. x <= m
        BY <3>3, <4>1
      <4> QED  BY <3>2, <4>1, <4>2
    <3>6. row.previous_hash = evidence_chain[m].record_hash
      BY <2>3, <3>4, <3>5 DEF Follows
    <3>7. all[i - 1].record_hash = evidence_chain[m].record_hash
      BY <1>2, <3>1 DEF Record, m
    <3> HIDE DEF row
    <3> QED  BY <2>2, <2>3, <2>5, <3>6, <3>7 DEF Link
  <2> QED  BY <2>4, <2>5
<1> QED  BY <1>7, <1>8 DEF Chained

\* A sequence without a fault is valid, and only one without.
LEMMA Accepts ==
    ASSUME NEW records, NEW key
    PROVE  /\ verify_chain(records, key).valid \in BOOLEAN
           /\ verify_chain(records, key).valid <=>
                 \A i \in DOMAIN records : ~ Faulty(records, i, key)
<1> DEFINE faults == {i \in DOMAIN records : Faulty(records, i, key)}
<1>1. CASE faults = {}
  <2>1. verify_chain(records, key) =
          [valid |-> TRUE, checked_count |-> Len(records), first_corruption_at |-> 0]
    BY <1>1 DEF verify_chain
  <2>2. verify_chain(records, key).valid = TRUE
    BY <2>1
  <2> QED  BY <1>1, <2>2
<1>2. CASE faults # {}
  <2>1. verify_chain(records, key) =
          [valid |-> FALSE, checked_count |-> Min(faults) - 1,
           first_corruption_at |-> records[Min(faults)].sequence_number]
    BY <1>2 DEF verify_chain
  <2>2. verify_chain(records, key).valid = FALSE
    BY <2>1
  <2> QED  BY <1>2, <2>2
<1> QED  BY <1>1, <1>2

\* Otherwise the verdict names the first fault.
LEMMA Locates ==
    ASSUME NEW records, NEW key, DOMAIN records \subseteq Nat,
           NEW i \in DOMAIN records, Faulty(records, i, key),
           \A j \in DOMAIN records : j < i => ~ Faulty(records, j, key)
    PROVE  verify_chain(records, key)
             = [valid |-> FALSE, checked_count |-> i - 1,
                first_corruption_at |-> records[i].sequence_number]
<1> DEFINE faults == {j \in DOMAIN records : Faulty(records, j, key)}
<1>1. i \in faults /\ faults \subseteq Nat
  OBVIOUS
<1>2. \A j \in faults : i <= j
  <2> SUFFICES ASSUME NEW j \in faults PROVE i <= j
    OBVIOUS
  <2>1. j \in DOMAIN records /\ ~ (j < i) /\ j \in Nat /\ i \in Nat
    OBVIOUS
  <2> QED  BY <2>1
<1>3. Min(faults) = i
  <2> HIDE DEF faults
  <2>1. \A x \in faults : (\A y \in faults : x <= y) => x = i
    <3> SUFFICES ASSUME NEW x \in faults, \A y \in faults : x <= y PROVE x = i
      OBVIOUS
    <3>1. x <= i /\ i <= x /\ x \in Nat /\ i \in Nat
      BY <1>1, <1>2
    <3> QED  BY <3>1
  <2> QED  BY <1>1, <1>2, <2>1 DEF Min
<1> QED  BY <1>1, <1>3 DEF verify_chain

\* A hash is neither the one it extends nor the genesis hash.
LEMMA HashLonger ==
    ASSUME NEW h \in Hash, NEW p \in Payload
    PROVE  compute_hash(h, p) # h /\ compute_hash(h, p) # GENESIS_HASH
  BY DEF Hash, compute_hash, GENESIS_HASH

\* Hashing is injective in both arguments.
LEMMA HashInjective ==
    ASSUME NEW h \in Hash, NEW p \in Payload, NEW g \in Hash, NEW q \in Payload,
           compute_hash(h, p) = compute_hash(g, q)
    PROVE  h = g /\ p = q
  BY DEF Hash, compute_hash

\* The columns of a chained record.
LEMMA ChainedColumns ==
    ASSUME NEW records, Chained(records)
    PROVE  /\ DOMAIN records = 1 .. Len(records) /\ Len(records) \in Nat
           /\ \A i \in 1 .. Len(records) :
                 /\ records[i] \in EvidenceRecord /\ records[i].payload \in Payload
                 /\ records[i].previous_hash \in Hash /\ records[i].record_hash \in Hash
                 /\ records[i].sequence_number \in Nat /\ records[i].signature \in Key \X Hash
<1>1. /\ DOMAIN records = 1 .. Len(records) /\ Len(records) \in Nat
      /\ \A i \in 1 .. Len(records) : records[i] \in EvidenceRecord
  BY DEF Chained
<1>2. \A r \in EvidenceRecord :
         /\ r.payload \in Payload /\ r.previous_hash \in Hash /\ r.record_hash \in Hash
         /\ r.sequence_number \in Nat /\ r.signature \in Key \X Hash
  BY DEF EvidenceRecord
<1> QED  BY <1>1, <1>2

\* verify_chain finds no fault with such a sequence but a foreign signature.
LEMMA ChainedFaults ==
    ASSUME NEW records, Chained(records), NEW key \in Key \cup {NoKey},
           NEW i \in 1 .. Len(records)
    PROVE  Faulty(records, i, key) <=> key # NoKey /\ records[i].signature[1] # key
<1>1. Link(records, i) /\ records[i].signature \in Key \X Hash
  BY ChainedColumns DEF Chained
<1>2. records[i].signature # NoSignature
  <2>1. \A k \in Key, h \in Hash : <<k, h>> # NoSignature
    BY ONLY TRUE DEF NoSignature
  <2>2. PICK k \in Key, h \in Hash : records[i].signature = <<k, h>>
    BY <1>1
  <2> QED  BY Zenon, <2>1, <2>2
<1>3. records[i].signature = sign(key, records[i].record_hash)
        <=> records[i].signature[1] = key
  BY <1>1 DEF Link, sign
<1> QED  BY <1>1, <1>2, <1>3 DEF Faulty, Link, verify_signature

\* A record whose signature is missing is faulty for no key, and the records
\* beside it as they were.
LEMMA UnsignedFaults ==
    ASSUME NEW records, Chained(records), NEW key \in Key \cup {NoKey},
           NEW old \in SUBSET DOMAIN records, NEW i \in 1 .. Len(records)
    PROVE  Faulty(WithoutSignature(records, old), i, key)
             <=> i \notin old /\ key # NoKey /\ records[i].signature[1] # key
<1> DEFINE rows == WithoutSignature(records, old)
<1>1. /\ DOMAIN records = 1 .. Len(records) /\ Len(records) \in Nat
      /\ \A j \in 1 .. Len(records) : records[j] \in EvidenceRecord
  BY ChainedColumns
<1>2. ASSUME NEW j \in 1 .. Len(records)
      PROVE  /\ rows[j].previous_hash = records[j].previous_hash
             /\ rows[j].record_hash = records[j].record_hash
             /\ rows[j].payload = records[j].payload
             /\ rows[j].signature = IF j \in old THEN NoSignature ELSE records[j].signature
  <2>1. rows[j] = IF j \in old THEN [records[j] EXCEPT !.signature = NoSignature]
                  ELSE records[j]
    BY <1>1 DEF WithoutSignature
  <2> QED  BY <1>1, <2>1 DEF EvidenceRecord
<1> HIDE DEF rows
<1>3. i # 1 => i - 1 \in 1 .. Len(records)
  BY <1>1
<1>4. Faulty(records, i, NoKey) <=> FALSE
  BY ChainedFaults
<1>5. Faulty(records, i, key) <=> key # NoKey /\ records[i].signature[1] # key
  BY ChainedFaults
<1>6. CASE i \in old
  BY <1>2, <1>3, <1>4, <1>6 DEF Faulty, rows
<1>7. CASE i \notin old
  BY <1>2, <1>3, <1>5, <1>7 DEF Faulty, rows
<1> QED  BY <1>6, <1>7

\* Altering the payload of one record leaves the ones before it as they were.
LEMMA AlteredLocated ==
    ASSUME NEW records, Chained(records), NEW i \in 1 .. Len(records),
           NEW p \in Payload \ {records[i].payload}
    PROVE  verify_chain([records EXCEPT ![i].payload = p], NoKey)
             = [valid |-> FALSE, checked_count |-> i - 1,
                first_corruption_at |-> records[i].sequence_number]
<1> DEFINE altered == [records EXCEPT ![i].payload = p]
<1>1. /\ DOMAIN records = 1 .. Len(records) /\ Len(records) \in Nat
      /\ \A j \in 1 .. Len(records) : records[j] \in EvidenceRecord
  BY ChainedColumns
<1>2. /\ DOMAIN altered = 1 .. Len(records)
      /\ \A j \in 1 .. Len(records) : j # i => altered[j] = records[j]
      /\ altered[i].payload = p /\ altered[i].previous_hash = records[i].previous_hash
      /\ altered[i].record_hash = records[i].record_hash
      /\ altered[i].sequence_number = records[i].sequence_number
  BY <1>1 DEF EvidenceRecord
<1> HIDE DEF altered
<1>3. Faulty(altered, i, NoKey)
  <2>1. /\ records[i].record_hash = compute_hash(records[i].previous_hash, records[i].payload)
        /\ records[i].previous_hash \in Hash /\ records[i].payload \in Payload
    BY ChainedColumns DEF Chained, Link
  <2>2. compute_hash(altered[i].previous_hash, altered[i].payload) # altered[i].record_hash
    BY <1>2, <2>1, HashInjective
  <2> QED  BY <2>2 DEF Faulty
<1>4. ASSUME NEW j \in 1 .. Len(records), j < i PROVE ~ Faulty(altered, j, NoKey)
  <2>1. altered[j] = records[j] /\ (j # 1 => altered[j-1] = records[j-1])
    BY <1>1, <1>2, <1>4
  <2>2. ~ Faulty(records, j, NoKey)
    BY ChainedFaults
  <2> QED  BY <2>1, <2>2 DEF Faulty
<1>5. DOMAIN altered \subseteq Nat /\ i \in DOMAIN altered
  BY <1>2
<1>6. verify_chain(altered, NoKey)
        = [valid |-> FALSE, checked_count |-> i - 1,
           first_corruption_at |-> altered[i].sequence_number]
  BY <1>2, <1>3, <1>4, <1>5, Locates
<1> QED  BY <1>2, <1>6 DEF altered

\* If its hash was made to match, the fault is the next record's link.
LEMMA RehashedLocated ==
    ASSUME NEW records, Chained(records), NEW i \in 1 .. Len(records), i < Len(records),
           NEW p \in Payload \ {records[i].payload}
    PROVE  verify_chain([[records EXCEPT ![i].payload = p]
                            EXCEPT ![i].record_hash =
                                compute_hash(records[i].previous_hash, p)],
                        NoKey).first_corruption_at = records[i+1].sequence_number
<1> DEFINE altered == [records EXCEPT ![i].payload = p]
           h == compute_hash(records[i].previous_hash, p)
           rehashed == [altered EXCEPT ![i].record_hash = h]
<1>1. /\ DOMAIN records = 1 .. Len(records) /\ Len(records) \in Nat
      /\ \A j \in 1 .. Len(records) : records[j] \in EvidenceRecord
  BY ChainedColumns
<1>2. /\ DOMAIN altered = 1 .. Len(records)
      /\ \A j \in 1 .. Len(records) : j # i => altered[j] = records[j]
      /\ altered[i] = [records[i] EXCEPT !.payload = p]
  BY <1>1
<1>3. /\ altered[i].payload = p /\ altered[i].previous_hash = records[i].previous_hash
      /\ altered[i] \in EvidenceRecord
  BY <1>1, <1>2 DEF EvidenceRecord
<1> HIDE DEF altered, h
<1>4. /\ DOMAIN rehashed = 1 .. Len(records)
      /\ \A j \in 1 .. Len(records) : j # i => rehashed[j] = records[j]
      /\ rehashed[i] = [altered[i] EXCEPT !.record_hash = h]
  BY <1>2
<1>5. /\ rehashed[i].payload = p /\ rehashed[i].record_hash = h
      /\ rehashed[i].previous_hash = records[i].previous_hash
  BY <1>3, <1>4 DEF EvidenceRecord
<1> HIDE DEF rehashed
<1>6. h # records[i].record_hash
  <2>1. /\ records[i].record_hash = compute_hash(records[i].previous_hash, records[i].payload)
        /\ records[i].previous_hash \in Hash /\ records[i].payload \in Payload
    BY ChainedColumns DEF Chained, Link
  <2> QED  BY <2>1, HashInjective DEF h
<1>7. i + 1 \in 1 .. Len(records) /\ i + 1 # 1 /\ (i + 1) - 1 = i /\ i + 1 # i
  BY <1>1
<1>8. Faulty(rehashed, i + 1, NoKey)
  <2>1. records[i+1].previous_hash = records[i].record_hash
    BY <1>7 DEF Chained, Link
  <2>2. rehashed[i+1] = records[i+1]
    BY <1>4, <1>7
  <2> QED  BY <1>5, <1>6, <1>7, <2>1, <2>2 DEF Faulty
<1>9. ASSUME NEW j \in 1 .. Len(records), j < i + 1 PROVE ~ Faulty(rehashed, j, NoKey)
  <2>1. ~ Faulty(records, j, NoKey)
    BY ChainedFaults
  <2>2. j # 1 => j - 1 \in 1 .. Len(records) /\ j - 1 # i
    BY <1>1, <1>9
  <2>3. CASE j = i
    BY <1>4, <1>5, <2>1, <2>2, <2>3 DEF Faulty, h
  <2>4. CASE j # i
    BY <1>4, <2>1, <2>2, <2>4 DEF Faulty
  <2> QED  BY <2>3, <2>4
<1>10. DOMAIN rehashed \subseteq Nat /\ i + 1 \in DOMAIN rehashed
  BY <1>4, <1>7
<1>11. verify_chain(rehashed, NoKey)
        = [valid |-> FALSE, checked_count |-> i + 1 - 1,
           first_corruption_at |-> rehashed[i+1].sequence_number]
  BY <1>4, <1>8, <1>9, <1>10, Locates
<1>12. verify_chain(rehashed, NoKey).first_corruption_at = records[i+1].sequence_number
  BY <1>4, <1>7, <1>11
<1> QED  BY <1>12 DEF rehashed, altered, h

\* The type and the length of a concatenation.
LEMMA Concatenation ==
    ASSUME NEW S, NEW s \in Seq(S), NEW t \in Seq(S)
    PROVE  s \o t \in Seq(S) /\ Len(s \o t) = Len(s) + Len(t)
  OBVIOUS

\* A record missing from the front or the middle is missed by the one after it.
LEMMA RemovedLocated ==
    ASSUME NEW records, Chained(records), NEW i \in 1 .. Len(records) - 1
    PROVE  verify_chain(RemoveAt(records, i), NoKey).first_corruption_at
             = records[i+1].sequence_number
<1> DEFINE short == RemoveAt(records, i)
           front == SubSeq(records, 1, i - 1)
           back == SubSeq(records, i + 1, Len(records))
<1>1. records \in Seq(EvidenceRecord) /\ Len(records) \in Nat /\ i \in 1 .. Len(records)
  BY ChainedColumns DEF Chained
<1>2. /\ front \in Seq(EvidenceRecord) /\ Len(front) = i - 1
      /\ \A j \in 1 .. i - 1 : front[j] = records[j]
  BY <1>1
<1>3. /\ back \in Seq(EvidenceRecord) /\ Len(back) = Len(records) - i
      /\ \A j \in 1 .. Len(records) - i : back[j] = records[j + i]
  BY <1>1
<1>4. short = front \o back
  BY DEF RemoveAt
<1> HIDE DEF front, back, short
<1>5. short \in Seq(EvidenceRecord) /\ Len(short) = Len(records) - 1
  <2>1. short \in Seq(EvidenceRecord) /\ Len(short) = Len(front) + Len(back)
    BY <1>2, <1>3, <1>4, Concatenation
  <2> QED  BY <1>1, <1>2, <1>3, <2>1
<1>6. DOMAIN short = 1 .. Len(records) - 1
  BY <1>5
<1>7. \A j \in 1 .. i - 1 : short[j] = records[j]
  BY <1>1, <1>2, <1>3, <1>4
<1>8. short[i] = records[i+1]
  <2>1. short[i] = back[i - (i - 1)]
    BY <1>1, <1>2, <1>3, <1>4
  <2> QED  BY <1>1, <1>3, <2>1
<1>9. /\ i + 1 \in 1 .. Len(records) /\ i + 1 # 1 /\ (i + 1) - 1 = i
      /\ i \in DOMAIN short /\ DOMAIN short \subseteq Nat
  BY <1>1, <1>6
<1>10. Faulty(short, i, NoKey)
  <2>1. /\ Link(records, i + 1) /\ Link(records, i)
        /\ records[i].previous_hash \in Hash /\ records[i].payload \in Payload
    BY <1>1, <1>9, ChainedColumns DEF Chained
  <2>2. short[i].previous_hash = records[i].record_hash
    BY <1>8, <1>9, <2>1 DEF Link
  <2>3. /\ records[i].record_hash # GENESIS_HASH
        /\ records[i].record_hash # records[i].previous_hash
    BY <2>1, HashLonger DEF Link
  <2>4. CASE i = 1
    BY <2>2, <2>3, <2>4 DEF Faulty
  <2>5. CASE i # 1
    <3>1. records[i].previous_hash = records[i-1].record_hash
      BY <2>1, <2>5 DEF Link
    <3>2. short[i-1] = records[i-1]
      BY <1>1, <1>7, <2>5
    <3> QED  BY <2>2, <2>3, <2>5, <3>1, <3>2 DEF Faulty
  <2> QED  BY <2>4, <2>5
<1>11. ASSUME NEW j \in DOMAIN short, j < i PROVE ~ Faulty(short, j, NoKey)
  <2>1. j \in 1 .. Len(records) /\ j \in 1 .. i - 1 /\ (j # 1 => j - 1 \in 1 .. i - 1)
    BY <1>1, <1>6, <1>11
  <2>2. ~ Faulty(records, j, NoKey)
    BY <2>1, ChainedFaults
  <2> QED  BY <1>7, <2>1, <2>2 DEF Faulty
<1>12. verify_chain(short, NoKey)
         = [valid |-> FALSE, checked_count |-> i - 1,
            first_corruption_at |-> short[i].sequence_number]
  BY <1>9, <1>10, <1>11, Locates
<1>13. verify_chain(short, NoKey).first_corruption_at = records[i+1].sequence_number
  BY <1>8, <1>12
<1> QED  BY <1>13 DEF short

\* Records with other texts as payloads, encrypted or not.
WithTexts(records, texts) ==
    [i \in DOMAIN records |-> [records[i] EXCEPT !.payload = texts[i]]]
Encrypted(records, texts, under) ==
    [i \in DOMAIN records |-> [records[i] EXCEPT !.payload = encrypt(texts[i], under[i])]]

\* Records with one payload that cannot be decrypted are unreadable, and others
\* are verified as they were before they were encrypted.
LEMMA DatabaseVerdict ==
    ASSUME NEW records \in Seq(EvidenceRecord), NEW texts, NEW under, NEW key
    PROVE  verify_chain_from_database(Encrypted(records, texts, under), NoKey, key)
             = IF \A i \in DOMAIN records : under[i] \in {NoEncryption, key}
               THEN verify_chain(WithTexts(records, texts), NoKey)
               ELSE Unreadable
<1> DEFINE rows == Encrypted(records, texts, under)
<1>1. /\ DOMAIN rows = DOMAIN records
      /\ \A i \in DOMAIN records : records[i] \in EvidenceRecord
  BY DEF Encrypted
<1>2. ASSUME NEW i \in DOMAIN records
      PROVE  /\ rows[i] = [records[i] EXCEPT !.payload = encrypt(texts[i], under[i])]
             /\ rows[i].payload = encrypt(texts[i], under[i])
  BY <1>1 DEF EvidenceRecord, Encrypted
<1> SUFFICES verify_chain_from_database(rows, NoKey, key)
               = IF \A i \in DOMAIN records : under[i] \in {NoEncryption, key}
                 THEN verify_chain(WithTexts(records, texts), NoKey)
                 ELSE Unreadable
  OBVIOUS
<1> HIDE DEF rows
<1>3. \A i \in DOMAIN records : decrypt_field(rows[i].payload, key)
         = IF under[i] \in {NoEncryption, key} THEN {texts[i]} ELSE {}
  <2> SUFFICES ASSUME NEW i \in DOMAIN records
               PROVE  decrypt_field(rows[i].payload, key)
                        = IF under[i] \in {NoEncryption, key} THEN {texts[i]} ELSE {}
    OBVIOUS
  <2>1. rows[i].payload = encrypt(texts[i], under[i])
    BY <1>2
  <2> QED  BY ONLY <2>1 DEF decrypt_field, encrypt
<1>4. CASE \E i \in DOMAIN records : under[i] \notin {NoEncryption, key}
  <2>1. \E i \in DOMAIN rows : decrypt_field(rows[i].payload, key) = {}
    BY <1>1, <1>3, <1>4
  <2> QED  BY <1>4, <2>1 DEF verify_chain_from_database
<1>5. CASE \A i \in DOMAIN records : under[i] \in {NoEncryption, key}
  <2>1. \A i \in DOMAIN rows : decrypt_field(rows[i].payload, key) = {texts[i]}
    BY <1>1, <1>3, <1>5
  <2> DEFINE plain == [i \in DOMAIN rows |->
                 [rows[i] EXCEPT !.payload =
                     CHOOSE text \in decrypt_field(rows[i].payload, key) : TRUE]]
  <2>2. verify_chain_from_database(rows, NoKey, key) = verify_chain(plain, NoKey)
    <3>1. ~ \E i \in DOMAIN rows : decrypt_field(rows[i].payload, key) = {}
      BY <2>1
    <3> QED  BY <3>1 DEF verify_chain_from_database
  <2>3. ASSUME NEW i \in DOMAIN records
        PROVE  [rows[i] EXCEPT !.payload =
                     CHOOSE text \in decrypt_field(rows[i].payload, key) : TRUE]
                 = [records[i] EXCEPT !.payload = texts[i]]
    <3>1. (CHOOSE text \in decrypt_field(rows[i].payload, key) : TRUE) = texts[i]
      BY <1>1, <2>1
    <3>2. [rows[i] EXCEPT !.payload = texts[i]] = [records[i] EXCEPT !.payload = texts[i]]
      BY <1>1, <1>2 DEF EvidenceRecord
    <3> QED  BY <3>1, <3>2
  <2>4. plain = WithTexts(records, texts)
    BY <1>1, <2>3 DEF WithTexts
  <2> QED  BY <1>5, <2>2, <2>4
<1> QED  BY <1>4, <1>5

\* Commit signs what it hashed; nothing else writes a row.
LEMMA NextSigned == IInv /\ SignedInv /\ [Next]_vars => SignedInv'
<1> SUFFICES ASSUME IInv, SignedInv, [Next]_vars PROVE SignedInv'
  OBVIOUS
<1>1. ASSUME NEW w \in Worker, Commit(w) PROVE SignedInv'
  <2>1. PICK n, row : /\ evidence_chain' = [k \in DOMAIN evidence_chain \cup {n} |->
                                             IF k = n THEN row ELSE evidence_chain[k]]
                      /\ row.signature[2] = row.record_hash
    <3> DEFINE h == compute_hash(prev[w], req[w])
               row == [payload |-> req[w], previous_hash |-> prev[w], record_hash |-> h,
                       signature |-> sign(KeyOf[w], h)]
    <3>1. evidence_chain' = [k \in DOMAIN evidence_chain \cup {seq[w]} |->
                               IF k = seq[w] THEN row ELSE evidence_chain[k]]
      BY <1>1 DEF Commit
    <3>2. row.signature[2] = row.record_hash
      BY DEF sign
    <3> HIDE DEF row
    <3> QED  BY <3>1, <3>2
  <2> QED  BY <2>1 DEF SignedInv
<1>2. CASE \A w \in Worker : ~ Commit(w)
  BY <1>2, QuietChainInv DEF SignedInv
<1> QED  BY <1>1, <1>2

\* What every reachable chain gives the verifier.
LEMMA ReachableChain == Spec => [](TypeOK /\ SeqInv /\ ChainLinked /\ SignedInv)
<1>1. Init => IInv /\ SignedInv
  BY InitIInv DEF Init, SignedInv
<1>2. IInv => TypeOK /\ SeqInv /\ ChainLinked
  BY DEF IInv
<1> QED  BY <1>1, <1>2, NextIInv, NextSigned, PTL DEF Spec

\* verify_chain accepts whatever append has committed, with rows of the time
\* before signing among it or not, and with a public key exactly the chains whose
\* signatures are all of that key (verify_chain).
THEOREM AcceptsAppended == Spec => []VerifierAccepts
<1>1. ASSUME TypeOK, SeqInv, ChainLinked, SignedInv PROVE VerifierAccepts
  <2>1. Chained(all)
    BY <1>1, AllChained
  <2>2. DOMAIN all = 1 .. Len(all)
    BY <2>1, ChainedColumns
  <2> HIDE DEF all
  <2>3. ASSUME NEW old \in SUBSET DOMAIN all
        PROVE  /\ verify_chain(WithoutSignature(all, old), NoKey).valid
               /\ \A k \in Key : verify_chain(WithoutSignature(all, old), k).valid <=>
                     \A i \in DOMAIN all \ old : all[i].signature[1] = k
    <3> DEFINE rows == WithoutSignature(all, old)
    <3>1. DOMAIN rows = DOMAIN all
      BY DEF WithoutSignature
    <3>2. ASSUME NEW k \in Key \cup {NoKey}, NEW i \in DOMAIN all
          PROVE  Faulty(rows, i, k) <=>
                    i \notin old /\ k # NoKey /\ all[i].signature[1] # k
      BY <2>1, <2>2, UnsignedFaults
    <3> HIDE DEF rows
    <3>3. verify_chain(rows, NoKey).valid
      <4>1. \A i \in DOMAIN rows : ~ Faulty(rows, i, NoKey)
        BY <3>1, <3>2
      <4> QED  BY <4>1, Accepts
    <3>4. ASSUME NEW k \in Key
          PROVE  verify_chain(rows, k).valid <=>
                   \A i \in DOMAIN all \ old : all[i].signature[1] = k
      <4>1. \A i \in DOMAIN all : Faulty(rows, i, k)
                <=> i \notin old /\ all[i].signature[1] # k
        BY <3>2, NoKeyAssumption
      <4>2. verify_chain(rows, k).valid <=> \A i \in DOMAIN rows : ~ Faulty(rows, i, k)
        BY Accepts
      <4> QED  BY ONLY <3>1, <4>1, <4>2
    <3> QED  BY <3>3, <3>4 DEF rows
  <2> QED  BY <2>3 DEF VerifierAccepts
<1> QED  BY <1>1, ReachableChain, PTL

\* An altered payload is found at its record, an altered payload with a matching
\* hash or a missing record at the next one (verify_chain).
THEOREM LocatesChanges == Spec => []ChangesLocated
<1>1. ASSUME TypeOK, SeqInv, ChainLinked, SignedInv PROVE ChangesLocated
  <2>1. Chained(all)
    BY <1>1, AllChained
  <2>2. DOMAIN all = 1 .. Len(all) /\ Len(all) \in Nat
    BY <2>1, ChainedColumns
  <2> HIDE DEF all
  <2>3. ASSUME NEW i \in DOMAIN all, NEW p \in Payload \ {all[i].payload}
        PROVE  verify_chain([all EXCEPT ![i].payload = p], NoKey)
                 = [valid |-> FALSE, checked_count |-> i - 1,
                    first_corruption_at |-> all[i].sequence_number]
    BY <2>1, <2>2, AlteredLocated
  <2>4. ASSUME NEW i \in DOMAIN all, NEW p \in Payload \ {all[i].payload}, i < Len(all)
        PROVE  verify_chain([[all EXCEPT ![i].payload = p]
                                EXCEPT ![i].record_hash =
                                    compute_hash(all[i].previous_hash, p)],
                            NoKey).first_corruption_at = all[i+1].sequence_number
    BY <2>1, <2>2, <2>4, RehashedLocated
  <2>5. ASSUME NEW i \in 1 .. (Len(all) - 1)
        PROVE  verify_chain(RemoveAt(all, i), NoKey).first_corruption_at
                 = all[i+1].sequence_number
    BY <2>1, RemovedLocated
  <2> QED  BY <2>3, <2>4, <2>5 DEF ChangesLocated
<1> QED  BY <1>1, ReachableChain, PTL

\* A verifier that cannot read a record says so, and one that reads them all
\* judges the texts; no replaced value is accepted (verify_chain_from_database).
THEOREM EncryptionHonest == Spec => []EncryptionNeverMisleads
<1>1. ASSUME TypeOK, SeqInv, ChainLinked, SignedInv PROVE EncryptionNeverMisleads
  <2>1. Chained(all)
    BY <1>1, AllChained
  <2>2. /\ DOMAIN all = 1 .. Len(all) /\ Len(all) \in Nat /\ all \in Seq(EvidenceRecord)
        /\ \A i \in DOMAIN all : all[i] \in EvidenceRecord
    BY <2>1, ChainedColumns DEF Chained
  <2> DEFINE Stored(written) ==
               [i \in DOMAIN all |-> [all[i] EXCEPT !.payload = encrypt(@, written[i])]]
             Uniform(key) == [i \in DOMAIN all |-> key]
             texts == [i \in DOMAIN all |-> all[i].payload]
  <2> HIDE DEF all
  <2>3. ASSUME NEW written \in [DOMAIN all -> Setting], NEW key \in Setting
        PROVE  verify_chain_from_database(Stored(written), NoKey, key)
                 = IF \A i \in DOMAIN all : written[i] \in {NoEncryption, key}
                   THEN verify_chain(all, NoKey) ELSE Unreadable
    <3>1. Stored(written) = Encrypted(all, texts, written)
      BY DEF Encrypted
    <3>2. WithTexts(all, texts) = all
      BY <2>2 DEF EvidenceRecord, WithTexts
    <3> HIDE DEF Stored, texts
    <3> QED  BY <2>2, <3>1, <3>2, DatabaseVerdict
  <2>4. ASSUME NEW key \in Setting, NEW under \in Setting, NEW i \in DOMAIN all,
               NEW p \in Payload \ {all[i].payload}
        PROVE  ~ verify_chain_from_database(
                    [Stored(Uniform(key)) EXCEPT ![i].payload = encrypt(p, under)],
                    NoKey, key).valid
    <3> DEFINE forged == [Stored(Uniform(key)) EXCEPT ![i].payload = encrypt(p, under)]
               marks == [j \in DOMAIN all |-> IF j = i THEN under ELSE key]
               values == [j \in DOMAIN all |-> IF j = i THEN p ELSE all[j].payload]
    <3>1. forged = Encrypted(all, values, marks)
      BY <2>2 DEF EvidenceRecord, Encrypted
    <3>2. WithTexts(all, values) = [all EXCEPT ![i].payload = p]
      BY <2>2 DEF EvidenceRecord, WithTexts
    <3> HIDE DEF forged, marks, values
    <3>3. verify_chain_from_database(forged, NoKey, key)
            = IF \A j \in DOMAIN all : marks[j] \in {NoEncryption, key}
              THEN verify_chain(WithTexts(all, values), NoKey) ELSE Unreadable
      <4>1. all \in Seq(EvidenceRecord)
        BY <2>2
      <4> QED  BY ONLY <3>1, <4>1, DatabaseVerdict
    <3>4. verify_chain([all EXCEPT ![i].payload = p], NoKey)
                 = [valid |-> FALSE, checked_count |-> i - 1,
                    first_corruption_at |-> all[i].sequence_number]
      BY <2>1, <2>2, AlteredLocated
    <3>5. verify_chain([all EXCEPT ![i].payload = p], NoKey).valid = FALSE
      BY <3>4
    <3>6. Unreadable.valid = FALSE
      BY DEF Unreadable
    <3>7. verify_chain_from_database(forged, NoKey, key).valid = FALSE
      BY <3>2, <3>3, <3>5, <3>6
    <3> QED  BY <3>7 DEF forged
  <2> QED  BY <2>3, <2>4 DEF EncryptionNeverMisleads
<1> QED  BY <1>1, ReachableChain, PTL
=============================================================================
