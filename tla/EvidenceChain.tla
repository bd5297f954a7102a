---------------------------- MODULE EvidenceChain ----------------------------
(***************************************************************************)
(* EvidenceStore.append as concurrent ingestion workers execute it against *)
(* Postgres at READ COMMITTED, together with the admin endpoint that       *)
(* registers systems, and the attribute rules that admins and the seed tool *)
(* add, both without taking the append lock.                               *)
(*                                                                         *)
(* A worker is one request of one app process; every SQL statement of      *)
(* append that can observe or disturb another transaction is an action of  *)
(* its own.  Rows a transaction has flushed but not committed live in the  *)
(* worker's locals (and, for the one unlocked table, in sysWriter), so an  *)
(* abort simply forgets them; the identity column is the exception and     *)
(* keeps its number.                                                       *)
(*                                                                         *)
(* Hashes are symbolic: compute_hash appends the payload to the previous   *)
(* hash, so two hashes are equal exactly when they hash the same history.  *)
(* A signature is the pair of the signing key and the hash it signs.       *)
(* Findings, model versions, timestamps and field encryption ride along    *)
(* with a row and are not represented.                                     *)
(***************************************************************************)
EXTENDS Integers, Sequences

CONSTANTS Worker,      \* ingestion requests being served, in any process
          Admin,       \* POST /systems requests being served
          Event,       \* decision event ids
          Status,      \* verdict statuses the governance engine returns
          Reviewable,  \* those _queue_verdict_review acts on
          System,      \* system names
          Domain,      \* domains a system can be registered with
          NoDomain,    \* System.domain IS NULL
          SystemOf,    \* the system each decision event belongs to
          Key,         \* signing key pairs
          KeyOf,       \* the key of each worker's process
          None,        \* nobody
          MaxSeq       \* last number of the identity column (2^31 - 1)

ASSUME EvidenceAssumption ==
    /\ SystemOf \in [Event -> System]
    /\ KeyOf \in [Worker -> Key]
    /\ Reviewable \subseteq Status
    /\ NoDomain \notin Domain /\ "absent" \notin Domain \cup {NoDomain}
    /\ None \notin Worker \cup Admin
    /\ Worker \cap Admin = {}
    /\ MaxSeq \in Nat

Payload == [event : Event, status : Status]
GENESIS_HASH == <<>>
compute_hash(previous, payload) == Append(previous, payload)
Hash == Seq(Payload)
sign(key, hash) == <<key, hash>>
ChainRow == [payload : Payload, previous_hash : Hash, record_hash : Hash,
             signature : Key \X Hash]

\* A system row: its domain.
Registered == Domain \cup {NoDomain}

VARIABLES
    systems,         \* systems rows: name |-> Registered, or "absent"
    sysWriter,       \* name |-> transaction holding an uncommitted row for it
    ruled,           \* domains with rows in protected_attribute_rules
    decisions,       \* decision_events/findings/verdicts rows, one payload each
    resolved,        \* events with protected_attribute_resolutions rows
    evidence_chain,  \* sequence_number |-> ChainRow
    nextSeq,         \* next number of the identity column
    reviews,         \* payloads with a verdict_reviews row
    lock,            \* holder of the advisory lock
    pc, req,         \* per worker: place in append, its payload
    seen,            \* per worker: the system row its transaction works with
    resolving,       \* per worker: it has flushed resolutions
    prev, seq,       \* per worker: hash read by _latest_hash, number drawn
    apc, areq,       \* per admin: place in register_system, its request
    acked,           \* payloads whose IngestionResponse was returned
    governed         \* history: events whose system had a domain with rules
                     \* when some request inserted their decision row

tables == <<systems, ruled, decisions, resolved, evidence_chain, reviews>>
locals == <<req, seen, resolving, prev, seq>>
admin == <<apc, areq>>
history == <<acked, governed>>
vars == <<tables, sysWriter, nextSeq, lock, pc, locals, admin, history>>

\* Where a worker holds the advisory lock, and where its transaction is open.
Holding == {"locked", "looked_up", "registered", "inserted", "resolved",
            "hashed", "written"}
InTx == Holding \cup {"waiting"}
Committed == {"committed", "queued"}

Init ==
    /\ systems = [s \in System |-> "absent"]
    /\ sysWriter = [s \in System |-> None]
    /\ ruled = {} /\ decisions = {} /\ resolved = {} /\ reviews = {}
    /\ acked = {} /\ governed = {}
    /\ evidence_chain = [n \in {} |-> {}]
    /\ nextSeq = 1
    /\ lock = None
    /\ pc = [w \in Worker |-> "idle"]
    /\ req = [w \in Worker |-> None] /\ seen = [w \in Worker |-> "absent"]
    /\ resolving = [w \in Worker |-> FALSE]
    /\ prev = [w \in Worker |-> GENESIS_HASH] /\ seq = [w \in Worker |-> 0]
    /\ apc = [a \in Admin |-> "idle"] /\ areq = [a \in Admin |-> None]

Goto(w, from, to) == pc[w] = from /\ pc' = [pc EXCEPT ![w] = to]
Decided(e) == \E p \in decisions : p.event = e

\* Mutant: the oldest row instead of the newest.
IsOldestHash(h) ==
    \/ DOMAIN evidence_chain = {} /\ h = GENESIS_HASH
    \/ \E n \in DOMAIN evidence_chain :
          /\ \A k \in DOMAIN evidence_chain : n <= k
          /\ h = evidence_chain[n].record_hash

\* h is the record_hash of the committed row with the greatest number.
IsLatestHash(h) ==
    \/ DOMAIN evidence_chain = {} /\ h = GENESIS_HASH
    \/ \E n \in DOMAIN evidence_chain :
          /\ \A k \in DOMAIN evidence_chain : k <= n
          /\ h = evidence_chain[n].record_hash

\* The worker's request ends: its locals are gone.
Forget(w) ==
    /\ pc' = [pc EXCEPT ![w] = "idle"]
    /\ req' = [req EXCEPT ![w] = None]
    /\ seen' = [seen EXCEPT ![w] = "absent"]
    /\ resolving' = [resolving EXCEPT ![w] = FALSE]
    /\ prev' = [prev EXCEPT ![w] = GENESIS_HASH]
    /\ seq' = [seq EXCEPT ![w] = 0]

\* Mutant: a session-level advisory lock, which outlives the transaction.
EndTransactionKeepLock(x) ==
    /\ UNCHANGED lock
    /\ sysWriter' = [s \in System |->
                        IF sysWriter[s] = x THEN None ELSE sysWriter[s]]

\* End of transaction: its advisory lock and its claim on system names go.
EndTransaction(x) ==
    /\ lock' = IF lock = x THEN None ELSE lock
    /\ sysWriter' = [s \in System |->
                        IF sysWriter[s] = x THEN None ELSE sysWriter[s]]

\* Nothing the transaction flushed survives, and the caller gets an error.
Rollback(w) ==
    /\ Forget(w)
    /\ EndTransaction(w)
    /\ UNCHANGED <<tables, nextSeq, admin, history>>
-----------------------------------------------------------------------------
\* A request for event e arrives, first sent or retried; its verdict is known.
Receive(w, e, s) ==
    /\ Goto(w, "idle", "waiting")
    /\ req' = [req EXCEPT ![w] = [event |-> e, status |-> s]]
    /\ UNCHANGED <<tables, sysWriter, nextSeq, lock, seen, resolving, prev, seq, admin, history>>

\* Mutant: pg_try_advisory_xact_lock with its answer ignored.
AcquireLockUnguarded(w) ==
    /\ Goto(w, "waiting", "locked")
    /\ lock' = w
    /\ UNCHANGED <<tables, sysWriter, nextSeq, locals, admin, history>>

\* SELECT pg_advisory_xact_lock(key): waits until no transaction holds it.
AcquireLock(w) ==
    /\ Goto(w, "waiting", "locked")
    /\ lock = None
    /\ lock' = w
    /\ UNCHANGED <<tables, sysWriter, nextSeq, locals, admin, history>>

\* get_or_create_by_name, the SELECT: committed rows only.
LookupSystem(w) ==
    /\ Goto(w, "locked", "looked_up")
    /\ seen' = [seen EXCEPT ![w] = systems[SystemOf[req[w].event]]]
    /\ UNCHANGED <<tables, sysWriter, nextSeq, lock, req, resolving, prev, seq, admin, history>>

\* Mutant: INSERT ... ON CONFLICT (name) DO NOTHING, without reading the row
\* that won.
ProvisionSystemOnConflict(w) ==
    LET s == SystemOf[req[w].event] IN
    /\ Goto(w, "looked_up", "registered")
    /\ \/ seen[w] # "absent" /\ UNCHANGED <<seen, sysWriter>>
       \/ /\ seen[w] = "absent" /\ sysWriter[s] = None
          /\ seen' = [seen EXCEPT ![w] = NoDomain]
          /\ sysWriter' = IF systems[s] = "absent"
                          THEN [sysWriter EXCEPT ![s] = w] ELSE sysWriter
    /\ UNCHANGED <<tables, nextSeq, lock, req, resolving, prev, seq, admin, history>>

\* get_or_create_by_name, found, or the INSERT.  The unique name makes the
\* INSERT wait for a transaction that has inserted the same name, and fail
\* once that one has committed.
ProvisionSystem(w) ==
    LET s == SystemOf[req[w].event] IN
    /\ pc[w] = "looked_up"
    /\ \/ /\ seen[w] # "absent"
          /\ Goto(w, "looked_up", "registered")
          /\ UNCHANGED <<tables, sysWriter, nextSeq, lock, locals, admin, history>>
       \/ /\ seen[w] = "absent" /\ sysWriter[s] = None /\ systems[s] = "absent"
          /\ Goto(w, "looked_up", "registered")
          /\ sysWriter' = [sysWriter EXCEPT ![s] = w]
          /\ seen' = [seen EXCEPT ![w] = NoDomain]
          /\ UNCHANGED <<tables, nextSeq, lock, req, resolving, prev, seq, admin, history>>
       \/ /\ seen[w] = "absent" /\ sysWriter[s] = None /\ systems[s] # "absent"
          /\ Rollback(w)

\* The history variable: whether e's decision row finds its system registered
\* with a domain that has rules.
NoteGoverned(e) ==
    governed' = IF systems[SystemOf[e]] \in ruled THEN governed \cup {e} ELSE governed

\* Mutant: decision_events without its primary key.
InsertDecisionUnchecked(w) ==
    /\ Goto(w, "registered", "inserted")
    /\ NoteGoverned(req[w].event)
    /\ UNCHANGED <<tables, sysWriter, nextSeq, lock, locals, admin, acked>>

\* Model version, decision event, findings and verdict rows are flushed; the
\* primary key of decision_events rejects an event that is already recorded.
InsertDecision(w) ==
    /\ pc[w] = "registered"
    /\ \/ /\ ~ Decided(req[w].event)
          /\ Goto(w, "registered", "inserted")
          /\ NoteGoverned(req[w].event)
          /\ UNCHANGED <<tables, sysWriter, nextSeq, lock, locals, admin, acked>>
       \/ Decided(req[w].event) /\ Rollback(w)

\* Mutant: the resolver applies the rules it found earlier, if any.
ResolveAttributesCached(w) ==
    /\ Goto(w, "inserted", "resolved")
    /\ \E found \in {TRUE, FALSE} :
          resolving' = [resolving EXCEPT ![w] = found /\ seen[w] \in ruled]
    /\ UNCHANGED <<tables, sysWriter, nextSeq, lock, req, seen, prev, seq, admin, history>>

\* The resolver reads the rules of the system's domain in a session of its own,
\* which sees what is committed by now; none for a NULL domain or one without
\* rules.  Otherwise resolutions are flushed, or an attribute that has no rule
\* is rejected (ValueError).
ResolveAttributes(w) ==
    /\ pc[w] = "inserted"
    /\ \/ /\ Goto(w, "inserted", "resolved")
          /\ resolving' = [resolving EXCEPT ![w] = seen[w] \in ruled]
          /\ UNCHANGED <<tables, sysWriter, nextSeq, lock, req, seen, prev, seq, admin,
                         history>>
       \/ seen[w] \in ruled /\ Rollback(w)

\* _latest_hash: the last committed row, read after the lock was granted.
ReadLatestHash(w) ==
    /\ Goto(w, "resolved", "hashed")
    /\ \E h \in {GENESIS_HASH} \cup
                {evidence_chain[n].record_hash : n \in DOMAIN evidence_chain} :
          IsLatestHash(h) /\ prev' = [prev EXCEPT ![w] = h]
    /\ UNCHANGED <<tables, sysWriter, nextSeq, lock, req, seen, resolving, seq, admin, history>>

\* The INSERT of the chain row draws the next identity number, and fails when
\* the INTEGER column has none left.
InsertChainRow(w) ==
    /\ pc[w] = "hashed"
    /\ \/ /\ nextSeq <= MaxSeq
          /\ Goto(w, "hashed", "written")
          /\ seq' = [seq EXCEPT ![w] = nextSeq]
          /\ nextSeq' = nextSeq + 1
          /\ UNCHANGED <<tables, sysWriter, lock, req, seen, resolving, prev, admin, history>>
       \/ nextSeq > MaxSeq /\ Rollback(w)

\* COMMIT: every row of the transaction becomes visible and the lock is freed.
Commit(w) ==
    LET p == req[w]  n == seq[w]  h == compute_hash(prev[w], p)
        row == [payload |-> p, previous_hash |-> prev[w], record_hash |-> h,
                signature |-> sign(KeyOf[w], h)] IN
    /\ Goto(w, "written", "committed")
    /\ systems' = [s \in System |->
                     IF sysWriter[s] = w THEN seen[w] ELSE systems[s]]
    /\ decisions' = decisions \cup {p}
    /\ resolved' = IF resolving[w] THEN resolved \cup {p.event} ELSE resolved
    /\ evidence_chain' = [k \in DOMAIN evidence_chain \cup {n} |->
                            IF k = n THEN row ELSE evidence_chain[k]]
    /\ EndTransaction(w)
    /\ UNCHANGED <<ruled, reviews, nextSeq, locals, admin, history>>

\* _queue_verdict_review in a transaction of its own; its failure is swallowed.
QueueReview(w) ==
    /\ Goto(w, "committed", "queued")
    /\ \/ req[w].status \in Reviewable /\ reviews' = reviews \cup {req[w]}
       \/ UNCHANGED reviews
    /\ UNCHANGED <<systems, ruled, decisions, resolved, evidence_chain, sysWriter,
                   nextSeq, lock, locals, admin, history>>

\* Mutant: the record is returned before its transaction commits.
RespondEarly(w) ==
    /\ pc[w] \in {"written", "queued"}
    /\ acked' = acked \cup {req[w]}
    /\ Forget(w)
    /\ EndTransaction(w)
    /\ UNCHANGED <<tables, nextSeq, admin, governed>>

\* append returns its EvidenceRecord.
Respond(w) ==
    /\ pc[w] = "queued"
    /\ acked' = acked \cup {req[w]}
    /\ Forget(w)
    /\ UNCHANGED <<tables, sysWriter, nextSeq, lock, admin, governed>>

\* Process crash, lost connection or a failing statement, at any point.  Past
\* COMMIT the record stays although the caller sees an error.
Fail(w) == pc[w] \in InTx \cup Committed /\ Rollback(w)
-----------------------------------------------------------------------------
\* register_system: the name is free when looked up (else 409) ...
AdminLookup(a, s, d) ==
    /\ apc[a] = "idle" /\ systems[s] = "absent"
    /\ apc' = [apc EXCEPT ![a] = "looked_up"]
    /\ areq' = [areq EXCEPT ![a] = [system |-> s, domain |-> d]]
    /\ UNCHANGED <<tables, sysWriter, nextSeq, lock, pc, locals, history>>

AdminDone(a) ==
    /\ apc' = [apc EXCEPT ![a] = "idle"]
    /\ areq' = [areq EXCEPT ![a] = None]

\* ... the INSERT waits for another transaction's uncommitted row of the same
\* name and fails if that row or an earlier one has committed ...
AdminInsert(a) ==
    LET s == areq[a].system IN
    /\ apc[a] = "looked_up" /\ sysWriter[s] = None
    /\ \/ /\ systems[s] = "absent"
          /\ apc' = [apc EXCEPT ![a] = "inserted"]
          /\ sysWriter' = [sysWriter EXCEPT ![s] = a]
          /\ UNCHANGED areq
       \/ systems[s] # "absent" /\ AdminDone(a) /\ UNCHANGED sysWriter
    /\ UNCHANGED <<tables, nextSeq, lock, pc, locals, history>>

\* ... and COMMIT publishes the system.
AdminCommit(a) ==
    /\ apc[a] = "inserted"
    /\ systems' = [systems EXCEPT ![areq[a].system] = areq[a].domain]
    /\ AdminDone(a) /\ EndTransaction(a)
    /\ UNCHANGED <<ruled, decisions, resolved, evidence_chain, reviews, nextSeq, pc,
                   locals, history>>

AdminFail(a) ==
    /\ apc[a] # "idle"
    /\ AdminDone(a) /\ EndTransaction(a)
    /\ UNCHANGED <<tables, nextSeq, pc, locals, history>>

\* The first rules of a domain are committed, by POST /protected-attribute-rules
\* or by the seed tool; rules are never withdrawn.
AddRule(d) ==
    /\ d \notin ruled /\ ruled' = ruled \cup {d}
    /\ UNCHANGED <<systems, decisions, resolved, evidence_chain, reviews, sysWriter,
                   nextSeq, lock, pc, locals, admin, history>>
-----------------------------------------------------------------------------
Advance(w) ==
    \/ LookupSystem(w) \/ ProvisionSystem(w) \/ InsertDecision(w)
    \/ ResolveAttributes(w) \/ ReadLatestHash(w) \/ InsertChainRow(w)
    \/ Commit(w) \/ QueueReview(w) \/ Respond(w)

AdminAdvance(a) == AdminInsert(a) \/ AdminCommit(a)

Next ==
    \/ \E w \in Worker :
          \/ \E e \in Event, s \in Status : Receive(w, e, s)
          \/ AcquireLock(w) \/ Advance(w) \/ Fail(w)
    \/ \E a \in Admin :
          \/ \E s \in System, d \in Registered : AdminLookup(a, s, d)
          \/ AdminAdvance(a) \/ AdminFail(a)
    \/ \E d \in Domain : AddRule(d)

Spec == Init /\ [][Next]_vars

\* Every running request keeps executing.  Postgres grants the advisory lock in
\* arrival order, and wakes an INSERT that waits for another transaction's row
\* as soon as that transaction ends, so neither waiter is passed over for ever.
Fairness ==
    /\ \A w \in Worker : /\ WF_vars(Advance(w))
                         /\ SF_vars(AcquireLock(w)) /\ SF_vars(ProvisionSystem(w))
    /\ \A a \in Admin : WF_vars(AdminAdvance(a))

LiveSpec == Spec /\ Fairness
-----------------------------------------------------------------------------
\* Every variable holds a value of its kind; a request in flight has a payload.
TypeOK ==
    /\ systems \in [System -> Registered \cup {"absent"}]
    /\ sysWriter \in [System -> Worker \cup Admin \cup {None}]
    /\ ruled \subseteq Domain
    /\ decisions \subseteq Payload /\ resolved \subseteq Event /\ governed \subseteq Event
    /\ DOMAIN evidence_chain \subseteq Nat
    /\ evidence_chain \in [DOMAIN evidence_chain -> ChainRow]
    /\ nextSeq \in Nat
    /\ reviews \subseteq Payload /\ acked \subseteq Payload
    /\ lock \in Worker \cup {None}
    /\ pc \in [Worker -> InTx \cup Committed \cup {"idle"}]
    /\ req \in [Worker -> Payload \cup {None}]
    /\ \A w \in Worker : pc[w] # "idle" => req[w] \in Payload
    /\ seen \in [Worker -> Registered \cup {"absent"}]
    /\ resolving \in [Worker -> BOOLEAN]
    /\ prev \in [Worker -> Hash] /\ seq \in [Worker -> Nat]
    /\ apc \in [Admin -> {"idle", "looked_up", "inserted"}]
    /\ areq \in [Admin -> [system : System, domain : Registered] \cup {None}]
    /\ \A a \in Admin : apc[a] # "idle" =>
          areq[a] \in [system : System, domain : Registered]

\* Row n continues the chain: its hash covers its payload and previous_hash,
\* which is the genesis hash if it is the first row, and otherwise the hash of
\* the row just before it in sequence order.
First(n) ==
    /\ \A k \in DOMAIN evidence_chain : n <= k
    /\ evidence_chain[n].previous_hash = GENESIS_HASH
Follows(n, m) ==
    /\ m < n /\ \A k \in DOMAIN evidence_chain : k < n => k <= m
    /\ evidence_chain[n].previous_hash = evidence_chain[m].record_hash
Linked(n) ==
    /\ evidence_chain[n].record_hash =
          compute_hash(evidence_chain[n].previous_hash, evidence_chain[n].payload)
    /\ First(n) \/ \E m \in DOMAIN evidence_chain : Follows(n, m)

\* However requests interleave, abort or crash, the committed rows in sequence
\* order form one unbroken, unforked chain: append never lets two transactions
\* extend the same row, nor a row commit below one that was built without it.
ChainLinked == \A n \in DOMAIN evidence_chain : Linked(n)

\* A decision event is recorded at most once, and exactly the decisions in the
\* operational tables are on the chain, whichever of several deliveries of the
\* event wins and whatever their verdicts are.
OneRecordPerEvent ==
    /\ decisions = {evidence_chain[n].payload : n \in DOMAIN evidence_chain}
    /\ \A m, n \in DOMAIN evidence_chain :
          evidence_chain[m].payload.event = evidence_chain[n].payload.event => m = n

\* Attribute rules apply from the moment they are there: a recorded decision has
\* its protected attributes resolved if its system was registered with a domain
\* that had rules when its row was inserted, although append looked the system
\* up earlier and outside any lock the admin endpoint takes; and none is resolved
\* whose system is registered with another domain or without one.  Decisions
\* recorded before the first rule stay unresolved.
RulesApplied ==
    /\ \A e \in governed : Decided(e) => e \in resolved
    /\ \A e \in resolved : Decided(e) /\ systems[SystemOf[e]] \in ruled

\* The chain seen as the abstract ledger: append and its acknowledgements
\* implement EvidenceLedger, so the ledger grows only at its end and append
\* returns only for a decision that is, and stays, recorded.
Ledger == INSTANCE EvidenceLedger WITH
    Position <- 1..MaxSeq,
    ledger <- [n \in DOMAIN evidence_chain |-> evidence_chain[n].payload],
    acked <- acked
LedgerSpec == Ledger!Spec

\* Every accepted request ends, with an answer or an error: no order of lock
\* waits and unique-index waits, with the admin endpoint taking only the
\* second kind, leaves a request waiting for ever.
RequestsEnd == \A w \in Worker : pc[w] = "waiting" ~> pc[w] = "idle"
=============================================================================
