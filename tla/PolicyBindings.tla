--------------------------- MODULE PolicyBindings ---------------------------
(***************************************************************************)
(* The bindings of one policy to one adapter, as admins create, activate   *)
(* and deactivate them while the seed tool makes sure that there is one.   *)
(* The table of population policy bindings has the same repository and     *)
(* endpoints, and no seed runs.                                            *)
(*                                                                         *)
(* create looks before it inserts, in one transaction with two statements  *)
(* that matter, and the seed tool commits only when everything else is     *)
(* seeded; the partial unique index makes every other insert and           *)
(* activation wait for such an open transaction.  set_lifecycle_state is   *)
(* one conditional UPDATE on a row it locks, so it is one step.            *)
(***************************************************************************)
CONSTANTS Binding,    \* binding ids
          Severity,
          Request,    \* POST .../policy-bindings requests
          Seeder,     \* runs of the seed tool
          None

ASSUME BindingAssumption == Request \cap Seeder = {} /\ None \notin Binding \cup Severity

Tx == Request \cup Seeder
PolicyBindingLifecycleState == {"ACTIVE", "INACTIVE"}
PolicyBinding == [lifecycle_state : PolicyBindingLifecycleState, severity : Severity]
NoRow == [lifecycle_state |-> "none"]

VARIABLES
    policy_bindings,   \* committed rows: binding id |-> PolicyBinding, or NoRow
    pc,                \* per transaction: its next statement, or how it ended
    wanted,            \* per transaction: the severity it is to create
    inserted           \* per transaction: the row it has inserted, or None

vars == <<policy_bindings, pc, wanted, inserted>>

Ended == {"created", "conflict", "exists", "error", "lost"}
Place == Ended \cup {"idle", "lookup", "insert", "commit"}

Init ==
    /\ policy_bindings = [b \in Binding |-> NoRow]
    /\ pc = [t \in Tx |-> "idle"]
    /\ wanted = [t \in Tx |-> None]
    /\ inserted = [t \in Tx |-> None]

Goto(t, place) == pc' = [pc EXCEPT ![t] = place]
Exists(b) == policy_bindings[b] # NoRow
IsActive(b) == policy_bindings[b].lifecycle_state = "ACTIVE"
Pending == {inserted[t] : t \in Tx} \ {None}
-----------------------------------------------------------------------------
\* A request arrives, or the tool reaches this binding in its list.
Start(t, s) ==
    /\ pc[t] \in Ended \cup {"idle"}
    /\ Goto(t, "lookup")
    /\ wanted' = [wanted EXCEPT ![t] = s]
    /\ UNCHANGED <<policy_bindings, inserted>>

\* get_active_by_identity: an active binding is a 409.
get_active_by_identity(t) ==
    /\ pc[t] = "lookup"
    /\ Goto(t, IF \E b \in Binding : IsActive(b) THEN "conflict" ELSE "insert")
    /\ UNCHANGED <<policy_bindings, wanted, inserted>>

\* get_by_identity: a binding in any state is left alone; scalar_one_or_none
\* raises if there is more than one.
get_by_identity(t) ==
    LET found == {b \in Binding : Exists(b)} IN
    /\ pc[t] = "lookup"
    /\ \/ found = {} /\ Goto(t, "insert")
       \/ (\E b \in found : found = {b}) /\ Goto(t, "exists")
       \/ (\E b, c \in found : b # c) /\ Goto(t, "error")
    /\ UNCHANGED <<policy_bindings, wanted, inserted>>

\* Mutant: no unique index.
createUnchecked(t, b) ==
    /\ pc[t] = "insert"
    /\ ~ Exists(b) /\ b \notin Pending
    /\ inserted' = [inserted EXCEPT ![t] = b]
    /\ Goto(t, "commit")
    /\ UNCHANGED <<policy_bindings, wanted>>

\* create: the INSERT waits for an uncommitted ACTIVE row of the same key, and
\* fails if an ACTIVE row is committed (ValueError: a 500, or a failed run).
create(t, b) ==
    /\ pc[t] = "insert" /\ Pending = {}
    /\ \/ /\ \A c \in Binding : ~ IsActive(c)
          /\ ~ Exists(b)
          /\ inserted' = [inserted EXCEPT ![t] = b]
          /\ Goto(t, "commit")
       \/ /\ \E c \in Binding : IsActive(c)
          /\ Goto(t, "error")
          /\ UNCHANGED inserted
    /\ UNCHANGED <<policy_bindings, wanted>>

Commit(t) ==
    /\ pc[t] = "commit"
    /\ policy_bindings' = [policy_bindings EXCEPT ![inserted[t]] =
                             [lifecycle_state |-> "ACTIVE", severity |-> wanted[t]]]
    /\ inserted' = [inserted EXCEPT ![t] = None]
    /\ Goto(t, "created")
    /\ UNCHANGED wanted

\* The connection is lost, or another part of the seed run fails.
Fail(t) ==
    /\ pc[t] \in {"lookup", "insert", "commit"}
    /\ Goto(t, "lost")
    /\ inserted' = [inserted EXCEPT ![t] = None]
    /\ UNCHANGED <<policy_bindings, wanted>>

\* Mutant: activation is not checked against the index.
activateUnchecked(b) ==
    /\ Exists(b) /\ ~ IsActive(b)
    /\ policy_bindings' = [policy_bindings EXCEPT ![b].lifecycle_state = "ACTIVE"]
    /\ UNCHANGED <<pc, wanted, inserted>>

\* activate: 409 if the binding is ACTIVE; the index makes the UPDATE wait for
\* an uncommitted ACTIVE row and fail if another is committed.
activate(b) ==
    /\ Exists(b) /\ ~ IsActive(b)
    /\ Pending = {} /\ \A c \in Binding : ~ IsActive(c)
    /\ policy_bindings' = [policy_bindings EXCEPT ![b].lifecycle_state = "ACTIVE"]
    /\ UNCHANGED <<pc, wanted, inserted>>

\* deactivate: 409 if the binding is INACTIVE.
deactivate(b) ==
    /\ IsActive(b)
    /\ policy_bindings' = [policy_bindings EXCEPT ![b].lifecycle_state = "INACTIVE"]
    /\ UNCHANGED <<pc, wanted, inserted>>
-----------------------------------------------------------------------------
Next ==
    \/ \E t \in Tx :
          \/ \E s \in Severity : Start(t, s)
          \/ t \in Request /\ get_active_by_identity(t)
          \/ t \in Seeder /\ get_by_identity(t)
          \/ \E b \in Binding : create(t, b)
          \/ Commit(t) \/ Fail(t)
    \/ \E b \in Binding : activate(b) \/ deactivate(b)

Spec == Init /\ [][Next]_vars
-----------------------------------------------------------------------------
\* Every variable keeps its type, and a row is pending exactly before COMMIT.
TypeOK ==
    /\ policy_bindings \in [Binding -> PolicyBinding \cup {NoRow}]
    /\ pc \in [Tx -> Place]
    /\ wanted \in [Tx -> Severity \cup {None}]
    /\ inserted \in [Tx -> Binding \cup {None}]
    /\ \A t \in Tx : pc[t] = "commit" <=> inserted[t] # None
    /\ \A t \in Tx : pc[t] = "idle" <=> wanted[t] = None

\* A policy governs an adapter through at most one binding, so a decision is
\* never judged at two severities of one policy, whatever creations,
\* activations and seed runs overlap.
OneActive ==
    \A b, c \in Binding : IsActive(b) /\ IsActive(c) => b = c

\* list_active_for_adapter: the severity at which the policy governs the adapter.
InForce ==
    IF \E b \in Binding : IsActive(b)
    THEN policy_bindings[CHOOSE b \in Binding : IsActive(b)].severity ELSE None

Register == INSTANCE BindingInForce WITH Setting <- Severity, in_force <- InForce

\* For the route the table is a register that is set only while it is empty: a
\* severity that governs is not exchanged for another in one step, whoever
\* creates, activates and seeds at the same time.
InForceSpec == Register!Spec

\* Which severity governed when stays reconstructible: a binding is never
\* deleted, keeps its severity, and appears as ACTIVE.
BindingHistory ==
    [][\A b \in Binding :
          LET old == policy_bindings[b]  new == policy_bindings'[b] IN
          /\ Exists(b) => new # NoRow /\ new.severity = old.severity
          /\ ~ Exists(b) /\ new # NoRow => new.lifecycle_state = "ACTIVE"]_vars

\* "An admin's deliberate severity change must never be silently reverted": a
\* seed run that creates a binding found none governing when it committed,
\* although it looked long before.
SeedRespectsAdmins ==
    [][\A t \in Seeder : pc[t] = "commit" /\ pc'[t] = "created" =>
          \A b \in Binding : ~ IsActive(b)]_vars
=============================================================================
