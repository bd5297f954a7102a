--------------------------- MODULE PluginRegistry ---------------------------
(***************************************************************************)
(* The lifecycle of the versions of one plugin (one plugin_type and        *)
(* plugin_id), as admin requests and the seed tool change it concurrently  *)
(* at READ COMMITTED.                                                      *)
(*                                                                         *)
(* promote is an ORM read followed by writes: it decides on the row it has *)
(* loaded, and its UPDATEs name the row by id alone.  Each statement is an *)
(* action.  An UPDATE waits for the transaction that has written the row;  *)
(* the index entry of a PRODUCTION row waits for a transaction that may    *)
(* still free, or take, the slot.  What a transaction has written is       *)
(* pending until it commits.                                               *)
(***************************************************************************)
EXTENDS FiniteSets

CONSTANTS Version,    \* deployed versions of the plugin
          Tx,         \* admin requests and runs of the seed tool
          None

ASSUME RegistryAssumption == None \notin Tx \cup Version

PluginLifecycleState == {"DRAFT", "SHADOW", "PRODUCTION"}
_NEXT_STATE == [DRAFT |-> "SHADOW", SHADOW |-> "PRODUCTION"]

VARIABLES
    registrations,   \* committed rows: version |-> lifecycle_state, or "absent"
    writer,          \* version |-> open transaction that has written its row
    pending,         \* version |-> what that transaction wrote
    pc, op,          \* per transaction: next statement; which caller it serves
    target,          \* per transaction: the version it is about
    current,         \* per transaction: the lifecycle_state it has loaded
    previous         \* per transaction: the version it demotes

rows == <<registrations, writer, pending>>
request == <<op, target>>
vars == <<rows, pc, request, current, previous>>

Op == {"register", "promote", "seed"}
Place == {"idle", "lookup", "insert", "read", "find", "demote", "write",
          "check", "commit"}

Init ==
    /\ registrations = [v \in Version |-> "absent"]
    /\ writer = [v \in Version |-> None]
    /\ pending = [v \in Version |-> "absent"]
    /\ pc = [t \in Tx |-> "idle"] /\ op = [t \in Tx |-> "register"]
    /\ target = [t \in Tx |-> None] /\ current = [t \in Tx |-> "absent"]
    /\ previous = [t \in Tx |-> None]

At(t, place) == pc[t] = place
Goto(t, place) == pc' = [pc EXCEPT ![t] = place]

\* What a SELECT of transaction t sees of version v.
Visible(t, v) == IF writer[v] = t THEN pending[v] ELSE registrations[v]

Free(t, v) == writer[v] \in {None, t}
Store(t, v, state) ==
    /\ writer' = [writer EXCEPT ![v] = t]
    /\ pending' = [pending EXCEPT ![v] = state]

\* Mutant: a session that is never closed.
EndKeepRows(t) ==
    /\ Goto(t, "idle")
    /\ target' = [target EXCEPT ![t] = None]
    /\ current' = [current EXCEPT ![t] = "absent"]
    /\ previous' = [previous EXCEPT ![t] = None]
    /\ UNCHANGED <<op, writer, pending>>

End(t) ==
    /\ Goto(t, "idle")
    /\ target' = [target EXCEPT ![t] = None]
    /\ current' = [current EXCEPT ![t] = "absent"]
    /\ previous' = [previous EXCEPT ![t] = None]
    /\ writer' = [v \in Version |-> IF writer[v] = t THEN None ELSE writer[v]]
    /\ pending' = [v \in Version |-> IF writer[v] = t THEN "absent" ELSE pending[v]]
    /\ UNCHANGED op

Rollback(t) == End(t) /\ UNCHANGED registrations
-----------------------------------------------------------------------------
\* POST /plugins and the seed tool look the identity up first; POST
\* /plugins/{id}/promote has an existing row's id.
Start(t, o, v) ==
    /\ At(t, "idle")
    /\ o = "promote" => registrations[v] # "absent"
    /\ Goto(t, IF o = "promote" THEN "read" ELSE "lookup")
    /\ op' = [op EXCEPT ![t] = o] /\ target' = [target EXCEPT ![t] = v]
    /\ UNCHANGED <<rows, current, previous>>

\* get_by_identity: a registered version is a 409 for the endpoint, and what
\* the seed tool promotes until it is PRODUCTION.
Lookup(t) ==
    LET state == Visible(t, target[t]) IN
    /\ At(t, "lookup")
    /\ \/ /\ state = "absent" /\ Goto(t, "insert")
          /\ UNCHANGED <<rows, request, current, previous>>
       \/ /\ op[t] = "register" /\ state # "absent" /\ Rollback(t)
       \/ /\ op[t] = "seed" /\ state # "absent"
          /\ Goto(t, IF state = "PRODUCTION" THEN "commit" ELSE "read")
          /\ UNCHANGED <<rows, request, current, previous>>

\* create: the identity's unique constraint turns a lost race into an error.
Insert(t) ==
    LET v == target[t] IN
    /\ At(t, "insert") /\ Free(t, v)
    /\ \/ /\ registrations[v] = "absent"
          /\ Store(t, v, "DRAFT")
          /\ Goto(t, IF op[t] = "seed" THEN "read" ELSE "commit")
          /\ UNCHANGED <<registrations, request, current, previous>>
       \/ registrations[v] # "absent" /\ Rollback(t)

\* promote: session.get.  A PRODUCTION row is an error; only a promotion into
\* PRODUCTION looks for the version it replaces.
Read(t) ==
    LET state == Visible(t, target[t]) IN
    /\ At(t, "read")
    /\ \/ /\ state \in DOMAIN _NEXT_STATE
          /\ current' = [current EXCEPT ![t] = state]
          /\ Goto(t, IF state = "SHADOW" THEN "find" ELSE "write")
          /\ UNCHANGED <<rows, request, previous>>
       \/ state \notin DOMAIN _NEXT_STATE /\ Rollback(t)

\* promote: SELECT the PRODUCTION row.  If it is the target itself, promoted
\* since it was loaded, its demotion writes nothing.
FindPrevious(t) ==
    LET holders == {v \in Version \ {target[t]} : Visible(t, v) = "PRODUCTION"} IN
    /\ At(t, "find")
    /\ \/ /\ holders = {} /\ Goto(t, "write") /\ UNCHANGED previous
       \/ \E v \in holders : /\ previous' = [previous EXCEPT ![t] = v]
                             /\ Goto(t, "demote")
    /\ UNCHANGED <<rows, request, current>>

\* Mutant: the replaced version goes back to DRAFT.
DemoteToDraft(t) ==
    /\ At(t, "demote") /\ Free(t, previous[t])
    /\ Store(t, previous[t], "DRAFT")
    /\ Goto(t, "write")
    /\ UNCHANGED <<registrations, request, current, previous>>

\* Mutant: commit() instead of flush().
DemoteCommitted(t) ==
    /\ At(t, "demote") /\ Free(t, previous[t])
    /\ registrations' = [registrations EXCEPT ![previous[t]] = "SHADOW"]
    /\ Goto(t, "write")
    /\ UNCHANGED <<writer, pending, request, current, previous>>

\* promote: UPDATE the previous version to SHADOW, a flush of its own.
Demote(t) ==
    /\ At(t, "demote") /\ Free(t, previous[t])
    /\ Store(t, previous[t], "SHADOW")
    /\ Goto(t, "write")
    /\ UNCHANGED <<registrations, request, current, previous>>

\* promote: UPDATE the target to the stage after the one that was loaded.  The
\* seed tool promotes again until that is PRODUCTION.
Write(t) ==
    LET next == _NEXT_STATE[current[t]] IN
    /\ At(t, "write") /\ Free(t, target[t])
    /\ Store(t, target[t], next)
    /\ Goto(t, IF next = "PRODUCTION" THEN "check"
               ELSE IF op[t] = "seed" THEN "read" ELSE "commit")
    /\ UNCHANGED <<registrations, request, current, previous>>

\* Other versions whose open transaction may yet leave the slot to t or take it.
Contended(t) ==
    {v \in Version \ {target[t]} :
        /\ ~ Free(t, v)
        /\ \/ registrations[v] = "PRODUCTION"
           \/ pending[v] = "PRODUCTION" /\ At(writer[v], "commit")}

\* Mutant: no index, only promote's own look for the PRODUCTION row.
CheckIndexDropped(t) ==
    /\ At(t, "check") /\ Goto(t, "commit")
    /\ UNCHANGED <<rows, request, current, previous>>

\* one_production_version_per_plugin, at the end of that UPDATE.
CheckIndex(t) ==
    LET taken == \E v \in Version \ {target[t]} :
                    writer[v] = None /\ registrations[v] = "PRODUCTION" IN
    /\ At(t, "check") /\ Contended(t) = {}
    /\ \/ /\ ~ taken /\ Goto(t, "commit")
          /\ UNCHANGED <<rows, request, current, previous>>
       \/ taken /\ Rollback(t)

Commit(t) ==
    /\ At(t, "commit")
    /\ registrations' = [v \in Version |-> Visible(t, v)]
    /\ End(t)

\* Any failure of the request.
Fail(t) == ~ At(t, "idle") /\ Rollback(t)

\* The transactions t waits for.
WaitsFor(t) ==
    LET holders(V) == {writer[v] : v \in {u \in V : ~ Free(t, u)}} IN
    CASE pc[t] \in {"insert", "write"} -> holders({target[t]})
      [] pc[t] = "demote" -> holders({previous[t]})
      [] pc[t] = "check" -> holders(Contended(t))
      [] OTHER -> {}

\* deadlock_timeout: Postgres aborts a transaction of a cycle of waits.
BreakDeadlock(t) ==
    /\ \E S \in SUBSET Tx : t \in S /\ \A x \in S : WaitsFor(x) \cap S # {}
    /\ Rollback(t)
-----------------------------------------------------------------------------
Statement(t) ==
    \/ Lookup(t) \/ Insert(t) \/ Read(t) \/ FindPrevious(t) \/ Demote(t)
    \/ Write(t) \/ CheckIndex(t) \/ Commit(t)

Next ==
    \E t \in Tx :
        \/ \E o \in Op, v \in Version : Start(t, o, v)
        \/ Statement(t) \/ BreakDeadlock(t) \/ Fail(t)

Spec == Init /\ [][Next]_vars

\* A request that can proceed does; lock waits are granted in order of arrival.
Fairness == \A t \in Tx : SF_vars(Statement(t)) /\ WF_vars(BreakDeadlock(t))

LiveSpec == Spec /\ Fairness
-----------------------------------------------------------------------------
\* Every variable keeps its type.
TypeOK ==
    /\ registrations \in [Version -> PluginLifecycleState \cup {"absent"}]
    /\ writer \in [Version -> Tx \cup {None}]
    /\ pending \in [Version -> PluginLifecycleState \cup {"absent"}]
    /\ pc \in [Tx -> Place] /\ op \in [Tx -> Op]
    /\ target \in [Tx -> Version \cup {None}]
    /\ current \in [Tx -> PluginLifecycleState \cup {"absent"}]
    /\ previous \in [Tx -> Version \cup {None}]

\* The version that governs real decisions is unique at every moment, whatever
\* promotions and seed runs overlap.
OneProduction ==
    \A u, v \in Version :
        registrations[u] = "PRODUCTION" /\ registrations[v] = "PRODUCTION" => u = v

\* A version reaches PRODUCTION through SHADOW unless the seed tool put it
\* there, a replaced one goes to SHADOW and stays observable, and none is
\* lost or sent back to DRAFT, although promote writes a stage it computed
\* from a row that may have changed since.
StageOrder ==
    [][\A v \in Version :
          LET old == registrations[v]  new == registrations'[v] IN
          /\ old \in {"SHADOW", "PRODUCTION"} => new \in {"SHADOW", "PRODUCTION"}
          /\ old = "DRAFT" => new # "absent"
          /\ new = "PRODUCTION" /\ old \in {"absent", "DRAFT"} =>
                \E t \in Tx : At(t, "commit") /\ op[t] = "seed"]_vars

Serving == \E v \in Version : registrations[v] = "PRODUCTION"

\* This step is the COMMIT of t, and changes something.
Succeeds(t) ==
    /\ At(t, "commit") /\ ~ At(t, "commit")'
    /\ registrations' # registrations

\* Ingestion answers 503 while a bound policy has no PRODUCTION version.  A
\* plugin in production stays there through every replacement; only a promotion
\* that had loaded the holder as DRAFT, and commits late, takes it out.
ProductionKept ==
    [][Serving /\ ~ Serving' =>
          \E t \in Tx : /\ Succeeds(t) /\ current[t] = "DRAFT"
                        /\ registrations[target[t]] = "PRODUCTION"]_vars

\* A seed run that changed its version leaves it in PRODUCTION when it commits,
\* whatever admins did to the version between its statements.
SeedEndsInProduction ==
    [][\A t \in Tx : Succeeds(t) /\ op[t] = "seed" =>
          registrations'[target[t]] = "PRODUCTION"]_vars

Lifecycle == INSTANCE PluginLifecycle WITH stage <- registrations

\* For ingestion the registry moves one version at a time, each to a next stage,
\* and a replacement is seen whole or not at all, although promote writes its
\* two rows in statements of their own, between which others write.
LifecycleSpec == Lifecycle!Spec

\* Every request and seed run ends although promotions that cross each other
\* wait for one another's rows.
RequestsEnd == \A t \in Tx : ~ At(t, "idle") ~> At(t, "idle")

\* "It advances exactly one lifecycle stage": a promotion that succeeds leaves
\* its target one stage above where it was.
AdvancesOneStage ==
    [][\A t \in Tx : Succeeds(t) /\ op[t] = "promote" =>
          <<registrations[target[t]], registrations'[target[t]]>>
             \in {<<"DRAFT", "SHADOW">>, <<"SHADOW", "PRODUCTION">>}]_vars
=============================================================================
