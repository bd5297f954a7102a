---------------------------- MODULE RequestServer ----------------------------
(***************************************************************************)
(* One application process as its requests share it: the event loop, the   *)
(* worker threads of plain def handlers, the pool of database connections, *)
(* the append lock, and the principals that authenticate the requests.     *)
(*                                                                         *)
(* FastAPI runs a plain def handler (and a plain def dependency) in one of *)
(* a limited number of threads and everything async def on the event loop. *)
(* require_role and get_current_principal are async def and use a blocking *)
(* Session, so the loop does nothing else while they wait for a connection.*)
(* A QueuePool hands out PoolSize connections; a checkout that finds none  *)
(* waits, and raises TimeoutError after 30 seconds.                        *)
(*                                                                         *)
(* What a handler computes is left out; what it holds, for how long and in *)
(* which order it asks for more is kept.  A stage is named for what the    *)
(* request does, or waits for, in it.                                      *)
(***************************************************************************)
EXTENDS Integers, FiniteSets

CONSTANTS Request,     \* requests of the clients
          Sends,       \* request |-> the endpoints its client may send it to
          Principal,   \* principals, each standing for its bearer token
          RoleOf,      \* the role a principal is created with
          AUTH_ENABLED,
          PoolSize,    \* pool_size + max_overflow
          Threads,     \* worker threads
          None         \* nobody

Role == {"INGESTION", "REVIEWER", "ADMIN", "READ_ONLY"}
Kind == {"ingest", "change", "review", "read", "session", "readyz", "healthz"}

ASSUME ServerAssumption ==
    /\ Sends \in [Request -> SUBSET Kind] /\ RoleOf \in [Principal -> Role]
    /\ AUTH_ENABLED \in BOOLEAN
    /\ PoolSize \in Nat \ {0} /\ Threads \in Nat \ {0}
    /\ None \notin Request \cup Principal

\* The roles require_role is given where create_app and the routers wire it.
Permitted ==
    [k \in Kind |-> CASE k = "ingest" -> {"INGESTION", "ADMIN"}
                      [] k = "change" -> {"ADMIN"}
                      [] k = "review" -> {"REVIEWER", "ADMIN"}
                      [] OTHER        -> Role]
VARIABLES
    principals,  \* principal |-> its row: absent, active or revoked
    cookie,      \* the browser's session cookie: a principal's token or None
    stage,       \* request |-> where it is
    kind,        \* request |-> the endpoint it was last sent to
    token,       \* request |-> the credential it was sent with
    stale,       \* request |-> that credential was no good when it arrived
    conns,       \* connections that are checked out of the pool
    lock,        \* holder of the advisory lock of append
    recorded,    \* requests whose append has committed
    status       \* request |-> status code of its answer, 0 while it has none

access == <<principals, cookie>>
sent == <<kind, token, stale>>
vars == <<access, sent, stage, conns, lock, recorded, status>>

\* Stages by what the request occupies: the event loop, or a thread with no, one
\* or two connections.  In a stage of Wants it waits for a connection.
OnLoop == {"auth_wait", "auth"}
Holds0 == {"begin", "appending", "refreshing", "shadow_wait"}
Holds1 == {"handle", "lock_wait", "rules_wait", "writing", "review_wait", "shadowing"}
Holds2 == {"rules", "reviewing"}
InThread == Holds0 \cup Holds1 \cup Holds2
HoldsLock == {"rules_wait", "rules", "writing"}
Stage == {"idle", "accepted", "authorized", "answered"} \cup OnLoop \cup InThread
Wants == Holds0 \cup {"auth_wait", "rules_wait", "review_wait"}

Held(s) == IF s \in Holds2 THEN 2 ELSE IF s \in Holds1 \cup {"auth"} THEN 1 ELSE 0
Guarded(q) == AUTH_ENABLED /\ kind[q] \in {"ingest", "change", "review", "read"}
LoopFree == \A q \in Request : stage[q] \notin OnLoop
ThreadFree == Cardinality({q \in Request : stage[q] \in InThread}) < Threads
Usable(p) == p # None /\ principals[p] = "active"

Init ==
    /\ principals = [p \in Principal |-> "absent"]
    /\ cookie = None
    /\ stage = [q \in Request |-> "idle"] /\ kind = [q \in Request |-> "healthz"]
    /\ token = [q \in Request |-> None] /\ stale = [q \in Request |-> FALSE]
    /\ conns = 0 /\ lock = None
    /\ recorded = {}
    /\ status = [q \in Request |-> 0]

Goto(q, from, to) == stage[q] = from /\ stage' = [stage EXCEPT ![q] = to]

\* The route, or the exception handler that create_app registers for the
\* exception, has produced the answer.
Answer(q, code) ==
    /\ stage' = [stage EXCEPT ![q] = "answered"]
    /\ status' = [status EXCEPT ![q] = code]

\* The with blocks of the request are left: its connections go back to the pool
\* and the lock, which belongs to the transaction, is released.
ReleaseAll(q) ==
    /\ conns' = conns - Held(stage[q])
    /\ lock' = IF lock = q THEN None ELSE lock
-----------------------------------------------------------------------------
\* create_principal.py --name --role, and --revoke.
CreatePrincipal(p) ==
    /\ principals[p] = "absent"
    /\ principals' = [principals EXCEPT ![p] = "active"]
    /\ UNCHANGED <<cookie, sent, stage, conns, lock, recorded, status>>
RevokePrincipal(p) ==
    /\ principals[p] = "active"
    /\ principals' = [principals EXCEPT ![p] = "revoked"]
    /\ UNCHANGED <<cookie, sent, stage, conns, lock, recorded, status>>

\* _extract_token: the header if there is one, else the cookie.
_extract_token(header, jar) == IF header # None THEN header ELSE jar

\* A client sends request q, with a token it was given or none; the loop takes
\* it up.
Accept(q, k, header) ==
    LET t == _extract_token(header, cookie) IN
    /\ LoopFree /\ Goto(q, "idle", "accepted")
    /\ header # None => principals[header] # "absent"
    /\ kind' = [kind EXCEPT ![q] = k] /\ token' = [token EXCEPT ![q] = t]
    /\ stale' = [stale EXCEPT ![q] = ~ Usable(t)]
    /\ UNCHANGED <<access, conns, lock, recorded, status>>

\* health_check is async def and touches nothing.
health_check(q) ==
    /\ stage[q] = "accepted" /\ kind[q] = "healthz" /\ LoopFree
    /\ Answer(q, 200)
    /\ UNCHANGED <<access, sent, conns, lock, recorded>>

\* logout clears the cookie and nothing else.
Logout ==
    /\ cookie # None /\ cookie' = None
    /\ UNCHANGED <<principals, sent, stage, conns, lock, recorded, status>>

\* No role is required, or authentication is disabled.
Admit(q) ==
    /\ LoopFree /\ ~ Guarded(q) /\ kind[q] # "healthz"
    /\ Goto(q, "accepted", "authorized")
    /\ UNCHANGED <<access, sent, conns, lock, recorded, status>>

\* _require_role, once its plain def dependencies have had a thread: without a
\* credential 401, else get_current_principal opens a Session on the loop.
RequireRole(q) ==
    /\ LoopFree /\ ThreadFree /\ Guarded(q) /\ stage[q] = "accepted"
    /\ \/ token[q] = None /\ Answer(q, 401)
       \/ token[q] # None /\ Goto(q, "accepted", "auth_wait") /\ UNCHANGED status
    /\ UNCHANGED <<access, sent, conns, lock, recorded>>

\* Mutant: a principal that was found is let in, revoked or not.
AuthenticateUnrevoked(q) ==
    /\ stage[q] = "auth"
    /\ conns' = conns - 1
    /\ \/ RoleOf[token[q]] \notin Permitted[kind[q]] /\ Answer(q, 403)
       \/ /\ RoleOf[token[q]] \in Permitted[kind[q]]
          /\ Goto(q, "auth", "authorized") /\ UNCHANGED status
    /\ UNCHANGED <<access, sent, lock, recorded>>

\* resolve_principal_from_token and the role check, the Session being closed in
\* between: 401 for an unknown or revoked principal, 403 for a wrong role.
Authenticate(q) ==
    /\ stage[q] = "auth"
    /\ conns' = conns - 1
    /\ \/ ~ Usable(token[q]) /\ Answer(q, 401)
       \/ /\ Usable(token[q]) /\ RoleOf[token[q]] \notin Permitted[kind[q]]
          /\ Answer(q, 403)
       \/ /\ Usable(token[q]) /\ RoleOf[token[q]] \in Permitted[kind[q]]
          /\ Goto(q, "auth", "authorized") /\ UNCHANGED status
    /\ UNCHANGED <<access, sent, lock, recorded>>

\* The loop hands the plain def handler to a thread.
Dispatch(q) ==
    /\ LoopFree /\ ThreadFree
    /\ Goto(q, "authorized", "begin")
    /\ UNCHANGED <<access, sent, conns, lock, recorded, status>>

\* The loop sends the answer of a finished handler, and forgets the request.
Respond(q) ==
    /\ LoopFree
    /\ Goto(q, "answered", "idle")
    /\ kind' = [kind EXCEPT ![q] = "healthz"] /\ token' = [token EXCEPT ![q] = None]
    /\ stale' = [stale EXCEPT ![q] = FALSE] /\ status' = [status EXCEPT ![q] = 0]
    /\ recorded' = recorded \ {q}
    /\ UNCHANGED <<access, conns, lock>>
-----------------------------------------------------------------------------
\* Where a checkout leads.
AfterCheckout ==
    [auth_wait |-> "auth", begin |-> "handle", appending |-> "lock_wait",
     rules_wait |-> "rules", refreshing |-> "review_wait",
     review_wait |-> "reviewing", shadow_wait |-> "shadowing"]

\* Mutant: max_overflow = -1, a pool that always has another connection.
CheckoutOverflow(q) ==
    /\ stage[q] \in Wants
    /\ conns' = conns + 1
    /\ stage' = [stage EXCEPT ![q] = AfterCheckout[@]]
    /\ UNCHANGED <<access, sent, lock, recorded, status>>

\* The pool has a connection for the request.
Checkout(q) ==
    /\ stage[q] \in Wants /\ conns < PoolSize
    /\ conns' = conns + 1
    /\ stage' = [stage EXCEPT ![q] = AfterCheckout[@]]
    /\ UNCHANGED <<access, sent, lock, recorded, status>>

\* Mutant: a checkout that times out is tried again.
PoolTimeoutRetry(q) ==
    /\ stage[q] \in Wants /\ conns = PoolSize
    /\ UNCHANGED vars

\* An exception that the handler lets through; check_db_reachable catches its own.
ErrorCode(q) == IF kind[q] = "readyz" THEN 503 ELSE 500

\* append returns.  The handler answers, or first stores the findings of shadow
\* policies in Sessions that follow one another: one stands for them all.
Return(q) ==
    /\ \/ Answer(q, 200)
       \/ stage' = [stage EXCEPT ![q] = "shadow_wait"] /\ UNCHANGED status
    /\ ReleaseAll(q)

\* The pool has had none for 30 seconds: TimeoutError, also after the decision
\* is recorded.  _queue_verdict_review swallows it.
PoolTimeout(q) ==
    /\ stage[q] \in Wants /\ conns = PoolSize
    /\ \/ stage[q] = "review_wait" /\ Return(q)
       \/ stage[q] # "review_wait" /\ Answer(q, ErrorCode(q)) /\ ReleaseAll(q)
    /\ UNCHANGED <<access, sent, recorded>>

\* Mutant: the answer is sent from inside the with block.
FailInsideSession(q) ==
    /\ stage[q] \in Holds1 \cup Holds2
    /\ Answer(q, ErrorCode(q))
    /\ conns' = conns - 1
    /\ lock' = IF lock = q THEN None ELSE lock
    /\ UNCHANGED <<access, sent, recorded>>

\* A statement of the request fails, of require_role on the loop too, or the lock,
\* the rules or the handler raise.  _queue_verdict_review swallows what fails in it,
\* but not a refresh that fails after the commit.
Fail(q) ==
    /\ stage[q] \in {"auth"} \cup Holds1 \cup Holds2
    /\ \/ stage[q] = "reviewing" /\ Return(q)
       \/ stage[q] # "reviewing" /\ Answer(q, ErrorCode(q)) /\ ReleaseAll(q)
    /\ UNCHANGED <<access, sent, recorded>>
-----------------------------------------------------------------------------
\* A handler other than ingestion has done its work in one Session.
Handle(q) ==
    /\ stage[q] = "handle" /\ kind[q] \notin {"ingest", "session"}
    /\ \E code \in {200} \cup IF kind[q] = "readyz" THEN {503} ELSE {422} :
          Answer(q, code)
    /\ ReleaseAll(q)
    /\ UNCHANGED <<access, sent, recorded>>

\* create_session: the token of the request body becomes the cookie.
create_session(q) ==
    /\ stage[q] = "handle" /\ kind[q] = "session"
    /\ \/ Usable(token[q]) /\ cookie' = token[q] /\ Answer(q, 204)
       \/ ~ Usable(token[q]) /\ UNCHANGED cookie /\ Answer(q, 401)
    /\ ReleaseAll(q)
    /\ UNCHANGED <<principals, sent, recorded>>

\* The ingestion handler has read its registrations and governed the event, or
\* found that it cannot: the payload is invalid, or a policy is missing or too slow
\* (504, which counts as 503 here).
Govern(q) ==
    /\ stage[q] = "handle" /\ kind[q] = "ingest"
    /\ \/ Goto(q, "handle", "appending") /\ UNCHANGED status
       \/ \E code \in {422, 503} : Answer(q, code)
    /\ ReleaseAll(q)
    /\ UNCHANGED <<access, sent, recorded>>

\* pg_advisory_xact_lock; the resolver opens a Session of its own for a system
\* with a domain.
AcquireLock(q) ==
    /\ stage[q] = "lock_wait" /\ lock = None
    /\ lock' = q
    /\ \E s \in {"rules_wait", "writing"} : stage' = [stage EXCEPT ![q] = s]
    /\ UNCHANGED <<access, sent, conns, recorded, status>>

\* The rules are read; an attribute without a rule is a ValueError.
ResolveAttributes(q) ==
    /\ stage[q] = "rules"
    /\ \/ Goto(q, "rules", "writing") /\ conns' = conns - 1 /\ UNCHANGED <<lock, status>>
       \/ Answer(q, 422) /\ ReleaseAll(q)
    /\ UNCHANGED <<access, sent, recorded>>

\* session.commit() gives the connection back; the refresh wants one again.
Commit(q) ==
    /\ Goto(q, "writing", "refreshing")
    /\ recorded' = recorded \cup {q}
    /\ ReleaseAll(q)
    /\ UNCHANGED <<access, sent, status>>

\* Mutant: the review is created in the transaction of the decision, and the
\* answer is sent from there.
FinishFirst(q) ==
    /\ stage[q] \in {"writing", "review_wait", "reviewing"}
    /\ Answer(q, 200)
    /\ ReleaseAll(q)
    /\ UNCHANGED <<access, sent, recorded>>

\* The row is refreshed, and no review is wanted or it has been committed.
Finish(q) ==
    /\ stage[q] \in {"review_wait", "reviewing"}
    /\ Return(q)
    /\ UNCHANGED <<access, sent, recorded>>

\* The shadow findings are stored.
FinishShadows(q) ==
    /\ stage[q] = "shadowing"
    /\ Answer(q, 200)
    /\ ReleaseAll(q)
    /\ UNCHANGED <<access, sent, recorded>>
-----------------------------------------------------------------------------
Clients ==
    \/ \E p \in Principal : CreatePrincipal(p) \/ RevokePrincipal(p)
    \/ \E q \in Request, h \in Principal \cup {None} :
          \E k \in Sends[q] : Accept(q, k, h)
    \/ Logout

Loop(q) == health_check(q) \/ Admit(q) \/ RequireRole(q) \/ Dispatch(q) \/ Respond(q)

Running(q) ==
    \/ Checkout(q) \/ PoolTimeout(q)
    \/ Authenticate(q) \/ Handle(q) \/ create_session(q) \/ Govern(q)
    \/ ResolveAttributes(q) \/ Commit(q) \/ Finish(q) \/ FinishShadows(q)

Step(q) == Loop(q) \/ Running(q) \/ AcquireLock(q)

Next == Clients \/ \E q \in Request : Step(q) \/ Fail(q)

Spec == Init /\ [][Next]_vars

\* Every request is served again and again while it can take a step: a running
\* one runs on, a checkout ends one way or the other, the loop serves what is
\* ready in turn, threads are given out in the order of arrival, and Postgres
\* grants the lock in that order.
Fairness == \A q \in Request : SF_vars(Step(q))

LiveSpec == Spec /\ Fairness
-----------------------------------------------------------------------------
\* Every variable keeps its type, and no more connections are out than the pool
\* has, however checkouts nest and time out.
TypeOK ==
    /\ principals \in [Principal -> {"absent", "active", "revoked"}]
    /\ cookie \in Principal \cup {None}
    /\ stage \in [Request -> Stage]
    /\ kind \in [Request -> Kind]
    /\ token \in [Request -> Principal \cup {None}]
    /\ stale \in [Request -> BOOLEAN]
    /\ conns \in 0..PoolSize
    /\ lock \in Request \cup {None}
    /\ recorded \subseteq Request
    /\ status \in [Request -> {0, 200, 204, 401, 403, 422, 500, 503}]

\* Whatever times out or fails between a request's nested checkouts, the pool
\* is owed exactly the connections of the requests that still hold some, and
\* the append lock is held by a request that is inside append: nothing leaks,
\* no more are out than there are, and an idle server has its whole pool.
NothingLeaks ==
    /\ conns <= PoolSize
    /\ conns = Cardinality({q \in Request : Held(stage[q]) >= 1})
               + Cardinality({q \in Request : Held(stage[q]) = 2})
    /\ \A q \in Request : lock = q <=> stage[q] \in HoldsLock

\* A handler behind require_role runs only for a principal with a permitted
\* role whose credential was good when the request arrived: neither a cookie
\* that outlives its principal nor a revocation while the request waits for the
\* loop lets a stale credential through.
OnlyEntitled ==
    \A q \in Request : Guarded(q) /\ stage[q] \in InThread \cup {"authorized"} =>
        /\ token[q] # None /\ ~ stale[q]
        /\ RoleOf[token[q]] \in Permitted[kind[q]]

\* The answer tells the caller of the ingestion route what it may conclude: 200
\* that the decision is on the chain, an error it is to correct (401, 403, 422)
\* or a refusal (503) that it is not.  Only a 500 leaves it open.
AnswerTells ==
    \A q \in Request : kind[q] = "ingest" =>
        /\ status[q] = 200 => q \in recorded
        /\ status[q] \in {401, 403, 422, 503} => q \notin recorded

\* Every request is answered in the end, although appends wait for one another
\* with connections in hand, the holder of the lock waits for a connection they
\* may have, and the event loop waits with them.
RequestsAnswered == \A q \in Request : stage[q] = "accepted" ~> stage[q] = "idle"
=============================================================================
