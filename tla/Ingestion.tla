------------------------------ MODULE Ingestion ------------------------------
(***************************************************************************)
(* One adapter's ingestion route: which policies govern an event is read   *)
(* from the database on every request, statement by statement, while       *)
(* admins change bindings and promote versions; the verdict is appended to *)
(* the evidence store; the versions in SHADOW are run afterwards.          *)
(*                                                                         *)
(* The components the route calls appear as what has been shown of them:   *)
(* EvidenceChain records an event at most once, PluginRegistry keeps one   *)
(* version of a policy in PRODUCTION and the order of stages,              *)
(* PolicyBindings keeps at most one active severity per policy.  Whether a *)
(* policy flags an event is left open.                                     *)
(***************************************************************************)
EXTENDS Naturals

CONSTANTS Worker,       \* requests being served
          Event,        \* decision event ids
          Policy,       \* policy families
          Version,      \* versions of a policy
          Plugin,       \* the <<policy, version>> pairs that can be registered
          Deployed,     \* ... and those whose class this process knows
          PolicySeverity,
          None

ASSUME IngestionAssumption ==
    /\ Plugin \subseteq Policy \X Version /\ Deployed \subseteq Policy \X Version
    /\ PolicySeverity \subseteq {"LOW", "MEDIUM", "HIGH"} /\ None \notin PolicySeverity

VerdictStatus == {"ALLOW", "ALLOW_WITH_FLAG", "ESCALATE_FOR_REVIEW", "RECOMMEND_HOLD"}
Stage == {"absent", "DRAFT", "SHADOW", "PRODUCTION"}
Finding == [plugin : Plugin, severity : PolicySeverity, flagged : BOOLEAN]
Verdict == [findings : SUBSET Finding, status : VerdictStatus]

VARIABLES
    accepting,        \* the adapter's registration has left DRAFT
    binding,          \* policy |-> severity of its active binding, or None
    stage,            \* plugin |-> lifecycle_state
    verdicts,         \* event |-> its recorded verdict, or NoVerdict
    shadow_findings,  \* set of <<event, plugin>>
    pc, event,        \* per request: where it is, its event
    bound,            \* per request: the bindings it has read
    governing,        \* per request: production_policies
    shadows,          \* per request: shadow_registrations still to run
    verdict,          \* per request: the engine's verdict
    answer            \* per request: the response given

config == <<accepting, binding, stage>>
store == <<verdicts, shadow_findings>>
locals == <<event, bound, governing, shadows, verdict>>
vars == <<config, store, pc, locals, answer>>

NoBindings == [p \in Policy |-> None]
NoVerdict == [findings |-> {}, status |-> "none"]
Place == {"idle", "bindings", "registrations", "append", "shadow"}

Init ==
    /\ accepting = FALSE
    /\ binding = NoBindings
    /\ stage = [g \in Plugin |-> "absent"]
    /\ verdicts = [e \in Event |-> NoVerdict] /\ shadow_findings = {}
    /\ pc = [w \in Worker |-> "idle"] /\ event = [w \in Worker |-> None]
    /\ bound = [w \in Worker |-> NoBindings]
    /\ governing = [w \in Worker |-> {}] /\ shadows = [w \in Worker |-> {}]
    /\ verdict = [w \in Worker |-> NoVerdict] /\ answer = [w \in Worker |-> "none"]

Goto(w, from, to) == pc[w] = from /\ pc' = [pc EXCEPT ![w] = to]

\* The handler returns or raises: code c goes to the caller, its locals vanish.
Answer(w, c) ==
    /\ pc' = [pc EXCEPT ![w] = "idle"] /\ answer' = [answer EXCEPT ![w] = c]
    /\ event' = [event EXCEPT ![w] = None] /\ bound' = [bound EXCEPT ![w] = NoBindings]
    /\ governing' = [governing EXCEPT ![w] = {}] /\ shadows' = [shadows EXCEPT ![w] = {}]
    /\ verdict' = [verdict EXCEPT ![w] = NoVerdict]

Refuse(w, c) == Answer(w, c) /\ UNCHANGED <<config, store>>

_SEVERITY_TO_STATUS == [LOW |-> "ALLOW_WITH_FLAG", MEDIUM |-> "ESCALATE_FOR_REVIEW",
                        HIGH |-> "RECOMMEND_HOLD"]
\* Mutant: severities compared as strings, alphabetically.
_SEVERITY_RANKAlphabetical == [LOW |-> 1, MEDIUM |-> 2, HIGH |-> 0]
_SEVERITY_RANK == [LOW |-> 0, MEDIUM |-> 1, HIGH |-> 2]

\* GovernanceEngine.govern: the findings, and the status of the worst severity
\* that was flagged.
govern(findings) ==
    LET severities == {f.severity : f \in {f \in findings : f.flagged}}
        worst == CHOOSE s \in severities :
                    \A t \in severities : _SEVERITY_RANK[t] <= _SEVERITY_RANK[s]
    IN [findings |-> findings,
        status |-> IF severities = {} THEN "ALLOW" ELSE _SEVERITY_TO_STATUS[worst]]
-----------------------------------------------------------------------------
\* Admins: the adapter leaves DRAFT, for good ...
AcceptAdapter ==
    /\ ~ accepting /\ accepting' = TRUE
    /\ UNCHANGED <<binding, stage, store, pc, locals, answer>>

\* ... a policy is bound at a severity or unbound ...
SetBinding(p, s) ==
    /\ (binding[p] = None) # (s = None)
    /\ binding' = [binding EXCEPT ![p] = s]
    /\ UNCHANGED <<accepting, stage, store, pc, locals, answer>>

\* ... a version is registered, or promoted to SHADOW ...
Advance(g) ==
    /\ \/ stage[g] = "absent" /\ stage' = [stage EXCEPT ![g] = "DRAFT"]
       \/ stage[g] = "DRAFT" /\ stage' = [stage EXCEPT ![g] = "SHADOW"]
    /\ UNCHANGED <<accepting, binding, store, pc, locals, answer>>

\* ... or takes PRODUCTION over from the version that holds it, if one does.  A
\* promotion that raced another can also leave the policy without a holder.
TakeOver(g) ==
    /\ stage[g] \in {"SHADOW", "PRODUCTION"}
    /\ stage' = [h \in Plugin |->
                    IF h = g THEN IF stage[g] = "SHADOW" THEN "PRODUCTION" ELSE "SHADOW"
                    ELSE IF h[1] = g[1] /\ stage[h] = "PRODUCTION" THEN "SHADOW"
                    ELSE stage[h]]
    /\ UNCHANGED <<accepting, binding, store, pc, locals, answer>>
-----------------------------------------------------------------------------
\* A request arrives; an unknown adapter, or one in DRAFT, is a 503.  The
\* payload is then translated and normalized.
Receive(w, e) ==
    /\ pc[w] = "idle"
    /\ \/ /\ accepting
          /\ Goto(w, "idle", "bindings")
          /\ event' = [event EXCEPT ![w] = e] /\ answer' = [answer EXCEPT ![w] = "none"]
          /\ UNCHANGED <<config, store, bound, governing, shadows, verdict>>
       \/ ~ accepting /\ Refuse(w, "503")

\* list_active_for_adapter; no binding at all is a 503.
ReadBindings(w) ==
    /\ pc[w] = "bindings"
    /\ \/ /\ binding # NoBindings
          /\ bound' = [bound EXCEPT ![w] = binding]
          /\ Goto(w, "bindings", "registrations")
          /\ UNCHANGED <<config, store, event, governing, shadows, verdict, answer>>
       \/ binding = NoBindings /\ Refuse(w, "503")

InStage(p, s) == {g \in Plugin : g[1] = p /\ stage[g] = s}

\* Mutant: a policy without a version in PRODUCTION is passed over.
TodoIfProduction(w) ==
    {p \in Policy : /\ bound[w][p] # None /\ InStage(p, "PRODUCTION") # {}
                    /\ \A g \in governing[w] : g[1] # p}

\* The bound policies whose registrations are still to be read.
Todo(w) == {p \in Policy : bound[w][p] # None /\ \A g \in governing[w] : g[1] # p}

\* The registrations of one bound policy, in one SELECT: its PRODUCTION version
\* governs (503 if there is none, or this process does not have it), those in
\* SHADOW are run afterwards.
ReadRegistrations(w, p) ==
    /\ pc[w] = "registrations" /\ p \in Todo(w)
    /\ \/ \E g \in InStage(p, "PRODUCTION") \cap Deployed :
             /\ governing' = [governing EXCEPT ![w] = @ \cup {g}]
             /\ shadows' = [shadows EXCEPT ![w] = @ \cup InStage(p, "SHADOW")]
             /\ UNCHANGED <<config, store, pc, event, bound, verdict, answer>>
       \/ InStage(p, "PRODUCTION") \cap Deployed = {} /\ Refuse(w, "503")

\* Mutant: the registrations in SHADOW are read again, after the policies ran.
GovernReadingShadows(w, flagged) ==
    /\ pc[w] = "registrations" /\ Todo(w) = {}
    /\ flagged \subseteq governing[w]
    /\ verdict' = [verdict EXCEPT ![w] = govern(
          {[plugin |-> g, severity |-> bound[w][g[1]], flagged |-> g \in flagged] :
             g \in governing[w]})]
    /\ shadows' = [shadows EXCEPT ![w] = UNION {InStage(g[1], "SHADOW") : g \in governing[w]}]
    /\ Goto(w, "registrations", "append")
    /\ UNCHANGED <<config, store, event, bound, governing, answer>>

\* The engine evaluates the event with every governing policy, in the sandbox.
Govern(w, flagged) ==
    /\ pc[w] = "registrations" /\ Todo(w) = {}
    /\ flagged \subseteq governing[w]
    /\ verdict' = [verdict EXCEPT ![w] = govern(
          {[plugin |-> g, severity |-> bound[w][g[1]], flagged |-> g \in flagged] :
             g \in governing[w]})]
    /\ Goto(w, "registrations", "append")
    /\ UNCHANGED <<config, store, event, bound, governing, shadows, answer>>

\* A statement fails, or the sandbox reports that translating or evaluating
\* raised or took too long: nothing is recorded.
Fail(w) == pc[w] \in {"bindings", "registrations"} /\ Refuse(w, "500")

\* Mutant: an event that is recorded already is recorded anew.
AppendOverwrites(w) ==
    /\ pc[w] = "append"
    /\ \/ /\ verdicts' = [verdicts EXCEPT ![event[w]] = verdict[w]]
          /\ Goto(w, "append", "shadow")
          /\ UNCHANGED <<config, shadow_findings, locals, answer>>
       \/ Refuse(w, "500")

\* EvidenceStore.append records the event, or raises: the event is recorded
\* already, or its transaction fails.  It may also raise after its commit.
Append(w) ==
    LET recorded == [verdicts EXCEPT ![event[w]] = verdict[w]] IN
    /\ pc[w] = "append"
    /\ \/ /\ verdicts[event[w]] = NoVerdict
          /\ verdicts' = recorded
          /\ Goto(w, "append", "shadow")
          /\ UNCHANGED <<config, shadow_findings, locals, answer>>
       \/ /\ verdicts[event[w]] = NoVerdict
          /\ verdicts' = recorded
          /\ Answer(w, "500") /\ UNCHANGED <<config, shadow_findings>>
       \/ Refuse(w, "500")

\* One registration in SHADOW: passed over if its class is not deployed or its
\* evaluation raises or times out; otherwise its finding is inserted and
\* committed, and an error in that is not caught.
Shadow(w, g) ==
    /\ pc[w] = "shadow" /\ g \in shadows[w]
    /\ \/ /\ shadows' = [shadows EXCEPT ![w] = @ \ {g}]
          /\ \/ UNCHANGED shadow_findings
             \/ g \in Deployed /\ shadow_findings' = shadow_findings \cup {<<event[w], g>>}
          /\ UNCHANGED <<config, verdicts, pc, event, bound, governing, verdict, answer>>
       \/ /\ g \in Deployed /\ Answer(w, "500")
          /\ shadow_findings' \in {shadow_findings, shadow_findings \cup {<<event[w], g>>}}
          /\ UNCHANGED <<config, verdicts>>

Respond(w) ==
    /\ pc[w] = "shadow" /\ shadows[w] = {}
    /\ Refuse(w, "201")

\* The process dies.
Crash(w) == pc[w] # "idle" /\ Refuse(w, "lost")
-----------------------------------------------------------------------------
Next ==
    \/ AcceptAdapter
    \/ \E p \in Policy, s \in PolicySeverity \cup {None} : SetBinding(p, s)
    \/ \E g \in Plugin : Advance(g) \/ TakeOver(g)
    \/ \E w \in Worker :
          \/ \E e \in Event : Receive(w, e)
          \/ ReadBindings(w)
          \/ \E p \in Policy : ReadRegistrations(w, p)
          \/ \E flagged \in SUBSET Plugin : Govern(w, flagged)
          \/ Fail(w) \/ Append(w)
          \/ \E g \in Plugin : Shadow(w, g)
          \/ Respond(w) \/ Crash(w)

Spec == Init /\ [][Next]_vars
-----------------------------------------------------------------------------
\* Every variable keeps its type; nothing of a request outlives its answer, and
\* a request governs with one version of each policy it found bound.
TypeOK ==
    /\ accepting \in BOOLEAN
    /\ binding \in [Policy -> PolicySeverity \cup {None}]
    /\ stage \in [Plugin -> Stage]
    /\ verdicts \in [Event -> Verdict \cup {NoVerdict}]
    /\ shadow_findings \subseteq Event \X Plugin
    /\ pc \in [Worker -> Place]
    /\ event \in [Worker -> Event \cup {None}]
    /\ bound \in [Worker -> [Policy -> PolicySeverity \cup {None}]]
    /\ governing \in [Worker -> SUBSET Plugin]
    /\ shadows \in [Worker -> SUBSET Plugin]
    /\ verdict \in [Worker -> Verdict \cup {NoVerdict}]
    /\ answer \in [Worker -> {"none", "201", "500", "503", "lost"}]
    /\ \A w \in Worker :
          /\ pc[w] \in {"idle", "bindings"} => governing[w] = {} /\ shadows[w] = {}
          /\ \A g, h \in governing[w] : bound[w][g[1]] # None /\ (g[1] = h[1] => g = h)

\* The status stored with an event is that of the worst severity among the
\* policies that flagged it.
StatusMatchesFindings ==
    \A e \in Event : verdicts[e] # NoVerdict =>
        LET Flagged(s) == \E f \in verdicts[e].findings : f.flagged /\ f.severity = s IN
        verdicts[e].status = CASE Flagged("HIGH") -> "RECOMMEND_HOLD"
                               [] Flagged("MEDIUM") /\ ~ Flagged("HIGH") -> "ESCALATE_FOR_REVIEW"
                               [] Flagged("LOW") /\ ~ Flagged("MEDIUM") /\ ~ Flagged("HIGH") ->
                                      "ALLOW_WITH_FLAG"
                               [] OTHER -> "ALLOW"

\* A version in SHADOW observes and never decides: its findings are about
\* recorded events, judged by another version of its policy, and it never both
\* governs an event and shadows it, whatever is promoted meanwhile.
ShadowsObserveOnly ==
    \A e \in Event, g \in Plugin : <<e, g>> \in shadow_findings =>
        /\ \E f \in verdicts[e].findings : f.plugin[1] = g[1]
        /\ \A f \in verdicts[e].findings : f.plugin # g
        /\ stage[g] \in {"SHADOW", "PRODUCTION"}

\* "No partial verdicts": what is recorded of an event are the findings of every
\* policy the request found bound, at the severity of that binding, although
\* bindings and registrations are read one SELECT after the other.
WholeVerdict ==
    [][\A e \in Event : verdicts'[e] # verdicts[e] =>
          \E w \in Worker :
             /\ event[w] = e
             /\ {<<f.plugin[1], f.severity>> : f \in verdicts'[e].findings}
                  = {<<p, bound[w][p]>> : p \in {p \in Policy : bound[w][p] # None}}]_vars

\* A shadow version's "own failure must never surface to the caller": once the
\* event is recorded and only shadows remain, the caller gets a 201.
ShadowNeverSurfaces ==
    [][\A w \in Worker : pc[w] = "shadow" /\ pc'[w] = "idle" =>
          answer'[w] \in {"201", "lost"}]_vars
=============================================================================
