--------------------------- MODULE IngestionProofs ---------------------------
(***************************************************************************)
(* The safety properties of Ingestion for any requests, events, policies   *)
(* and versions, whatever admins change between two SELECTs of a request.  *)
(***************************************************************************)
EXTENDS Ingestion, TLAPS

USE IngestionAssumption

\* The status of a verdict is that of its worst flagged finding.
Sound(v) ==
    LET Flagged(s) == \E f \in v.findings : f.flagged /\ f.severity = s IN
    v.status = CASE Flagged("HIGH") -> "RECOMMEND_HOLD"
                 [] Flagged("MEDIUM") /\ ~ Flagged("HIGH") -> "ESCALATE_FOR_REVIEW"
                 [] Flagged("LOW") /\ ~ Flagged("MEDIUM") /\ ~ Flagged("HIGH") ->
                        "ALLOW_WITH_FLAG"
                 [] OTHER -> "ALLOW"

\* The verdict of a request consists of the findings of the versions that govern
\* it, one for each policy it found bound.
VerdictOf(w, v) ==
    /\ v \in Verdict /\ Sound(v)
    /\ \A g \in Plugin : g \in governing[w] <=> \E f \in v.findings : f.plugin = g
    /\ {<<f.plugin[1], f.severity>> : f \in v.findings}
         = {<<p, bound[w][p]>> : p \in {p \in Policy : bound[w][p] # None}}

\* What a request in flight knows: its event, its verdict once it has one, and
\* that each version it is to shadow has left DRAFT and its policy is governed by
\* another version.
RequestOf(w) ==
    /\ pc[w] # "idle" => event[w] \in Event
    /\ pc[w] \in {"append", "shadow"} => VerdictOf(w, verdict[w])
    /\ pc[w] = "shadow" => verdicts[event[w]] = verdict[w]
    /\ \A g \in shadows[w] : /\ stage[g] \in {"SHADOW", "PRODUCTION"}
                             /\ g \notin governing[w]
                             /\ \E h \in governing[w] : h[1] = g[1]

RequestInv == \A w \in Worker : RequestOf(w)

StoreInv == \A e \in Event : verdicts[e] # NoVerdict => Sound(verdicts[e])

IInv == TypeOK /\ RequestInv /\ StoreInv /\ ShadowsObserveOnly
-----------------------------------------------------------------------------
\* NoVerdict is no verdict.
LEMMA NoVerdictIsNone == NoVerdict \notin Verdict
  BY DEF NoVerdict, Verdict, VerdictStatus

\* govern ranks the flagged severities as the CASE of StatusMatchesFindings does.
LEMMA GovernSound ==
  ASSUME NEW F \in SUBSET Finding
  PROVE  govern(F) \in Verdict /\ govern(F).findings = F /\ Sound(govern(F))
  <1> DEFINE severities == {f.severity : f \in {f \in F : f.flagged}}
             IsWorst(s) == \A t \in severities : _SEVERITY_RANK[t] <= _SEVERITY_RANK[s]
             worst == CHOOSE s \in severities : IsWorst(s)
             Flagged(s) == \E f \in F : f.flagged /\ f.severity = s
  <1>1. \A s : s \in severities <=> Flagged(s)
    OBVIOUS
  <1>2. severities \subseteq {"LOW", "MEDIUM", "HIGH"}
    BY DEF Finding
  <1>3. govern(F) = [findings |-> F,
                     status |-> IF severities = {} THEN "ALLOW" ELSE _SEVERITY_TO_STATUS[worst]]
    BY DEF govern
  <1> HIDE DEF severities, Flagged
  <1>4. ASSUME NEW s \in severities, IsWorst(s), \A t \in severities : IsWorst(t) => t = s
        PROVE  worst = s
    BY <1>4
  <1> HIDE DEF worst
  <1>5. ASSUME NEW x \in VerdictStatus, govern(F) = [findings |-> F, status |-> x],
               x = CASE "HIGH" \in severities -> "RECOMMEND_HOLD"
                     [] "MEDIUM" \in severities /\ "HIGH" \notin severities ->
                            "ESCALATE_FOR_REVIEW"
                     [] /\ "LOW" \in severities /\ "MEDIUM" \notin severities
                        /\ "HIGH" \notin severities -> "ALLOW_WITH_FLAG"
                     [] OTHER -> "ALLOW"
        PROVE  govern(F) \in Verdict /\ govern(F).findings = F /\ Sound(govern(F))
    <2>1. govern(F).findings = F /\ govern(F).status = x
      BY <1>5
    <2>2. Sound(govern(F))
      BY <1>1, <1>5, <2>1 DEF Sound, Flagged
    <2> QED BY <1>5, <2>1, <2>2 DEF Verdict
  <1>6. CASE "HIGH" \in severities
    <2>1. worst = "HIGH"
      BY <1>2, <1>4, <1>6 DEF _SEVERITY_RANK
    <2>2. severities # {} /\ _SEVERITY_TO_STATUS[worst] = "RECOMMEND_HOLD"
      BY <1>6, <2>1 DEF _SEVERITY_TO_STATUS
    <2>3. govern(F) = [findings |-> F, status |-> "RECOMMEND_HOLD"]
      BY <1>3, <2>2
    <2> QED BY <1>5, <1>6, <2>3 DEF VerdictStatus
  <1>7. CASE "MEDIUM" \in severities /\ "HIGH" \notin severities
    <2>1. worst = "MEDIUM"
      BY <1>2, <1>4, <1>7 DEF _SEVERITY_RANK
    <2>2. severities # {} /\ _SEVERITY_TO_STATUS[worst] = "ESCALATE_FOR_REVIEW"
      BY <1>7, <2>1 DEF _SEVERITY_TO_STATUS
    <2>3. govern(F) = [findings |-> F, status |-> "ESCALATE_FOR_REVIEW"]
      BY <1>3, <2>2
    <2> QED BY <1>5, <1>7, <2>3 DEF VerdictStatus
  <1>8. CASE "LOW" \in severities /\ "MEDIUM" \notin severities /\ "HIGH" \notin severities
    <2>1. worst = "LOW"
      BY <1>2, <1>4, <1>8 DEF _SEVERITY_RANK
    <2>2. severities # {} /\ _SEVERITY_TO_STATUS[worst] = "ALLOW_WITH_FLAG"
      BY <1>8, <2>1 DEF _SEVERITY_TO_STATUS
    <2>3. govern(F) = [findings |-> F, status |-> "ALLOW_WITH_FLAG"]
      BY <1>3, <2>2
    <2> QED BY <1>5, <1>8, <2>3 DEF VerdictStatus
  <1>9. CASE severities = {}
    BY <1>3, <1>5, <1>9 DEF VerdictStatus
  <1> QED BY <1>2, <1>6, <1>7, <1>8, <1>9
-----------------------------------------------------------------------------
\* The initial state satisfies the invariant.
LEMMA InitInv == Init => IInv
  <1> SUFFICES ASSUME Init PROVE IInv
    OBVIOUS
  <1>1. TypeOK
    BY DEF Init, TypeOK, NoBindings, Stage, Place
  <1>2. RequestInv
    BY DEF Init, RequestInv, RequestOf
  <1>3. StoreInv /\ ShadowsObserveOnly
    BY DEF Init, StoreInv, ShadowsObserveOnly
  <1> QED BY <1>1, <1>2, <1>3 DEF IInv

\* What the engine makes of the policies a request has resolved is a whole verdict.
LEMMA GovernVerdict ==
  ASSUME TypeOK, NEW w \in Worker, NEW flagged \in SUBSET governing[w], Todo(w) = {}
  PROVE  VerdictOf(w, govern(
             {[plugin |-> g, severity |-> bound[w][g[1]], flagged |-> g \in flagged] :
                g \in governing[w]}))
  <1> DEFINE Of(g) == [plugin |-> g, severity |-> bound[w][g[1]], flagged |-> g \in flagged]
             F == {Of(g) : g \in governing[w]}
  <1>1. \A g \in governing[w] : g \in Plugin /\ g[1] \in Policy /\ bound[w][g[1]] # None
    BY DEF TypeOK
  <1>2. \A p \in Policy : bound[w][p] # None => bound[w][p] \in PolicySeverity
    BY DEF TypeOK
  <1>3. F \in SUBSET Finding
    <2>1. \A g \in governing[w] : Of(g) \in Finding
      BY <1>1, <1>2 DEF Finding
    <2> QED BY <2>1
  <1>4. \A g \in governing[w] : \E f \in F : f.plugin = g /\ f.severity = bound[w][g[1]]
    <2> TAKE g \in governing[w]
    <2>1. Of(g) \in F /\ Of(g).plugin = g /\ Of(g).severity = bound[w][g[1]]
      OBVIOUS
    <2> QED BY <2>1
  <1>5. \A f \in F : f.plugin \in governing[w] /\ f.severity = bound[w][f.plugin[1]]
    OBVIOUS
  <1> HIDE DEF F
  <1>6. {<<f.plugin[1], f.severity>> : f \in F}
          = {<<p, bound[w][p]>> : p \in {p \in Policy : bound[w][p] # None}}
    <2>1. \A p \in Policy : bound[w][p] # None => \E g \in governing[w] : g[1] = p
      BY DEF Todo
    <2> QED BY <1>1, <1>4, <1>5, <2>1
  <1>7. \A g \in Plugin : g \in governing[w] <=> \E f \in F : f.plugin = g
    BY <1>1, <1>4, <1>5
  <1>8. govern(F) \in Verdict /\ govern(F).findings = F /\ Sound(govern(F))
    BY <1>3, GovernSound
  <1>9. VerdictOf(w, govern(F))
    BY <1>6, <1>7, <1>8 DEF VerdictOf
  <1> QED BY <1>9 DEF F

\* The verdict a request appends is of its type.
LEMMA VerdictType ==
  ASSUME RequestInv, NEW w \in Worker, pc[w] \in {"append", "shadow"}
  PROVE  verdict[w] \in Verdict /\ event[w] \in Event
  BY DEF RequestInv, RequestOf, VerdictOf

\* An answer clears what the request knew.
LEMMA AnswerType ==
  ASSUME TypeOK, NEW w \in Worker, NEW c \in {"none", "201", "500", "503", "lost"},
         Answer(w, c), UNCHANGED config, verdicts' \in [Event -> Verdict \cup {NoVerdict}],
         shadow_findings' \subseteq Event \X Plugin
  PROVE  TypeOK'
  BY DEF TypeOK, Answer, config, NoBindings, Place

\* A step keeps every variable in its type.
LEMMA StepType == IInv /\ [Next]_vars => TypeOK'
  <1> SUFFICES ASSUME IInv, [Next]_vars PROVE TypeOK'
    OBVIOUS
  <1>0. TypeOK /\ RequestInv
    BY DEF IInv
  <1>1. ASSUME UNCHANGED <<store, pc, locals, answer>>, accepting' \in BOOLEAN,
               binding' \in [Policy -> PolicySeverity \cup {None}], stage' \in [Plugin -> Stage]
        PROVE  TypeOK'
    BY <1>0, <1>1 DEF TypeOK, store, locals
  <1>2. CASE AcceptAdapter
    BY <1>0, <1>1, <1>2 DEF AcceptAdapter, TypeOK
  <1>3. ASSUME NEW p \in Policy, NEW s \in PolicySeverity \cup {None}, SetBinding(p, s)
        PROVE  TypeOK'
    BY <1>0, <1>1, <1>3 DEF SetBinding, TypeOK
  <1>4. ASSUME NEW g \in Plugin, Advance(g) \/ TakeOver(g)
        PROVE  TypeOK'
    <2>1. stage' \in [Plugin -> Stage]
      BY <1>0, <1>4 DEF Advance, TakeOver, TypeOK, Stage
    <2> QED BY <1>0, <1>1, <1>4, <2>1 DEF Advance, TakeOver, TypeOK
  <1>5. ASSUME NEW w \in Worker, NEW c \in {"201", "500", "503", "lost"}, Refuse(w, c)
        PROVE  TypeOK'
    BY <1>0, <1>5, AnswerType, SMTT(20) DEF Refuse, store, TypeOK
  <1>6. ASSUME NEW w \in Worker, NEW e \in Event, Receive(w, e)
        PROVE  TypeOK'
    <2>1. CASE /\ Goto(w, "idle", "bindings") /\ event' = [event EXCEPT ![w] = e]
               /\ answer' = [answer EXCEPT ![w] = "none"]
               /\ UNCHANGED <<config, store, bound, governing, shadows, verdict>>
      <3>1. pc' \in [Worker -> Place] /\ event' \in [Worker -> Event \cup {None}]
        BY <1>0, <2>1 DEF Goto, TypeOK, Place
      <3>2. /\ answer' \in [Worker -> {"none", "201", "500", "503", "lost"}]
            /\ \A v \in Worker : pc'[v] = pc[v] \/ (pc[v] = "idle" /\ pc'[v] = "bindings")
        BY <1>0, <2>1 DEF Goto, TypeOK
      <3> QED BY <1>0, <2>1, <3>1, <3>2 DEF TypeOK, config, store
    <2> QED BY <1>5, <1>6, <2>1 DEF Receive
  <1>7. ASSUME NEW w \in Worker, ReadBindings(w)
        PROVE  TypeOK'
    <2>1. CASE /\ bound' = [bound EXCEPT ![w] = binding]
               /\ Goto(w, "bindings", "registrations")
               /\ UNCHANGED <<config, store, event, governing, shadows, verdict, answer>>
      <3>1. /\ pc' \in [Worker -> Place]
            /\ bound' \in [Worker -> [Policy -> PolicySeverity \cup {None}]]
        BY <1>0, <2>1 DEF Goto, TypeOK, Place
      <3>2. pc[w] = "bindings" /\ governing[w] = {} /\ pc'[w] = "registrations"
        BY <1>0, <2>1 DEF Goto, TypeOK
      <3>3. \A v \in Worker \ {w} : pc'[v] = pc[v] /\ bound'[v] = bound[v]
        BY <1>0, <2>1 DEF Goto, TypeOK
      <3> QED BY <1>0, <2>1, <3>1, <3>2, <3>3 DEF TypeOK, config, store
    <2> QED BY <1>5, <1>7, <2>1 DEF ReadBindings
  <1>8. ASSUME NEW w \in Worker, NEW p \in Policy, ReadRegistrations(w, p)
        PROVE  TypeOK'
    <2>1. ASSUME NEW g \in InStage(p, "PRODUCTION"),
                 governing' = [governing EXCEPT ![w] = @ \cup {g}],
                 shadows' = [shadows EXCEPT ![w] = @ \cup InStage(p, "SHADOW")],
                 UNCHANGED <<config, store, pc, event, bound, verdict, answer>>
          PROVE  TypeOK'
      <3>1. g \in Plugin /\ g[1] = p /\ InStage(p, "SHADOW") \subseteq Plugin
        BY <2>1 DEF InStage
      <3>2. bound[w][p] # None /\ \A h \in governing[w] : h[1] # p
        BY <1>8 DEF ReadRegistrations, Todo
      <3>3. pc[w] = "registrations"
        BY <1>8 DEF ReadRegistrations
      <3>4. governing' \in [Worker -> SUBSET Plugin] /\ shadows' \in [Worker -> SUBSET Plugin]
        BY <1>0, <2>1, <3>1 DEF TypeOK
      <3>5. \A v \in Worker \ {w} : governing'[v] = governing[v] /\ shadows'[v] = shadows[v]
        BY <1>0, <2>1 DEF TypeOK
      <3>6. governing'[w] = governing[w] \cup {g}
        BY <1>0, <2>1 DEF TypeOK
      <3> QED BY <1>0, <2>1, <3>1, <3>2, <3>3, <3>4, <3>5, <3>6 DEF TypeOK, config, store
    <2> QED BY <1>5, <1>8, <2>1 DEF ReadRegistrations
  <1>9. ASSUME NEW w \in Worker, NEW flagged \in SUBSET Plugin, Govern(w, flagged)
        PROVE  TypeOK'
    <2>1. PICK v : /\ v = govern(
                         {[plugin |-> g, severity |-> bound[w][g[1]], flagged |-> g \in flagged] :
                            g \in governing[w]})
                   /\ verdict' = [verdict EXCEPT ![w] = v]
      BY <1>9 DEF Govern
    <2>2. v \in Verdict
      <3>1. flagged \in SUBSET governing[w] /\ Todo(w) = {}
        BY <1>9 DEF Govern
      <3>2. VerdictOf(w, v)
        BY <1>0, <2>1, <3>1, GovernVerdict
      <3> QED BY <3>2 DEF VerdictOf
    <2>3. /\ pc[w] = "registrations" /\ pc' = [pc EXCEPT ![w] = "append"]
          /\ UNCHANGED <<config, store, event, bound, governing, shadows, answer>>
      BY <1>9 DEF Govern, Goto
    <2> QED BY <1>0, <2>1, <2>2, <2>3 DEF TypeOK, Place, config, store
  <1>10. ASSUME NEW w \in Worker, Append(w)
         PROVE  TypeOK'
    <2>1. verdict[w] \in Verdict /\ event[w] \in Event
      BY <1>0, <1>10, VerdictType DEF Append
    <2>2. [verdicts EXCEPT ![event[w]] = verdict[w]] \in [Event -> Verdict \cup {NoVerdict}]
      BY <1>0, <2>1 DEF TypeOK
    <2>3. CASE /\ verdicts' = [verdicts EXCEPT ![event[w]] = verdict[w]]
               /\ Goto(w, "append", "shadow")
               /\ UNCHANGED <<config, shadow_findings, locals, answer>>
      BY <1>0, <2>2, <2>3 DEF TypeOK, Goto, Place, config, locals
    <2>4. CASE /\ verdicts' = [verdicts EXCEPT ![event[w]] = verdict[w]]
               /\ Answer(w, "500") /\ UNCHANGED <<config, shadow_findings>>
      BY <1>0, <2>2, <2>4, AnswerType DEF TypeOK
    <2> QED BY <1>5, <1>10, <2>3, <2>4 DEF Append
  <1>11. ASSUME NEW w \in Worker, NEW g \in Plugin, Shadow(w, g)
         PROVE  TypeOK'
    <2>1. <<event[w], g>> \in Event \X Plugin
      BY <1>0, <1>11, VerdictType DEF Shadow
    <2>2. shadow_findings' \subseteq Event \X Plugin /\ UNCHANGED <<config, verdicts>>
      BY <1>0, <1>11, <2>1 DEF Shadow, TypeOK
    <2>3. CASE shadows' = [shadows EXCEPT ![w] = @ \ {g}]
               /\ UNCHANGED <<pc, event, bound, governing, verdict, answer>>
      <3>1. pc[w] = "shadow" /\ \A v \in Worker \ {w} : shadows'[v] = shadows[v]
        BY <1>0, <1>11, <2>3 DEF Shadow, TypeOK
      <3>2. shadows' \in [Worker -> SUBSET Plugin]
        BY <1>0, <2>3 DEF TypeOK
      <3> QED BY <1>0, <2>2, <2>3, <3>1, <3>2 DEF TypeOK, config
    <2>4. CASE Answer(w, "500")
      BY <1>0, <2>2, <2>4, AnswerType DEF TypeOK
    <2> QED BY <1>11, <2>3, <2>4 DEF Shadow
  <1>12. CASE UNCHANGED vars
    BY <1>0, <1>1, <1>12 DEF vars, config, TypeOK
  <1> QED BY <1>2, <1>3, <1>4, <1>5, <1>6, <1>7, <1>8, <1>9, <1>10, <1>11, <1>12
          DEF Next, Fail, Respond, Crash
-----------------------------------------------------------------------------
\* A verdict is recorded by a request that appends it, where there was none, and
\* never changes.
LEMMA StepVerdicts ==
  ASSUME IInv, [Next]_vars, NEW e \in Event, verdicts'[e] # verdicts[e]
  PROVE  /\ verdicts[e] = NoVerdict
         /\ \E w \in Worker : pc[w] = "append" /\ event[w] = e /\ verdicts'[e] = verdict[w]
  <1>1. ~ UNCHANGED verdicts
    OBVIOUS
  <1>2. PICK w \in Worker : Append(w)
    BY <1>1 DEF Next, vars, config, store, AcceptAdapter, SetBinding, Advance, TakeOver,
       Receive, ReadBindings, ReadRegistrations, Govern, Fail, Shadow, Respond, Crash, Refuse
  <1>3. /\ pc[w] = "append" /\ verdicts[event[w]] = NoVerdict
        /\ verdicts' = [verdicts EXCEPT ![event[w]] = verdict[w]]
    BY <1>1, <1>2 DEF Append, Refuse, store
  <1>4. event[w] = e /\ verdicts'[e] = verdict[w]
    BY <1>3 DEF IInv, TypeOK
  <1> QED BY <1>3, <1>4

\* What has left DRAFT does not return to it.
LEMMA StepStages ==
  ASSUME IInv, [Next]_vars, NEW g \in Plugin, stage[g] \in {"SHADOW", "PRODUCTION"}
  PROVE  stage'[g] \in {"SHADOW", "PRODUCTION"}
  <1>1. CASE UNCHANGED stage
    BY <1>1
  <1>2. ASSUME NEW h \in Plugin, Advance(h) \/ TakeOver(h)
        PROVE  stage'[g] \in {"SHADOW", "PRODUCTION"}
    BY <1>2 DEF IInv, TypeOK, Advance, TakeOver
  <1> QED BY <1>1, <1>2 DEF Next, vars, config, AcceptAdapter, SetBinding, Receive,
             ReadBindings, ReadRegistrations, Govern, Fail, Append, Shadow, Respond, Crash,
             Refuse

\* What a request knows stays true while others take steps.
LEMMA RequestFrame ==
  ASSUME IInv, [Next]_vars, NEW w \in Worker,
         pc'[w] = pc[w], event'[w] = event[w], bound'[w] = bound[w],
         governing'[w] = governing[w], shadows'[w] \subseteq shadows[w], verdict'[w] = verdict[w]
  PROVE  RequestOf(w)'
  <1>1. RequestOf(w) /\ TypeOK
    BY DEF IInv, RequestInv
  <1>2. VerdictOf(w, verdict[w]) => VerdictOf(w, verdict[w])'
    BY DEF VerdictOf, Sound
  <1>3. pc[w] = "shadow" => verdicts'[event[w]] = verdicts[event[w]]
    <2> SUFFICES ASSUME pc[w] = "shadow" PROVE verdicts'[event[w]] = verdicts[event[w]]
      OBVIOUS
    <2>1. event[w] \in Event /\ verdicts[event[w]] \in Verdict
      BY <1>1 DEF RequestOf, VerdictOf
    <2> QED BY <2>1, StepVerdicts, NoVerdictIsNone
  <1>4. \A g \in shadows[w] : g \in Plugin
    BY <1>1 DEF TypeOK
  <1>5. \A g \in shadows'[w] : stage'[g] \in {"SHADOW", "PRODUCTION"}
    BY <1>1, <1>4, StepStages DEF RequestOf
  <1> QED BY <1>1, <1>2, <1>3, <1>5 DEF RequestOf

\* A request that is answered knows nothing.
LEMMA AnswerRequest ==
  ASSUME TypeOK, NEW w \in Worker, NEW c, Answer(w, c)
  PROVE  RequestOf(w)'
  BY DEF TypeOK, Answer, RequestOf

\* A step of a request leaves what the others know alone.
LEMMA OneRequest ==
  ASSUME TypeOK, NEW w \in Worker, NEW v \in Worker \ {w},
         \/ \E e \in Event : Receive(w, e)
         \/ ReadBindings(w) \/ Fail(w) \/ Append(w) \/ Respond(w) \/ Crash(w)
         \/ \E p \in Policy : ReadRegistrations(w, p)
         \/ \E flagged \in SUBSET Plugin : Govern(w, flagged)
         \/ \E g \in Plugin : Shadow(w, g)
  PROVE  /\ pc'[v] = pc[v] /\ event'[v] = event[v] /\ bound'[v] = bound[v]
         /\ governing'[v] = governing[v] /\ shadows'[v] = shadows[v] /\ verdict'[v] = verdict[v]
  <1>1. ASSUME NEW c, Answer(w, c)
        PROVE  /\ pc'[v] = pc[v] /\ event'[v] = event[v] /\ bound'[v] = bound[v]
               /\ governing'[v] = governing[v] /\ shadows'[v] = shadows[v]
               /\ verdict'[v] = verdict[v]
    BY <1>1 DEF Answer, TypeOK
  <1>2. CASE Fail(w) \/ Respond(w) \/ Crash(w)
    BY <1>1, <1>2 DEF Fail, Respond, Crash, Refuse
  <1>3. CASE \E e \in Event : Receive(w, e)
    BY <1>1, <1>3 DEF Receive, Refuse, Goto, TypeOK
  <1>4. CASE ReadBindings(w)
    BY <1>1, <1>4 DEF ReadBindings, Refuse, Goto, TypeOK
  <1>5. CASE \E p \in Policy : ReadRegistrations(w, p)
    BY <1>1, <1>5 DEF ReadRegistrations, Refuse, TypeOK
  <1>6. CASE \E flagged \in SUBSET Plugin : Govern(w, flagged)
    BY <1>6 DEF Govern, Goto, TypeOK
  <1>7. CASE Append(w)
    BY <1>1, <1>7 DEF Append, Refuse, Goto, locals, TypeOK
  <1>8. CASE \E g \in Plugin : Shadow(w, g)
    BY <1>1, <1>8 DEF Shadow, TypeOK
  <1> QED BY <1>2, <1>3, <1>4, <1>5, <1>6, <1>7, <1>8

\* A step keeps what requests know true.
LEMMA StepRequest == IInv /\ [Next]_vars => RequestInv'
  <1> SUFFICES ASSUME IInv, [Next]_vars, NEW w \in Worker PROVE RequestOf(w)'
    BY DEF RequestInv
  <1>0. TypeOK /\ RequestOf(w)
    BY DEF IInv, RequestInv
  <1>1. CASE \/ AcceptAdapter \/ UNCHANGED vars
             \/ \E p \in Policy, s \in PolicySeverity \cup {None} : SetBinding(p, s)
             \/ \E g \in Plugin : Advance(g) \/ TakeOver(g)
    <2>1. UNCHANGED <<pc, locals>>
      BY <1>1 DEF AcceptAdapter, SetBinding, Advance, TakeOver, vars
    <2> QED BY <2>1, RequestFrame DEF locals
  <1>2. ASSUME NEW v \in Worker \ {w},
               \/ \E e \in Event : Receive(v, e)
               \/ ReadBindings(v) \/ Fail(v) \/ Append(v) \/ Respond(v) \/ Crash(v)
               \/ \E p \in Policy : ReadRegistrations(v, p)
               \/ \E flagged \in SUBSET Plugin : Govern(v, flagged)
               \/ \E g \in Plugin : Shadow(v, g)
        PROVE  RequestOf(w)'
    BY <1>0, <1>2, OneRequest, RequestFrame
  <1>3. ASSUME NEW c, Refuse(w, c) PROVE RequestOf(w)'
    BY <1>0, <1>3, AnswerRequest DEF Refuse
  <1>4. ASSUME NEW e \in Event, Receive(w, e) PROVE RequestOf(w)'
    <2>1. CASE /\ Goto(w, "idle", "bindings") /\ event' = [event EXCEPT ![w] = e]
               /\ UNCHANGED shadows
      <3>1. pc[w] = "idle" /\ pc'[w] = "bindings" /\ event'[w] = e /\ shadows'[w] = {}
        BY <1>0, <2>1 DEF Goto, TypeOK
      <3> QED BY <3>1 DEF RequestOf
    <2> QED BY <1>3, <1>4, <2>1 DEF Receive
  <1>5. CASE ReadBindings(w)
    <2>1. CASE Goto(w, "bindings", "registrations") /\ UNCHANGED <<event, shadows>>
      <3>1. pc[w] = "bindings" /\ pc'[w] = "registrations" /\ shadows'[w] = {}
        BY <1>0, <2>1 DEF Goto, TypeOK
      <3> QED BY <1>0, <2>1, <3>1 DEF RequestOf
    <2> QED BY <1>3, <1>5, <2>1 DEF ReadBindings
  <1>6. ASSUME NEW p \in Policy, ReadRegistrations(w, p) PROVE RequestOf(w)'
    <2>1. ASSUME NEW g \in InStage(p, "PRODUCTION"),
                 governing' = [governing EXCEPT ![w] = @ \cup {g}],
                 shadows' = [shadows EXCEPT ![w] = @ \cup InStage(p, "SHADOW")],
                 UNCHANGED <<config, store, pc, event, bound, verdict, answer>>
          PROVE  RequestOf(w)'
      <3>1. pc[w] = "registrations" /\ \A h \in governing[w] : h[1] # p
        BY <1>6 DEF ReadRegistrations, Todo
      <3>2. g[1] = p /\ stage[g] = "PRODUCTION"
        BY DEF InStage
      <3>3. \A h \in InStage(p, "SHADOW") : h[1] = p /\ stage[h] = "SHADOW"
        BY DEF InStage
      <3>4. /\ governing'[w] = governing[w] \cup {g}
            /\ shadows'[w] = shadows[w] \cup InStage(p, "SHADOW")
            /\ pc'[w] = pc[w] /\ event'[w] = event[w] /\ stage' = stage
        BY <1>0, <2>1 DEF TypeOK, config
      <3>5. \A h \in shadows[w] : h # g
        BY <1>0, <3>1, <3>2 DEF RequestOf
      <3>6. \A h \in shadows'[w] : /\ stage'[h] \in {"SHADOW", "PRODUCTION"}
                                   /\ h \notin governing'[w]
                                   /\ \E i \in governing'[w] : i[1] = h[1]
        BY <1>0, <3>1, <3>2, <3>3, <3>4, <3>5 DEF RequestOf
      <3> QED BY <1>0, <3>1, <3>4, <3>6 DEF RequestOf
    <2> QED BY <1>3, <1>6, <2>1 DEF ReadRegistrations
  <1>7. ASSUME NEW flagged \in SUBSET Plugin, Govern(w, flagged) PROVE RequestOf(w)'
    <2>1. PICK v : /\ v = govern(
                         {[plugin |-> g, severity |-> bound[w][g[1]], flagged |-> g \in flagged] :
                            g \in governing[w]})
                   /\ verdict' = [verdict EXCEPT ![w] = v]
      BY <1>7 DEF Govern
    <2>2. VerdictOf(w, v)
      <3>1. flagged \in SUBSET governing[w] /\ Todo(w) = {}
        BY <1>7 DEF Govern
      <3> QED BY <1>0, <2>1, <3>1, GovernVerdict
    <2>3. /\ pc[w] = "registrations" /\ pc'[w] = "append" /\ verdict'[w] = v
          /\ UNCHANGED <<stage, event, bound, governing, shadows>>
      BY <1>0, <1>7, <2>1 DEF Govern, Goto, TypeOK, config
    <2>4. VerdictOf(w, v)'
      BY <2>2, <2>3 DEF VerdictOf, Sound
    <2>5. VerdictOf(w, verdict[w])'
      BY <2>3, <2>4 DEF VerdictOf
    <2> QED BY <1>0, <2>3, <2>5 DEF RequestOf
  <1>8. CASE Append(w)
    <2>1. CASE /\ verdicts' = [verdicts EXCEPT ![event[w]] = verdict[w]]
               /\ Goto(w, "append", "shadow")
               /\ UNCHANGED <<config, locals>>
      <3>1. event[w] \in Event /\ pc[w] = "append" /\ pc'[w] = "shadow"
        BY <1>0, <2>1 DEF Goto, RequestOf, TypeOK
      <3>2. verdicts'[event[w]] = verdict[w]
        BY <1>0, <2>1, <3>1 DEF TypeOK
      <3>3. VerdictOf(w, verdict[w])'
        BY <1>0, <2>1, <3>1 DEF RequestOf, VerdictOf, Sound, locals
      <3> QED BY <1>0, <2>1, <3>1, <3>2, <3>3 DEF RequestOf, locals, config
    <2>2. ASSUME Answer(w, "500") PROVE RequestOf(w)'
      BY <1>0, <2>2, AnswerRequest
    <2> QED BY <1>8, <2>1, <2>2 DEF Append, Refuse
  <1>9. ASSUME NEW g \in Plugin, Shadow(w, g) PROVE RequestOf(w)'
    <2>1. CASE /\ shadows' = [shadows EXCEPT ![w] = @ \ {g}]
               /\ UNCHANGED <<pc, event, bound, governing, verdict>>
      <3>1. shadows'[w] \subseteq shadows[w]
        BY <1>0, <2>1 DEF TypeOK
      <3> QED BY <2>1, <3>1, RequestFrame
    <2>2. ASSUME Answer(w, "500") PROVE RequestOf(w)'
      BY <1>0, <2>2, AnswerRequest
    <2> QED BY <1>9, <2>1, <2>2 DEF Shadow
  <1> QED BY <1>1, <1>2, <1>3, <1>4, <1>5, <1>6, <1>7, <1>8, <1>9
          DEF Next, Fail, Respond, Crash
-----------------------------------------------------------------------------
\* Recorded verdicts stay sound.
LEMMA StepStore == IInv /\ [Next]_vars => StoreInv'
  <1> SUFFICES ASSUME IInv, [Next]_vars, NEW e \in Event, verdicts'[e] # NoVerdict
               PROVE  Sound(verdicts'[e])
    BY DEF StoreInv, Sound, NoVerdict
  <1>1. CASE verdicts'[e] = verdicts[e]
    BY <1>1 DEF IInv, StoreInv, Sound
  <1>2. CASE verdicts'[e] # verdicts[e]
    <2>1. PICK w \in Worker : pc[w] = "append" /\ verdicts'[e] = verdict[w]
      BY <1>2, StepVerdicts
    <2>2. Sound(verdict[w])
      BY <2>1 DEF IInv, RequestInv, RequestOf, VerdictOf
    <2> QED BY <2>1, <2>2
  <1> QED BY <1>1, <1>2

\* A shadow finding is inserted by a request whose verdict is the recorded one.
LEMMA StepShadowFindings ==
  ASSUME IInv, [Next]_vars, NEW e \in Event, NEW g \in Plugin,
         <<e, g>> \in shadow_findings', <<e, g>> \notin shadow_findings
  PROVE  \E w \in Worker : pc[w] = "shadow" /\ event[w] = e /\ g \in shadows[w]
  <1>1. ~ UNCHANGED shadow_findings
    OBVIOUS
  <1>2. PICK w \in Worker, h \in Plugin : Shadow(w, h)
    BY <1>1 DEF Next, vars, config, store, AcceptAdapter, SetBinding, Advance, TakeOver,
       Receive, ReadBindings, ReadRegistrations, Govern, Fail, Append, Respond, Crash, Refuse
  <1>3. /\ pc[w] = "shadow" /\ h \in shadows[w]
        /\ shadow_findings' = shadow_findings \cup {<<event[w], h>>}
    BY <1>1, <1>2 DEF Shadow
  <1>4. event[w] = e /\ h = g
    BY <1>3
  <1> QED BY <1>3, <1>4

\* Shadow findings stay observations.
LEMMA StepShadows == IInv /\ [Next]_vars => ShadowsObserveOnly'
  <1> SUFFICES ASSUME IInv, [Next]_vars, NEW e \in Event, NEW g \in Plugin,
                      <<e, g>> \in shadow_findings'
               PROVE  /\ \E f \in verdicts'[e].findings : f.plugin[1] = g[1]
                      /\ \A f \in verdicts'[e].findings : f.plugin # g
                      /\ stage'[g] \in {"SHADOW", "PRODUCTION"}
    BY DEF ShadowsObserveOnly
  <1>1. /\ \E f \in verdicts[e].findings : f.plugin[1] = g[1]
        /\ \A f \in verdicts[e].findings : f.plugin # g
        /\ stage[g] \in {"SHADOW", "PRODUCTION"}
    <2>1. CASE <<e, g>> \in shadow_findings
      BY <2>1 DEF IInv, ShadowsObserveOnly
    <2>2. CASE <<e, g>> \notin shadow_findings
      <3>1. PICK w \in Worker : pc[w] = "shadow" /\ event[w] = e /\ g \in shadows[w]
        BY <2>2, StepShadowFindings
      <3>2. /\ verdicts[e] = verdict[w] /\ VerdictOf(w, verdict[w])
            /\ stage[g] \in {"SHADOW", "PRODUCTION"} /\ g \notin governing[w]
            /\ \E h \in governing[w] : h[1] = g[1]
        BY <3>1 DEF IInv, RequestInv, RequestOf
      <3>3. \A h \in governing[w] : h \in Plugin
        BY DEF IInv, TypeOK
      <3> QED BY <3>2, <3>3 DEF VerdictOf
    <2> QED BY <2>1, <2>2
  <1>2. verdicts[e] # NoVerdict
    BY <1>1 DEF NoVerdict
  <1>3. verdicts'[e] = verdicts[e]
    BY <1>2, StepVerdicts
  <1> QED BY <1>1, <1>3, StepStages

\* A step keeps the invariant.
LEMMA StepInv == IInv /\ [Next]_vars => IInv'
  BY StepType, StepRequest, StepStore, StepShadows DEF IInv
-----------------------------------------------------------------------------
\* Every variable keeps its type; a request governs with one version of each
\* policy it found bound, whatever is promoted between its SELECTs.
THEOREM TypeCorrect == Spec => []TypeOK
  <1>1. IInv => TypeOK
    BY DEF IInv
  <1> QED BY <1>1, InitInv, StepInv, PTL DEF Spec

\* The status that is stored with an event is that of its worst flagged finding.
THEOREM StatusSound == Spec => []StatusMatchesFindings
  <1>1. IInv => StatusMatchesFindings
    BY DEF IInv, StoreInv, Sound, StatusMatchesFindings
  <1> QED BY <1>1, InitInv, StepInv, PTL DEF Spec

\* A version in SHADOW never decides an event that it has observed.
THEOREM ShadowsObserve == Spec => []ShadowsObserveOnly
  <1>1. IInv => ShadowsObserveOnly
    BY DEF IInv
  <1> QED BY <1>1, InitInv, StepInv, PTL DEF Spec

\* No verdict is partial: what is recorded are the findings of every policy that
\* the request found bound, at the severity of that binding.
THEOREM NoPartialVerdict == Spec => WholeVerdict
  <1>1. IInv /\ [Next]_vars =>
          [\A e \in Event : verdicts'[e] # verdicts[e] =>
             \E w \in Worker :
                /\ event[w] = e
                /\ {<<f.plugin[1], f.severity>> : f \in verdicts'[e].findings}
                     = {<<p, bound[w][p]>> : p \in {p \in Policy : bound[w][p] # None}}]_vars
    <2> SUFFICES ASSUME IInv, [Next]_vars, NEW e \in Event, verdicts'[e] # verdicts[e]
                 PROVE  \E w \in Worker :
                           /\ event[w] = e
                           /\ {<<f.plugin[1], f.severity>> : f \in verdicts'[e].findings}
                                = {<<p, bound[w][p]>> : p \in {p \in Policy : bound[w][p] # None}}
      OBVIOUS
    <2>1. PICK w \in Worker : pc[w] = "append" /\ event[w] = e /\ verdicts'[e] = verdict[w]
      BY StepVerdicts
    <2>2. VerdictOf(w, verdict[w])
      BY <2>1 DEF IInv, RequestInv, RequestOf
    <2> QED BY <2>1, <2>2 DEF VerdictOf
  <1> QED BY <1>1, InitInv, StepInv, PTL DEF Spec, WholeVerdict
=============================================================================
