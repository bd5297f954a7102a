-------------------------- MODULE PolicyEvaluation --------------------------
(***************************************************************************)
(* What the policies decide, and on which classification of attributes:    *)
(* the protected_attribute_rules of one domain, which admins and the seed  *)
(* tool add to; the resolution of an event's attributes by those rules,    *)
(* which is stored, and by the static rules of classification.py, which    *)
(* DirectAttributeInInputsPolicy goes by; and population policies over the *)
(* attributes the rules call DIRECT.                                       *)
(*                                                                         *)
(* An evaluation is a function of what it reads, so a behaviour stops at   *)
(* its first result until the rules change again.                          *)
(***************************************************************************)
EXTENDS PopulationPolicies, Sequences

CONSTANTS Attribute,
          FINANCE,       \* classification.py: attribute |-> "DIRECT" or "PROXY"
          Window,        \* bound: sequences of group counts
          Parameters,    \* bound: parameters of a binding
          WindowRules    \* bound: the rules under which windows are evaluated

ASSUME FinanceAssumption ==
    /\ DOMAIN FINANCE # {} /\ DOMAIN FINANCE \subseteq Attribute
    /\ \A a \in DOMAIN FINANCE : FINANCE[a] \in {"DIRECT", "PROXY"}

ASSUME WindowAssumption == Window \subseteq Seq(PopulationGroupCount(Attribute))

ASSUME BindingParameterAssumption ==
    Parameters \subseteq [limit : Fraction \cup {Unset, NaN},
                         minimum_group_size : Fraction \cup {Unset, NaN}]

VARIABLES rules,     \* the rows of the domain: attribute |-> classification
          result     \* of the last evaluation
pevars == <<rules, result>>

NoResult == [kind |-> "none"]
PEInit == rules = << >> /\ result = NoResult

Policies == {"adverse-impact-ratio", "disparity-significance-test"}
Event == [protected_attribute_refs : SUBSET Attribute, input_features : SUBSET Attribute]

\* rules with one row more.
Added(table, a, c) == [b \in DOMAIN table \cup {a} |-> IF b = a THEN c ELSE table[b]]
-----------------------------------------------------------------------------
\* POST /protected-attribute-rules: 409 if the attribute has a rule.
create_protected_attribute_rule(a, c) ==
    /\ a \notin DOMAIN rules
    /\ rules' = Added(rules, a, c)
    /\ result' = NoResult

\* The seed tool adds the rules of FINANCE that are missing, and leaves those
\* that exist alone, in one transaction.
seed_finance_protected_attribute_rules ==
    /\ rules' = [a \in DOMAIN rules \cup DOMAIN FINANCE |->
                    IF a \in DOMAIN rules THEN rules[a] ELSE FINANCE[a]]
    /\ result' = NoResult
-----------------------------------------------------------------------------
\* Mutant: rows of either classification end up in direct_attributes.
rules_for_domain_flat(table) == [a \in DOMAIN table |-> "DIRECT"]

\* ProtectedAttributeRuleRepository.rules_for_domain: direct and proxy
\* attributes from the rows.
rules_for_domain(table) == table

Unrecognized == [error |-> "ValueError"]

\* ProtectedAttributeResolver.resolve: nothing for a domain without rules, a
\* ValueError for an attribute without one, a resolution of each expected one.
resolve(expected, refs) ==
    IF DOMAIN expected = {} THEN << >>
    ELSE IF ~ refs \subseteq DOMAIN expected THEN Unrecognized
    ELSE [a \in DOMAIN expected |->
             IF a \notin refs THEN "WITHHELD"
             ELSE IF expected[a] = "DIRECT" THEN "DIRECT" ELSE "PROXIED"]

Direct(resolutions) == {a \in DOMAIN resolutions : resolutions[a] = "DIRECT"}

\* An event of a governed system: the policy resolves its attributes by the
\* static rules, the evidence store by the rows; either may raise, and then
\* nothing is recorded.
EvaluateEvent(e) ==
    LET static == resolve(FINANCE, e.protected_attribute_refs)
        stored == resolve(rules_for_domain(rules), e.protected_attribute_refs)
    IN  /\ result' =
              IF Unrecognized \in {static, stored} THEN [kind |-> "error", event |-> e]
              ELSE [kind |-> "recorded", event |-> e, resolutions |-> stored,
                    outcome |-> IF Direct(static) \cap e.input_features # {}
                                THEN "FLAGGED" ELSE "CLEAR"]
        /\ UNCHANGED rules

\* A binding's evaluation: the window counts the groups of DIRECT attributes.
EvaluateWindow(policy, w, p) ==
    LET counts == [i \in {j \in DOMAIN w : rules[w[j].attribute] = "DIRECT"} |-> w[i]]
        used == _resolve_parameters(policy, p)
    IN  /\ \E outcome \in Outcomes(policy, counts, used) :
              result' = [kind |-> "finding", policy |-> policy, counts |-> counts,
                         parameters_used |-> used, outcome |-> outcome]
        /\ UNCHANGED rules
-----------------------------------------------------------------------------
PENext ==
    \/ \E a \in Attribute, c \in {"DIRECT", "PROXY"} : create_protected_attribute_rule(a, c)
    \/ seed_finance_protected_attribute_rules
    \/ /\ result = NoResult
       /\ \E e \in Event : EvaluateEvent(e)
    \/ /\ result = NoResult /\ rules \in WindowRules
       /\ \E policy \in Policies, w \in Window, p \in Parameters : EvaluateWindow(policy, w, p)

PESpec == PEInit /\ [][PENext]_pevars
-----------------------------------------------------------------------------
Finding(policy) == result.kind = "finding" /\ result.policy = policy
Limit == result.parameters_used.limit
Groups == {result.counts[i] : i \in DOMAIN result.counts}

\* The four-fifths rule pair by pair: a window is FLAGGED if and only if, of
\* two groups of one attribute that are large enough, one is approved at less
\* than the threshold times the other's rate.  Which group is the reference,
\* what happens when nobody is approved, and how many attributes there are
\* make no difference; a ratio that equals the threshold may be flagged.
FourFifths ==
    Finding("adverse-impact-ratio") =>
        LET large == {g \in Groups : g.total_count >= result.parameters_used.minimum_group_size}
            ratio(g, h) == [n |-> g.favorable_outcome_count * h.total_count * Limit.d,
                            d |-> h.favorable_outcome_count * g.total_count * Limit.n]
            pairs == {q \in large \X large : q[1].attribute = q[2].attribute}
        IN  /\ (\E q \in pairs : ratio(q[1], q[2]).n < ratio(q[1], q[2]).d)
                  => result.outcome = "FLAGGED"
            /\ result.outcome = "FLAGGED"
                  => \E q \in pairs : /\ ratio(q[1], q[2]).n <= ratio(q[1], q[2]).d
                                      /\ q[1] # q[2] /\ q[2].favorable_outcome_count > 0

\* Windows list groups in the alphabetical order of their values.  Under other
\* names for the values the finding would be the same, except that of several
\* groups that tie for the highest rate the disparity test takes the first as
\* its reference, and those may be of different sizes.
NamesDoNotMatter ==
    result.kind = "finding" =>
        LET counts == result.counts
            swapped(i, j) == [counts EXCEPT ![i] = counts[j], ![j] = counts[i]]
            tie == \E g, h \in Groups : g # h /\ g.attribute = h.attribute /\ Equal(Rate(g), Rate(h))
        IN  \A i, j \in DOMAIN counts :
                counts[i].attribute = counts[j].attribute =>
                    \/ result.outcome
                          \in Outcomes(result.policy, swapped(i, j), result.parameters_used)
                    \/ result.policy = "disparity-significance-test" /\ tie

\* A finding can be computed again from what it records: its parameters_used
\* are legal parameters, resolve to themselves and yield its outcome, whatever
\* overrides of the binding were rejected, cut off or raised to the floor.
ParametersReproduce ==
    result.kind = "finding" =>
        LET used == result.parameters_used
            again == _resolve_parameters(result.policy,
                        [limit |-> used.limit,
                         minimum_group_size |-> Rational(used.minimum_group_size, 1)])
        IN  /\ again = used
            /\ used.minimum_group_size >= 2
            /\ result.outcome \in Outcomes(result.policy, result.counts, again)

\* Two classifications judge one event: the static one flags it, the rows
\* explain it.  Once the rows contain the static rules they agree on every
\* event that is recorded: it is FLAGGED if and only if an attribute that its
\* own record calls DIRECT is among the model's inputs.
OneClassification ==
    /\ result.kind = "recorded"
    /\ \A a \in DOMAIN FINANCE : a \in DOMAIN rules /\ rules[a] = FINANCE[a]
    => (result.outcome = "FLAGGED"
           <=> Direct(result.resolutions) \cap result.event.input_features # {})
=============================================================================
