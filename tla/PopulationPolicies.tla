------------------------- MODULE PopulationPolicies -------------------------
(***************************************************************************)
(* The two population policies, as operators: what they make of the counts *)
(* of a window and of the parameters of a binding.                         *)
(*                                                                         *)
(* Rates and parameters are rational numbers.  The code divides doubles:   *)
(* quotients of such counts are compared correctly unless they are equal   *)
(* to a threshold below 1, where the rounding decides (10 of 30 against 15 *)
(* of 36 gives 0.7999999999999999), so there either outcome is possible.   *)
(***************************************************************************)
EXTENDS Integers

CONSTANTS Unset, NaN    \* an absent parameter; nan or an infinity

Fraction == [n : Int, d : Nat \ {0}]

ASSUME ParameterAssumption == {Unset, NaN} \cap Fraction = {}

Rational(n, d) == [n |-> n, d |-> d]
Less(p, q) == p.n * q.d < q.n * p.d
Equal(p, q) == p.n * q.d = q.n * p.d

\* The window lists its groups by attribute and then by attribute value: its
\* group_counts are a function of positions in that list, and a part of the
\* list is the set of its positions.
PopulationGroupCount(attributes) ==
    [attribute : attributes, total_count : Nat \ {0}, favorable_outcome_count : Nat]

Rate(g) == Rational(g.favorable_outcome_count, g.total_count)
Unfavorable(g) == g.total_count - g.favorable_outcome_count

_RATIO_THRESHOLD == Rational(4, 5)
_Z_CRITICAL == Rational(2, 1)
_MINIMUM_GROUP_SIZE == 30
_STRUCTURAL_MINIMUM_GROUP_SIZE == 2
_MINIMUM_EXPECTED_CELL_COUNT == 5

group_by_attribute(counts, a) == {i \in DOMAIN counts : counts[i].attribute = a}
Attributes(counts) == {counts[i].attribute : i \in DOMAIN counts}

\* len(positions) < 2.
Few(positions) == \A i, j \in positions : i = j
-----------------------------------------------------------------------------
\* _resolve_parameters: absent and out of range overrides give way to the
\* default, a fraction is cut off, and two groups are compared whatever is set.
\* Mutant: the floor is forgotten.
GroupSizeUnfloored(override) ==
    IF override \in {Unset, NaN} \/ override.n < override.d THEN _MINIMUM_GROUP_SIZE
    ELSE override.n \div override.d

GroupSize(override) ==
    LET size == IF override \in {Unset, NaN} \/ override.n < override.d
                THEN _MINIMUM_GROUP_SIZE ELSE override.n \div override.d
    IN  IF size < _STRUCTURAL_MINIMUM_GROUP_SIZE THEN _STRUCTURAL_MINIMUM_GROUP_SIZE ELSE size

InRange(policy, x) ==
    x \notin {Unset, NaN} /\ 0 < x.n /\ (policy = "adverse-impact-ratio" => x.n <= x.d)

\* limit is "threshold" of the one policy and "z_critical" of the other.
_resolve_parameters(policy, p) ==
    [limit |-> IF InRange(policy, p.limit) THEN p.limit
               ELSE IF policy = "adverse-impact-ratio" THEN _RATIO_THRESHOLD ELSE _Z_CRITICAL,
     minimum_group_size |-> GroupSize(p.minimum_group_size)]
-----------------------------------------------------------------------------
\* A comparison's result: "below" or "at" the limit on the flagged side, or
\* "clear"; a policy is FLAGGED if one is below, and may be if one is at it.

\* Mutant: the first group is the reference.
_reference_rate_first(counts, eligible) ==
    Rate(counts[CHOOSE i \in eligible : \A j \in eligible : i <= j])

_reference_rate(counts, eligible) ==
    LET rates == {Rate(counts[i]) : i \in eligible}
    IN  CHOOSE r \in rates : \A q \in rates : ~ Less(r, q)

\* A rate against the limit times the reference rate.
Ratio(rate, reference, limit) ==
    LET least == Rational(limit.n * reference.n, limit.d * reference.d)
    IN  IF Less(rate, least) THEN "below"
        ELSE IF Equal(rate, least) /\ limit.n < limit.d THEN "at" ELSE "clear"

\* AdverseImpactRatioPolicy, the groups of one attribute: each eligible one's
\* rate over the highest; nothing to compare if that is 0.
Ratios(counts, group, used) ==
    LET eligible == {i \in group : counts[i].total_count >= used.minimum_group_size}
        reference == _reference_rate(counts, eligible)
    IN  IF Few(eligible) \/ reference.n = 0 THEN {}
        ELSE {Ratio(Rate(counts[i]), reference, used.limit) : i \in eligible}

_is_eligible(g, minimum_group_size) ==
    /\ g.total_count >= minimum_group_size
    /\ g.favorable_outcome_count >= _MINIMUM_EXPECTED_CELL_COUNT
    /\ Unfavorable(g) >= _MINIMUM_EXPECTED_CELL_COUNT

\* _two_proportion_z(g, h)^2 * limit.d^2 against limit.n^2, without the root and
\* the quotients: with N decisions, X of them favorable, in both groups,
\* z^2 = (x1 * n2 - x2 * n1)^2 * N / (X * (N - X) * n1 * n2).
Significance(g, h, limit) ==
    LET n1 == g.total_count  x1 == g.favorable_outcome_count
        n2 == h.total_count  x2 == h.favorable_outcome_count
        difference == x1 * n2 - x2 * n1
        left == difference * difference * (n1 + n2) * limit.d * limit.d
        right == (x1 + x2) * (n1 + n2 - x1 - x2) * n1 * n2 * limit.n * limit.n
    IN  IF left > right THEN "below" ELSE IF left = right THEN "at" ELSE "clear"

\* The position of max(eligible, key=rate): the first of those that tie.
ReferenceGroup(counts, eligible) ==
    CHOOSE i \in eligible :
        \A j \in eligible : /\ ~ Less(Rate(counts[i]), Rate(counts[j]))
                            /\ j < i => Less(Rate(counts[j]), Rate(counts[i]))

\* DisparitySignificanceTestPolicy, the groups of one attribute.
Disparities(counts, group, used) ==
    LET eligible == {i \in group : _is_eligible(counts[i], used.minimum_group_size)}
        reference == ReferenceGroup(counts, eligible)
    IN  IF Few(eligible) THEN {}
        ELSE {Significance(counts[i], counts[reference], used.limit) :
                 i \in eligible \ {reference}}

Comparisons(policy, counts, used) ==
    UNION {IF policy = "adverse-impact-ratio"
           THEN Ratios(counts, group_by_attribute(counts, a), used)
           ELSE Disparities(counts, group_by_attribute(counts, a), used) :
              a \in Attributes(counts)}

\* evaluate: the outcomes the finding may have.
Outcomes(policy, counts, used) ==
    LET results == Comparisons(policy, counts, used)
    IN  IF "below" \in results THEN {"FLAGGED"}
        ELSE IF "at" \in results THEN {"FLAGGED", "CLEAR"} ELSE {"CLEAR"}
=============================================================================
